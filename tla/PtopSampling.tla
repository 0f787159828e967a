---------------------------- MODULE PtopSampling ----------------------------
(***************************************************************************)
(* What a sample of ptop says about a kernel that does not stand still:    *)
(* ptop_snapshot_collect of ptop_snapshot.c, diag_proc_foreach and         *)
(* diag_proc_read of diag_proc.c, and ptop_delta_compute of ptop_delta.c.  *)
(*                                                                         *)
(* A snapshot is not atomic.  The CPU counters are read first, then /proc  *)
(* is walked entry by entry, and between any two reads the kernel charges  *)
(* jiffies, starts and ends processes, and gives a pid to somebody else;   *)
(* any read of a process may fail.  What ends a collection is in PtopLoop; *)
(* here every collection succeeds.                                         *)
(***************************************************************************)
EXTENDS Integers, FiniteSets, FiniteSetsExt, Functions

CONSTANTS
    Pids,       \* the pids the kernel hands out
    Word,       \* 2 ^ width of the unsigned arithmetic
    MaxTicks,   \* bound: jiffies in a behaviour
    MaxHanded,  \* bound: jiffies in a behaviour that reapers inherit
    MaxBirths,  \* bound: processes in a behaviour
    MaxDrops    \* bound: jiffies of iowait that the kernel takes back

ASSUME SamplingAssumption ==
    /\ Pids \subseteq Nat \ {0} /\ IsFiniteSet(Pids)
    /\ MaxTicks \in Nat /\ MaxHanded \in Nat /\ MaxBirths \in Nat /\ MaxDrops \in Nat
    /\ Word \in Nat /\ Word > 1 /\ Word > 2 * MaxTicks /\ Word > MaxTicks + MaxHanded

VARIABLES
    \* the kernel
    running,   \* running[pid]: the number of the process that has the pid, 0 if none
    utime, stime, \* what process number k worked, in user and in system mode
    cutime,    \* the utime and cutime of the processes that number k reaped
    handed,    \* jiffies that went from a process to its reaper so far
    births,    \* processes started so far; number k was started as the k-th
    idle,      \* the idle + iowait column of /proc/stat, in jiffies
    busy,      \* every other column
    drops,     \* jiffies of iowait taken back so far
    \* ptop
    pc,        \* the next statement of the sampling
    at,        \* the directory entry just read
    curr,      \* the snapshot being collected; its began, handed and had are history
    prev,      \* the snapshot before it
    first,     \* the snapshot being collected has no predecessor
    delta,     \* the result of ptop_delta_compute
    \* history
    whole,     \* the delay before curr was slept in full
    due,       \* processes alive since the collection of curr began, less those
               \* whose stat file was tried in vain
    ended      \* jiffies passed and handed on when the collection of curr ended

times == <<utime, stime, cutime, handed>>
kernel == <<running, times, births, idle, busy, drops>>
vars == <<kernel, pc, at, curr, prev, first, delta, whole, due, ended>>

Numbers == 1 .. MaxBirths
Clock == idle + busy       \* the total of the columns of /proc/stat
Elapsed == Clock + drops   \* the jiffies that have passed
Nothing == [p \in {} |-> 0]
NoTime == [k \in Numbers |-> 0]
EmptySnapshot ==
    [total |-> 0, idle |-> 0, began |-> 0, handed |-> 0, procs |-> Nothing, had |-> NoTime]
NoDelta == [total |-> 1, busy |-> 0, procs |-> Nothing]

\* Some processes are running; number 1 is init.  ptop is one of the others,
\* or not among them.
Init ==
    /\ births \in 1 .. Cardinality(Pids)
    /\ births <= MaxBirths
    /\ \E S \in {T \in SUBSET Pids : Cardinality(T) = births} :
          running = [p \in Pids |->
                        IF p \in S THEN Cardinality({q \in S : q <= p}) ELSE 0]
    /\ utime = NoTime /\ stime = NoTime /\ cutime = NoTime /\ handed = 0
    /\ idle = 0
    /\ busy = 0
    /\ drops = 0
    /\ pc = "cpu"
    /\ at = 0
    /\ curr = EmptySnapshot
    /\ prev = EmptySnapshot
    /\ first = TRUE
    /\ delta = NoDelta
    /\ whole = TRUE
    /\ due = {}
    /\ ended = 0

-----------------------------------------------------------------------------
(* The kernel.                                                             *)

\* One jiffy of one processor: idle, or charged to a process, or to nobody.
Worked(k) ==
    \/ utime' = [utime EXCEPT ![k] = @ + 1] /\ UNCHANGED stime
    \/ stime' = [stime EXCEPT ![k] = @ + 1] /\ UNCHANGED utime

Tick ==
    /\ Elapsed < MaxTicks
    /\ \/ idle' = idle + 1 /\ UNCHANGED <<busy, utime, stime>>
       \/ /\ busy' = busy + 1
          /\ \/ UNCHANGED <<utime, stime>>
             \/ \E p \in Pids : running[p] # 0 /\ Worked(running[p])
          /\ idle' = idle
    /\ UNCHANGED <<running, cutime, handed, births, drops, pc, at, curr, prev, first, delta, whole, due, ended>>

\* The iowait column may decrease (proc(5)): what was waiting for a disk is
\* accounted anew.
IowaitBack ==
    /\ drops < MaxDrops
    /\ idle > 0
    /\ idle' = idle - 1
    /\ drops' = drops + 1
    /\ UNCHANGED <<running, times, births, busy, pc, at, curr, prev, first, delta, whole, due, ended>>

Fork ==
    /\ births < MaxBirths
    /\ \E p \in Pids :
          /\ running[p] = 0
          /\ running' = [running EXCEPT ![p] = births + 1]
    /\ births' = births + 1
    /\ UNCHANGED <<times, idle, busy, drops, pc, at, curr, prev, first, delta, whole, due, ended>>

\* Whoever waits for process k takes over its user time and what k took over
\* itself (proc(5)): its parent or, when that is gone, an ancestor, at last
\* init.  With SIGCHLD ignored the time is lost.
Reaped(k) ==
    \/ UNCHANGED times
    \/ \E q \in Pids :
          /\ running[q] # 0 /\ running[q] < k
          /\ handed + utime[k] + cutime[k] <= MaxHanded
          /\ cutime' = [cutime EXCEPT ![running[q]] = @ + utime[k] + cutime[k]]
          /\ handed' = handed + utime[k] + cutime[k]
          /\ UNCHANGED <<utime, stime>>

\* Every process but init may end; its pid is free once it is reaped.
ProcessEnds ==
    /\ \E p \in Pids :
          /\ running[p] > 1
          /\ Reaped(running[p])
          /\ running' = [running EXCEPT ![p] = 0]
          /\ due' = due \ {running[p]}
    /\ UNCHANGED <<births, idle, busy, drops, pc, at, curr, prev, first, delta, whole, ended>>

-----------------------------------------------------------------------------
(***************************************************************************)
(* ptop_snapshot_collect.  readdir returns the pids in ascending order,    *)
(* each one alive when it is returned.  A stat file that cannot be opened, *)
(* read or parsed, for its process is gone or for any other reason, is     *)
(* skipped, and the walk goes on with the next entry.                      *)
(***************************************************************************)
Goto(from, to) == pc = from /\ pc' = to

\* diag_proc_parse_stat_line skips ten fields after the ppid, one more than
\* there are before utime: what it stores as utime and stime are the stime and
\* the cutime of the process.
Ticks == [k \in Numbers |-> stime[k] + cutime[k]]

ReadCpu ==
    /\ Goto("cpu", "dir")
    /\ curr' = [total |-> Clock, idle |-> idle, began |-> Elapsed, handed |-> handed,
                procs |-> Nothing, had |-> Ticks]
    /\ at' = 0
    /\ due' = {running[p] : p \in Pids} \ {0}
    /\ UNCHANGED <<kernel, prev, first, delta, whole, ended>>

Ahead == {p \in Pids : p > at /\ running[p] # 0}

Readdir ==
    /\ Goto("dir", "stat")
    /\ at' \in Ahead
    /\ \A p \in Ahead : at' <= p
    /\ UNCHANGED <<kernel, curr, prev, first, delta, whole, due, ended>>

\* The number of the process is history; ptop sees its pid and its ticks.
Seen(p) == [number |-> running[p], ticks |-> Ticks[running[p]], rss |-> 0]
WithSeen(procs, q) == [p \in DOMAIN procs \cup {q} |-> IF p = q THEN Seen(q) ELSE procs[p]]

StatFails ==
    /\ pc' = "dir"
    /\ due' = due \ {running[at]}
    /\ UNCHANGED curr
StatRead ==
    /\ running[at] # 0
    /\ pc' = "status"
    /\ curr' = [curr EXCEPT !.procs = WithSeen(@, at)]
    /\ UNCHANGED due

ReadStat_StopsAtGone ==                 \* mutant: a process that cannot be read ends the walk
    /\ pc = "stat"
    /\ \/ pc' = "end" /\ due' = due \ {running[at]} /\ UNCHANGED curr
       \/ StatRead
    /\ UNCHANGED <<kernel, at, prev, first, delta, whole, ended>>
ReadStat ==
    /\ pc = "stat"
    /\ StatFails \/ StatRead
    /\ UNCHANGED <<kernel, at, prev, first, delta, whole, ended>>

\* VmRSS of whoever has the pid by now.  When the status file cannot be read, for
\* nobody has it or for another reason, the size is 0 and the process stays in
\* the list.
ReadStatus ==
    /\ Goto("status", "dir")
    /\ \E rss \in {0, running[at]} : curr' = [curr EXCEPT !.procs[at].rss = rss]
    /\ UNCHANGED <<kernel, at, prev, first, delta, whole, due, ended>>

EndOfDir ==
    /\ Ahead = {}
    /\ Goto("dir", "end")
    /\ UNCHANGED <<kernel, at, curr, prev, first, delta, whole, due, ended>>

-----------------------------------------------------------------------------
(***************************************************************************)
(* ptop_delta_compute, in unsigned arithmetic.  A process without a        *)
(* predecessor, or with fewer ticks than it, gets 0.                       *)
(***************************************************************************)
Sub(a, b) == (a - b) % Word

TotalDelta ==
    LET d == Sub(curr.total, prev.total) IN IF d = 0 THEN 1 ELSE d

BusyDelta_Clamp ==                      \* mutant: an idle column that decreased counts as 0
    IF curr.idle < prev.idle THEN TotalDelta ELSE Sub(TotalDelta, Sub(curr.idle, prev.idle))
BusyDelta == Sub(TotalDelta, Sub(curr.idle, prev.idle))

ProcDelta_NoClamp(p) ==                 \* mutant: a reused pid wraps around
    IF p \notin DOMAIN prev.procs THEN 0
    ELSE Sub(curr.procs[p].ticks, prev.procs[p].ticks)

ProcDelta_WrongMatch(p) ==              \* mutant: the search returns a neighbour
    IF prev.procs = Nothing THEN 0
    ELSE LET q == Min(DOMAIN prev.procs)
         IN  IF curr.procs[p].ticks >= prev.procs[q].ticks
             THEN Sub(curr.procs[p].ticks, prev.procs[q].ticks)
             ELSE 0

ProcDelta(p) ==
    IF p \in DOMAIN prev.procs /\ curr.procs[p].ticks >= prev.procs[p].ticks
    THEN Sub(curr.procs[p].ticks, prev.procs[p].ticks)
    ELSE 0

\* The first snapshot only becomes prev; every later one is displayed.
FirstSnapshot ==
    /\ Goto("end", "sleep")
    /\ first
    /\ first' = FALSE
    /\ prev' = curr
    /\ curr' = EmptySnapshot
    /\ UNCHANGED <<kernel, at, delta, whole, due, ended>>

DeltaCompute ==
    /\ Goto("end", "view")
    /\ ~first
    /\ delta' = [total |-> TotalDelta, busy |-> BusyDelta,
                 procs |-> [p \in DOMAIN curr.procs |-> ProcDelta(p)]]
    /\ ended' = Elapsed + handed
    /\ UNCHANGED <<kernel, at, curr, prev, first, whole, due>>

\* The display, then ptop_delta_free and prev = curr.
Swap ==
    /\ Goto("view", "sleep")
    /\ prev' = curr
    /\ curr' = EmptySnapshot
    /\ delta' = NoDelta
    /\ ended' = 0
    /\ UNCHANGED <<kernel, at, first, whole, due>>

\* sleep(delay_sec) lasts many jiffies, unless a signal ends it.
SleepWhole ==
    /\ Goto("sleep", "cpu")
    /\ Elapsed > prev.began
    /\ whole' = TRUE
    /\ UNCHANGED <<kernel, at, curr, prev, first, delta, due, ended>>

SleepInterrupted ==
    /\ Goto("sleep", "cpu")
    /\ whole' = FALSE
    /\ UNCHANGED <<kernel, at, curr, prev, first, delta, due, ended>>

Kernel == Tick \/ IowaitBack \/ Fork \/ ProcessEnds
Ptop ==
    \/ ReadCpu \/ Readdir \/ ReadStat \/ ReadStatus \/ EndOfDir
    \/ FirstSnapshot \/ DeltaCompute \/ Swap
    \/ SleepWhole \/ SleepInterrupted

Next == Kernel \/ Ptop
Spec == Init /\ [][Next]_vars

-----------------------------------------------------------------------------
(* Properties.                                                             *)

\* Every variable has its type; the counters never exceed the jiffies passed and
\* handed on, and the subtraction of unsigned numbers never leaves the word.
Counts == 0 .. MaxTicks
Stored == 0 .. MaxTicks + MaxHanded
Entry == [number : Numbers, ticks : Stored, rss : 0 .. MaxBirths]
Procs == UNION {[P -> Entry] : P \in SUBSET Pids}
Snapshots == [total : Counts, idle : Counts, began : Counts, handed : 0 .. MaxHanded,
              procs : Procs, had : [Numbers -> Stored]]

TypeOK ==
    /\ running \in [Pids -> 0 .. MaxBirths]
    /\ utime \in [Numbers -> Counts] /\ stime \in [Numbers -> Counts]
    /\ handed \in 0 .. MaxHanded /\ cutime \in [Numbers -> 0 .. MaxHanded]
    /\ births \in 0 .. MaxBirths
    /\ idle \in Counts /\ busy \in Counts /\ drops \in 0 .. MaxDrops /\ Elapsed \in Counts
    /\ pc \in {"cpu", "dir", "stat", "status", "end", "view", "sleep"}
    /\ at \in Pids \cup {0}
    /\ curr \in Snapshots /\ prev \in Snapshots
    /\ delta.total \in 1 .. Word - 1 /\ delta.busy \in 0 .. Word - 1
    /\ first \in BOOLEAN /\ whole \in BOOLEAN
    /\ due \subseteq Numbers
    /\ ended \in Stored

\* A process that lives through the whole collection is missing from the sample
\* only if its own stat file could not be read; it has its own memory size, or 0
\* where its status could not be read.  Neither another process that starts, ends
\* or cannot be read nor a pid that changes hands costs it its place or its size.
Complete ==
    pc = "end" =>
        \A k \in due : \E p \in DOMAIN curr.procs :
            curr.procs[p].number = k /\ curr.procs[p].rss \in {0, k}

\* No process is charged more than the two counters that the code reads, stime
\* and cutime, have grown since the previous collection began, not even when its
\* pid belonged to somebody else then.  They are not the two it is meant to read:
\* ChargeIsWork.
NoOvercharge ==
    pc = "view" =>
        \A p \in DOMAIN delta.procs :
            LET k == curr.procs[p].number
            IN  delta.procs[p] <= curr.procs[p].ticks - prev.had[k]

\* All charges together fit into the jiffies between the first reading of
\* prev and the last of curr and those that reapers took over meanwhile: the
\* excess over total_delta is at most what passed while curr was collected and
\* what dead children had worked.  The sum of the charges is the number of ticks
\* charged.
Charged == UNION {{p} \X (1 .. delta.procs[p]) : p \in DOMAIN delta.procs}
ChargesFit ==
    pc = "view" => Cardinality(Charged) <= ended - (prev.began + prev.handed)

\* tools/ptop/README.md:163: "process_delta_time = utime + stime delta", the
\* fields that the comment at diag_proc.c:79-85 names.  So no process is charged
\* more in one display than it worked in its whole life.
ChargeIsWork ==
    pc = "view" =>
        \A p \in DOMAIN delta.procs :
            LET k == curr.procs[p].number IN delta.procs[p] <= utime[k] + stime[k]

\* The busy time is exact whenever the two readings differ, even if the idle
\* columns went back: the two unsigned subtractions wrap around together. The
\* total is the number of jiffies unless it went back itself, the percentage is
\* at most 100 unless the idle columns did, and a whole delay is enough for the
\* readings to differ unless a column went back.
SystemShare ==
    pc = "view" =>
        /\ curr.total # prev.total =>
              /\ delta.busy = (curr.total - curr.idle) - (prev.total - prev.idle)
              /\ curr.total > prev.total => delta.total = curr.total - prev.total
              /\ curr.idle >= prev.idle => delta.busy <= delta.total
        /\ whole /\ drops = 0 => curr.total > prev.total

\* tools/ptop/README.md section 7: "CPU% = process_delta_time /
\* system_total_delta_time".  The busy time the percentage is computed from
\* never exceeds the busy jiffies there were.
BusyIsReal ==
    pc = "view" =>
        delta.busy <= (curr.total - curr.idle) - (prev.total - prev.idle)
=============================================================================
