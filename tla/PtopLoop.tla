------------------------------ MODULE PtopLoop ------------------------------
(***************************************************************************)
(* The monitoring loop of ptop: main() of tools/ptop/ptop.c with the       *)
(* signal handlers and terminal functions of ptop_signal.c, the snapshot   *)
(* collection of ptop_snapshot.c and the allocation pattern of             *)
(* ptop_delta.c.                                                           *)
(*                                                                         *)
(* One process runs main(); the environment delivers signals between any   *)
(* two of its steps, makes any read or allocation fail, and decides when   *)
(* sleep() ends.  What is kept: who owns each heap block, which pointer    *)
(* still aliases it, the flags the handlers set, the cursor, the           *)
(* countdown of -n, and the return code.  What the samples contain is the  *)
(* subject of PtopSampling and PtopView.                                   *)
(***************************************************************************)
EXTENDS Integers, FiniteSets

CONSTANTS
    Blocks,    \* the heap blocks malloc, calloc and realloc can return
    Null,      \* the null pointer
    Garbage,   \* the value of a pointer in a struct nobody has written yet
    MaxCount,  \* bound: the largest COUNT given with -n
    MaxGrow    \* bound: how often one snapshot reallocates its buffer

ASSUME PointerAssumption == Null \notin Blocks /\ Garbage \notin Blocks \cup {Null}
ASSUME BoundAssumption == MaxCount \in Nat /\ MaxGrow \in Nat

VARIABLES
    pc,          \* the next statement of main()
    mode,        \* cfg.mode
    loops,       \* cfg.loops: displays left, -1 for no limit
    dest,        \* the struct ptop_snapshot_collect is filling
    grown,       \* reallocations of the collection in progress
    ptr,         \* prev.procs, curr.procs, delta.items, b.buf, prev_sorted
    heap,        \* the blocks allocated and not freed
    installed,   \* ptop_signal_init has run
    exitFlag,    \* g_exit_flag
    resizeFlag,  \* g_resize_flag
    cursorFlag,  \* g_cursor_hidden
    cursor,      \* what the terminal shows
    rc,          \* the return code of main()
    count,       \* history: the COUNT the user asked for, -1 for no limit
    shown,       \* history: displays made, counted when there is a limit
    late,        \* history: displays begun after an exit request
    misuse       \* history: a pointer was freed or read that was not live

flags == <<installed, exitFlag, resizeFlag>>
screen == <<cursorFlag, cursor>>
memory == <<ptr, heap, misuse>>
history == <<count, shown, late>>
vars == <<pc, mode, loops, dest, grown, rc, flags, screen, memory, history>>

Modes == {"interactive", "batch", "raw", "json"}
Holders == {"prev", "curr", "items", "buf", "sorted"}
Ended == {"exited", "killed"}
Pcs == {"init", "mode", "hide", "mark", "cpu", "mem", "procs", "test", "nap",
        "asleep", "delta", "calloc", "show", "release", "drop", "restore",
        "exit"} \cup Ended

\* The signals: both exit requests share a handler; SIGQUIT stands for every
\* signal ptop leaves at its default action and that ends a process.
Signals == {"SIGINT", "SIGTERM", "SIGWINCH", "SIGQUIT"}

-----------------------------------------------------------------------------
(* Options have been parsed: any mode, a positive COUNT or none.           *)

Init ==
    /\ pc = "init"
    /\ mode \in Modes
    /\ loops \in (1 .. MaxCount) \cup {-1}
    /\ dest = "prev"
    /\ grown = 0
    /\ ptr = [h \in Holders |-> Garbage]
    /\ heap = {}
    /\ installed = FALSE
    /\ exitFlag = FALSE
    /\ resizeFlag = FALSE
    /\ cursorFlag = FALSE
    /\ cursor = "visible"
    /\ rc = 0
    /\ count = loops
    /\ shown = 0
    /\ late = 0
    /\ misuse = FALSE

Goto(from, to) == pc = from /\ pc' = to

(***************************************************************************)
(* Memory.  Freeing a pointer that is neither null nor live, freeing one   *)
(* block through two holders, or reading a block that is gone is recorded  *)
(* in misuse.                                                              *)
(***************************************************************************)
Live(h) == ptr[h] \in heap \cup {Null}

Freeable(hs) ==
    /\ \A h \in hs : Live(h)
    /\ \A g, h \in hs : ptr[g] = ptr[h] => g = h \/ ptr[g] = Null

Free(hs) ==
    /\ heap' = heap \ {ptr[h] : h \in hs}
    /\ misuse' = (misuse \/ ~Freeable(hs))

Alloc(h) ==
    \E b \in Blocks \ heap :
        /\ heap' = heap \cup {b}
        /\ ptr' = [ptr EXCEPT ![h] = b]

Read(hs) == misuse' = (misuse \/ \E h \in hs : ~Live(h))

-----------------------------------------------------------------------------
(* Start: handlers and atexit, then the output mode, then the cursor.      *)

SignalInit ==
    /\ Goto("init", "mode")
    /\ installed' = TRUE
    /\ UNCHANGED <<mode, loops, dest, grown, rc, exitFlag, resizeFlag, screen, memory, history>>

ChooseMode ==
    \E isTty \in BOOLEAN :
        /\ mode' = IF ~isTty /\ mode = "interactive" THEN "batch" ELSE mode
        /\ Goto("mode", IF mode' = "interactive" THEN "hide" ELSE "cpu")
        /\ UNCHANGED <<loops, dest, grown, rc, flags, screen, memory, history>>

HideCursor ==
    /\ Goto("hide", "mark")
    /\ cursor' = "hidden"
    /\ UNCHANGED <<mode, loops, dest, grown, rc, flags, cursorFlag, memory, history>>

MarkHidden ==
    /\ Goto("mark", "cpu")
    /\ cursorFlag' = TRUE
    /\ UNCHANGED <<mode, loops, dest, grown, rc, flags, cursor, memory, history>>

-----------------------------------------------------------------------------
(***************************************************************************)
(* ptop_snapshot_collect(dest).  It fills prev once, at the start, and     *)
(* curr in every iteration.  A failure of the first ends main() at once;   *)
(* a failure of a later one leaves the loop.                               *)
(***************************************************************************)
AfterFailure_Retries ==                        \* mutant: collected again at once
    IF dest = "prev" THEN "exit" ELSE "cpu"
AfterFailure_Continues ==                      \* mutant: on with the loop, no countdown
    IF dest = "prev" THEN "exit" ELSE "test"
AfterFailure == IF dest = "prev" THEN "exit" ELSE "drop"

ReadCpu ==
    /\ pc = "cpu"
    /\ ptr' = [ptr EXCEPT ![dest] = Null]
    /\ \/ pc' = "mem" /\ rc' = rc
       \/ pc' = AfterFailure /\ rc' = 1
    /\ UNCHANGED <<mode, loops, dest, grown, flags, screen, heap, misuse, history>>

ReadMeminfo ==
    /\ pc = "mem"
    /\ \/ /\ pc' = "procs"
          /\ ptr' = [ptr EXCEPT !["buf"] = Null]
          /\ rc' = rc
       \/ /\ pc' = AfterFailure
          /\ ptr' = ptr
          /\ rc' = 1
    /\ grown' = 0
    /\ UNCHANGED <<mode, loops, dest, flags, screen, heap, misuse, history>>

\* collect_cb meets a full buffer: realloc moves the block or extends it.
GrowProcs ==
    /\ Goto("procs", "procs")
    /\ grown < MaxGrow
    /\ grown' = grown + 1
    /\ \E b \in (Blocks \ heap) \cup ({ptr["buf"]} \cap Blocks) :
          /\ ptr' = [ptr EXCEPT !["buf"] = b]
          /\ heap' = (heap \ {ptr["buf"]}) \cup {b}
    /\ Read({"buf"})
    /\ UNCHANGED <<mode, loops, dest, rc, flags, screen, history>>

ProcsFail_Leaks ==                             \* mutant: no free(b.buf)
    /\ Goto("procs", AfterFailure)
    /\ rc' = 1
    /\ UNCHANGED <<mode, loops, dest, grown, flags, screen, memory, history>>

\* opendir fails, or collect_cb could not grow the buffer.
ProcsFail ==
    /\ Goto("procs", AfterFailure)
    /\ Free({"buf"})
    /\ rc' = 1
    /\ UNCHANGED <<mode, loops, dest, grown, flags, screen, ptr, history>>

ProcsDone ==
    /\ Goto("procs", IF dest = "prev" THEN "test" ELSE "delta")
    /\ ptr' = [ptr EXCEPT ![dest] = ptr["buf"]]
    /\ UNCHANGED <<mode, loops, dest, grown, rc, flags, screen, heap, misuse, history>>

-----------------------------------------------------------------------------
(***************************************************************************)
(* The loop.  The flag is read, then sleep() is entered: a signal between  *)
(* the two is only seen after a full delay.                                *)
(***************************************************************************)
Continue_IgnoresFlag == loops # 0              \* mutant: no ptop_should_exit
Continue_OffByOne == ~exitFlag /\ loops # 1    \* mutant: one display short
Continue == ~exitFlag /\ loops # 0

TestLoop ==
    /\ Goto("test", IF Continue THEN "nap" ELSE "drop")
    /\ UNCHANGED <<mode, loops, dest, grown, rc, flags, screen, memory, history>>

EnterSleep ==
    /\ Goto("nap", "asleep")
    /\ dest' = "curr"
    /\ UNCHANGED <<mode, loops, grown, rc, flags, screen, memory, history>>

DelayOver ==
    /\ Goto("asleep", "cpu")
    /\ UNCHANGED <<mode, loops, dest, grown, rc, flags, screen, memory, history>>

\* ptop_delta_compute: the sorted copy of prev, then one view per process
\* of curr.  Either allocation may fail.
CopyPrev ==
    /\ pc = "delta"
    /\ Read({"prev", "curr"})
    /\ Alloc("sorted")
    /\ pc' = "calloc"
    /\ UNCHANGED <<mode, loops, dest, grown, rc, flags, screen, history>>

CopyPrevFail ==
    /\ Goto("delta", "drop")
    /\ Free({"curr"})
    /\ ptr' = [ptr EXCEPT !["curr"] = Null, !["items"] = Null]
    /\ rc' = 1
    /\ UNCHANGED <<mode, loops, dest, grown, flags, screen, history>>

BuildItems ==
    /\ Goto("calloc", "show")
    /\ \E b \in Blocks \ heap :
          /\ ptr' = [ptr EXCEPT !["items"] = b]
          /\ heap' = (heap \cup {b}) \ {ptr["sorted"]}
    /\ misuse' = (misuse \/ ~Freeable({"sorted"}) \/ ~Live("curr"))
    /\ UNCHANGED <<mode, loops, dest, grown, rc, flags, screen, history>>

BuildItemsFail ==
    /\ Goto("calloc", "drop")
    /\ Free({"sorted", "curr"})
    /\ ptr' = [ptr EXCEPT !["curr"] = Null, !["items"] = Null]
    /\ rc' = 1
    /\ UNCHANGED <<mode, loops, dest, grown, flags, screen, history>>

\* filter, sort, policy, output.  Only the tty renderer looks at the resize
\* flag, and clears it.
Show ==
    /\ Goto("show", "release")
    /\ Read({"curr", "items"})
    /\ resizeFlag' = (resizeFlag /\ mode # "interactive")
    /\ shown' = IF count > 0 THEN shown + 1 ELSE shown
    /\ late' = IF exitFlag THEN late + 1 ELSE late
    /\ UNCHANGED <<mode, loops, dest, grown, rc, installed, exitFlag, screen, ptr, heap, count>>

Countdown == IF loops > 0 THEN loops - 1 ELSE loops

\* delta_free, snapshot_free(&prev), prev = curr (curr keeps an alias), the
\* countdown.
Release ==
    /\ Goto("release", "test")
    /\ Free({"items", "prev"})
    /\ ptr' = [ptr EXCEPT !["items"] = Null, !["prev"] = ptr["curr"]]
    /\ loops' = Countdown
    /\ UNCHANGED <<mode, dest, grown, rc, flags, screen, history>>

-----------------------------------------------------------------------------
(* The end of main(), then exit() and its handler.                         *)

FreeLast_Both ==                               \* mutant: curr is freed as well
    /\ Goto("drop", "restore")
    /\ Free({"prev", "curr"})
    /\ ptr' = [ptr EXCEPT !["prev"] = Null, !["curr"] = Null]
    /\ UNCHANGED <<mode, loops, dest, grown, rc, flags, screen, history>>

FreeLast ==
    /\ Goto("drop", "restore")
    /\ Free({"prev"})
    /\ ptr' = [ptr EXCEPT !["prev"] = Null]
    /\ UNCHANGED <<mode, loops, dest, grown, rc, flags, screen, history>>

\* ptop_terminal_restore: nothing unless the flag says hidden.
RestoreCursor ==
    /\ cursor' = IF cursorFlag THEN "visible" ELSE cursor
    /\ cursorFlag' = FALSE

MainRestore ==
    /\ Goto("restore", "exit")
    /\ IF mode = "interactive" THEN RestoreCursor ELSE UNCHANGED screen
    /\ UNCHANGED <<mode, loops, dest, grown, rc, flags, memory, history>>

AtExit_NoHandler ==                            \* mutant: no atexit(atexit_restore)
    /\ Goto("exit", "exited")
    /\ UNCHANGED <<mode, loops, dest, grown, rc, flags, screen, memory, history>>

AtExit ==
    /\ Goto("exit", "exited")
    /\ RestoreCursor
    /\ UNCHANGED <<mode, loops, dest, grown, rc, flags, memory, history>>

-----------------------------------------------------------------------------
(***************************************************************************)
(* Signals.  A handler interrupts sleep(), and nothing else: signal() of   *)
(* the C library restarts the reads.  Before ptop_signal_init an exit      *)
(* request kills and SIGWINCH is ignored.                                  *)
(***************************************************************************)
Interrupted == pc' = IF pc = "asleep" THEN "cpu" ELSE pc

HandleSignal ==
    /\ installed /\ pc \notin Ended
    /\ exitFlag' = TRUE
    /\ Interrupted
    /\ UNCHANGED <<mode, loops, dest, grown, rc, installed, resizeFlag, screen, memory, history>>

HandleWinch ==
    /\ installed /\ pc \notin Ended
    /\ resizeFlag' = TRUE
    /\ Interrupted
    /\ UNCHANGED <<mode, loops, dest, grown, rc, installed, exitFlag, screen, memory, history>>

DefaultKill ==
    /\ pc \notin Ended
    /\ pc' = "killed"
    /\ UNCHANGED <<mode, loops, dest, grown, rc, flags, screen, memory, history>>

Signal(s) ==
    \/ s \in {"SIGINT", "SIGTERM"} /\ HandleSignal
    \/ s = "SIGWINCH" /\ HandleWinch
    \/ s # "SIGWINCH" /\ (s \in {"SIGINT", "SIGTERM"} => ~installed) /\ DefaultKill

\* The process is gone.
Gone == pc \in Ended /\ UNCHANGED vars

Collect == ReadCpu \/ ReadMeminfo \/ GrowProcs \/ ProcsFail \/ ProcsDone

Main ==
    \/ SignalInit \/ ChooseMode \/ HideCursor \/ MarkHidden
    \/ Collect
    \/ TestLoop \/ EnterSleep \/ DelayOver
    \/ CopyPrev \/ CopyPrevFail \/ BuildItems \/ BuildItemsFail
    \/ Show \/ Release
    \/ FreeLast \/ MainRestore \/ AtExit

Next == Main \/ (\E s \in Signals : Signal(s)) \/ Gone

\* The scheduler runs the process, and sleep(delay) ends.
Fairness == WF_vars(Main)

Spec == Init /\ [][Next]_vars
FairSpec == Spec /\ Fairness
-----------------------------------------------------------------------------
(* Properties.                                                             *)

\* Every variable of the loop has its type.
TypeOK ==
    /\ pc \in Pcs
    /\ mode \in Modes
    /\ loops \in (0 .. MaxCount) \cup {-1}
    /\ dest \in {"prev", "curr"}
    /\ grown \in 0 .. MaxGrow
    /\ ptr \in [Holders -> Blocks \cup {Null, Garbage}]
    /\ heap \subseteq Blocks
    /\ installed \in BOOLEAN
    /\ exitFlag \in BOOLEAN
    /\ resizeFlag \in BOOLEAN
    /\ cursorFlag \in BOOLEAN
    /\ cursor \in {"visible", "hidden"}
    /\ rc \in {0, 1}
    /\ count \in (1 .. MaxCount) \cup {-1}
    /\ shown \in Nat
    /\ late \in Nat
    /\ misuse \in BOOLEAN

\* The holders responsible for a block before each statement.
Owners ==
    CASE pc \in {"cpu", "mem"}   -> IF dest = "curr" THEN {"prev"} ELSE {}
      [] pc = "procs"            -> IF dest = "curr" THEN {"prev", "buf"} ELSE {"buf"}
      [] pc \in {"test", "nap", "asleep", "drop"} -> {"prev"}
      [] pc = "delta"            -> {"prev", "curr"}
      [] pc = "calloc"           -> {"prev", "curr", "sorted"}
      [] pc \in {"show", "release"} -> {"prev", "curr", "items"}
      [] OTHER                   -> {}

\* Through pointers p the holders S own exactly the blocks H, one owner each.
OwnedBy(S, p, H) ==
    /\ H = {p[h] : h \in S} \ {Null}
    /\ \A g, h \in S : p[g] = p[h] => g = h \/ p[g] = Null

\* No block leaks and no owner dangles, on the error paths too: while main()
\* runs, the live blocks are exactly those of the owners, one owner each,
\* and when it has returned nothing is left.
HeapOwned == pc # "killed" => OwnedBy(Owners, ptr, heap)

\* No pointer is freed twice, freed while garbage, or read after its block
\* is gone, although prev = curr leaves curr with an alias.
MemorySafe == ~misuse

\* After SIGINT or SIGTERM at most one more sample is displayed: the one
\* whose loop test came before the request.
OneLateDisplay == late <= 1

\* -n COUNT and -1: never more than COUNT displays, and a run that ends with
\* status 0 and without an exit request made all of them.
CountKept ==
    count > 0 =>
        /\ shown <= count
        /\ pc = "exited" /\ rc = 0 /\ ~exitFlag => shown = count

\* Whichever return main() takes, the cursor is visible when the process
\* has exited.
CursorRestored == pc = "exited" => cursor = "visible"

\* An exit request ends the process, also during a sleep, a collection or
\* a display.
ExitAnswered == exitFlag ~> pc \in Ended

\* A run with a COUNT ends by itself, however many signals interrupt it.
CountEnds == count > 0 ~> pc \in Ended

\* The loop implements the promise of PtopMonitor.
Monitor == INSTANCE PtopMonitor WITH
    phase <- IF pc = "exited" THEN "ended"
             ELSE IF pc = "killed" THEN "killed" ELSE "running",
    left <- IF count > 0 THEN count - shown ELSE -1,
    asked <- exitFlag,
    grace <- late = 0,
    hidden <- cursor = "hidden"

\* Every step of the loop is a step the monitor allows, or none of its
\* business.
ImplementsMonitor == Monitor!Spec
=============================================================================
