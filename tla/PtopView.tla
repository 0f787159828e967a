------------------------------ MODULE PtopView ------------------------------
(***************************************************************************)
(* From the command line (PtopCli) and the processes of a sample to the    *)
(* lines of a display: the filter (ptop_filter.c), the comparators and     *)
(* qsort (ptop.c), the top-N cut (ptop_policy.c) and the output            *)
(* (ptop_render_tty.c, ptop_output.c).                                     *)
(*                                                                         *)
(* /proc lists the processes in some order and qsort may leave elements    *)
(* that compare equal in any order, so both are nondeterministic here.     *)
(***************************************************************************)
EXTENDS PtopCli, SequencesExt, FiniteSets

CONSTANTS
    Pids,      \* the pids of the sample
    Levels,    \* the cpu and rss values told apart
    States     \* the state letters of /proc/PID/stat

ASSUME ViewAssumption ==
    /\ Pids \subseteq 1 .. IntHalf - 1
    /\ Levels \subseteq Nat
    /\ \A s \in Letters : Upper(Upper(s)) = Upper(s)

VARIABLES
    procs,   \* the processes of the sample
    items,   \* delta.items, the first count of them
    shown    \* the lines displayed

vars == <<given, cfg, stage, rc, procs, items, shown>>

Process == [pid : Pids, cpu : Levels, rss : Levels, state : States]

\* One entry per pid.
Entry(p, c, r, s) == [pid |-> p, cpu |-> c, rss |-> r, state |-> s]
Samples ==
    UNION {{{Entry(p, c[p], r[p], s[p]) : p \in P} :
             c \in [P -> Levels], r \in [P -> Levels], s \in [P -> States]} : P \in SUBSET Pids}

Init == ParseInit /\ procs = {} /\ items = <<>> /\ shown = <<>>

CommandLine == (Parse \/ Exited) /\ UNCHANGED <<procs, items, shown>>

\* The first snapshot only serves the next one.  The command line is not
\* looked at again, and the delay and the count are the loop's (PtopLoop):
\* the pipeline reads the other fields.
FirstSnapshot ==
    /\ stage = "ready" /\ stage' = "loop"
    /\ given' = <<>> /\ cfg' = [cfg EXCEPT !.delay = 1, !.loops = -1]
    /\ UNCHANGED <<rc, procs, items, shown>>

\* A pass of the loop: one computed sample, in the order of /proc.
Compute ==
    /\ stage = "loop" /\ stage' = "filter"
    /\ procs' \in Samples /\ items' \in SetToSeqs(procs')
    /\ UNCHANGED <<given, cfg, rc, shown>>

-----------------------------------------------------------------------------
(* The comparators of qsort: negative, zero or positive.                   *)

CmpPid(x, y) ==
    IF x.pid < y.pid THEN -1 ELSE IF x.pid > y.pid THEN 1 ELSE 0

CmpCpuDesc_NoTieBreak(x, y) ==             \* mutant: equal load, any order
    IF x.cpu < y.cpu THEN 1 ELSE IF x.cpu > y.cpu THEN -1 ELSE 0

CmpCpuDesc(x, y) ==
    IF x.cpu < y.cpu THEN 1 ELSE IF x.cpu > y.cpu THEN -1 ELSE CmpPid(x, y)

CmpRssDesc(x, y) ==
    IF x.rss < y.rss THEN 1 ELSE IF x.rss > y.rss THEN -1 ELSE CmpPid(x, y)

Cmp(x, y) ==
    CASE cfg.sort = "cpu" -> CmpCpuDesc(x, y)
      [] cfg.sort = "rss" -> CmpRssDesc(x, y)
      [] cfg.sort = "pid" -> CmpPid(x, y)

\* What qsort may leave of an array: any arrangement without an inversion.
Arranged(s) ==
    {t \in SetToSeqs(ToSet(s)) :
        \A i, j \in DOMAIN t : i < j => Cmp(t[i], t[j]) <= 0}

-----------------------------------------------------------------------------
(* The pipeline.                                                           *)

Passes(p) ==
    /\ cfg.pid >= 0 => p.pid = cfg.pid
    /\ cfg.state # NoLetter => p.state = cfg.state

\* The entries that pass move up in their order: items[w++] = *p.
Moves == LET kept == {i \in DOMAIN items : Passes(items[i])}
         IN  {from \in [1 .. Cardinality(kept) -> kept] :
                \A v, w \in DOMAIN from : v < w => from[v] < from[w]}

FilterApply_Holes ==                       \* mutant: res->count is not adjusted
    /\ stage = "filter" /\ stage' = "sort"
    /\ \E from \in Moves :
          items' = [w \in DOMAIN items |-> items[IF w \in DOMAIN from THEN from[w] ELSE w]]
    /\ UNCHANGED <<given, cfg, rc, procs, shown>>

FilterApply ==
    /\ stage = "filter" /\ stage' = "sort"
    /\ \E from \in Moves : items' = [w \in DOMAIN from |-> items[from[w]]]
    /\ UNCHANGED <<given, cfg, rc, procs, shown>>

SortApply ==
    /\ stage = "sort" /\ stage' = "policy"
    /\ items' \in Arranged(items)
    /\ UNCHANGED <<given, cfg, rc, procs, shown>>

Cut(s) == IF cfg.top > 0 /\ Len(s) > cfg.top THEN SubSeq(s, 1, cfg.top) ELSE s

PolicyApply ==
    /\ stage = "policy" /\ stage' = "output"
    /\ items' = Cut(items)
    /\ UNCHANGED <<given, cfg, rc, procs, shown>>

\* The tty renderer cuts to top_n once more, the batch formats print all.
RenderTty ==
    /\ stage = "output" /\ stage' = "done" /\ cfg.mode = "interactive"
    /\ shown' = Cut(items)
    /\ UNCHANGED <<given, cfg, rc, procs, items>>

OutputBatch ==
    /\ stage = "output" /\ stage' = "done" /\ cfg.mode # "interactive"
    /\ shown' = items
    /\ UNCHANGED <<given, cfg, rc, procs, items>>

Done == stage = "done" /\ UNCHANGED vars

Next ==
    \/ CommandLine \/ FirstSnapshot \/ Compute
    \/ FilterApply \/ SortApply \/ PolicyApply \/ RenderTty \/ OutputBatch \/ Done

Spec == Init /\ [][Next]_vars

-----------------------------------------------------------------------------
(* Properties.                                                             *)

\* Every variable has its type; a pid is never displayed twice.
TypeOK ==
    /\ cfg \in [delay : Int, loops : Int, mode : Modes, sort : Sorts, top : Int,
                 pid : Int, state : {Upper(s) : s \in Letters} \cup {NoLetter}]
    /\ stage \in {"options", "exit", "ready", "loop", "filter", "sort", "policy", "output", "done"}
    /\ rc \in 0 .. 2
    /\ procs \subseteq Process /\ \A x, y \in procs : x.pid = y.pid => x = y
    /\ ToSet(items) \subseteq procs /\ IsInjective(items)
    /\ ToSet(shown) \subseteq procs /\ IsInjective(shown)

\* What is displayed, said without a pipeline: the process on line k is the
\* one that k - 1 of the processes selected come before.
Key(p) ==
    CASE cfg.sort = "cpu" -> p.cpu
      [] cfg.sort = "rss" -> p.rss
      [] cfg.sort = "pid" -> 0
Ahead(x, y) == Key(x) > Key(y) \/ (Key(x) = Key(y) /\ x.pid < y.pid)
Selected == {p \in procs : Passes(p)}
Lines == IF cfg.top = 0 \/ Cardinality(Selected) <= cfg.top
         THEN Cardinality(Selected) ELSE cfg.top
LineOf(k) == CHOOSE p \in Selected : Cardinality({q \in Selected : Ahead(q, p)}) = k - 1

\* The display depends on the set of processes and the options alone: neither
\* the order of /proc nor what qsort does with ties shows (README section 6:
\* "deterministic qsort-based ordering"), and -t N keeps the best N.
Deterministic == stage = "done" => shown = [k \in 1 .. Lines |-> LineOf(k)]
=============================================================================
