-------------------------- MODULE PtopLoop_proofs --------------------------
(***************************************************************************)
(* Proofs about PtopLoop, for any set of blocks, any COUNT and any number  *)
(* of reallocations.                                                       *)
(***************************************************************************)
EXTENDS PtopLoop, TLAPS

\* Every variable of the loop keeps its type, whatever signals arrive and
\* whichever reads and allocations fail.
THEOREM TypeCorrect == Spec => []TypeOK
<1>1. Init => TypeOK
  <2> SUFFICES ASSUME Init PROVE TypeOK
    OBVIOUS
  <2>1. /\ pc \in Pcs /\ mode \in Modes
        /\ loops \in (0 .. MaxCount) \cup {-1}
        /\ dest \in {"prev", "curr"} /\ grown \in 0 .. MaxGrow
        /\ rc \in {0, 1} /\ count \in (1 .. MaxCount) \cup {-1}
        /\ shown \in Nat /\ late \in Nat /\ cursor \in {"visible", "hidden"}
    BY BoundAssumption DEF BoundAssumption, Init, Pcs
  <2>2. /\ installed \in BOOLEAN /\ exitFlag \in BOOLEAN /\ resizeFlag \in BOOLEAN
        /\ cursorFlag \in BOOLEAN /\ misuse \in BOOLEAN
    BY DEF Init
  <2>3. ptr \in [Holders -> Blocks \cup {Null, Garbage}] /\ heap \subseteq Blocks
    BY DEF Init
  <2> QED BY <2>1, <2>2, <2>3 DEF TypeOK
<1>2. TypeOK /\ [Next]_vars => TypeOK'
  <2> SUFFICES ASSUME TypeOK, [Next]_vars PROVE TypeOK'
    OBVIOUS
  <2> USE BoundAssumption DEF BoundAssumption, TypeOK, Goto, Pcs, Ended, flags, screen, memory, history
  <2>1. CASE SignalInit
    BY <2>1 DEF SignalInit
  <2>2. CASE ChooseMode
    BY <2>2 DEF ChooseMode, Modes
  <2>3. CASE HideCursor
    BY <2>3 DEF HideCursor
  <2>4. CASE MarkHidden
    BY <2>4 DEF MarkHidden
  <2>5. CASE Collect
    <3>1. CASE ReadCpu
      BY <3>1 DEF ReadCpu, AfterFailure, Holders
    <3>2. CASE ReadMeminfo
      BY <3>2 DEF ReadMeminfo, AfterFailure, Holders
    <3>3. CASE GrowProcs
      <4>1. ptr["buf"] \in Blocks \cup {Null, Garbage}
        BY DEF Holders
      <4>2. grown' \in 0 .. MaxGrow /\ misuse' \in BOOLEAN
        BY <3>3 DEF GrowProcs, Read
      <4>3. /\ ptr' \in [Holders -> Blocks \cup {Null, Garbage}]
            /\ heap' \subseteq Blocks
        BY <3>3, <4>1 DEF GrowProcs
      <4> QED BY <3>3, <4>2, <4>3 DEF GrowProcs
    <3>4. CASE ProcsFail
      BY <3>4 DEF ProcsFail, AfterFailure, Free
    <3>5. CASE ProcsDone
      BY <3>5 DEF ProcsDone, Holders
    <3> QED BY <2>5, <3>1, <3>2, <3>3, <3>4, <3>5 DEF Collect
  <2>6. CASE TestLoop \/ EnterSleep \/ DelayOver
    BY <2>6 DEF TestLoop, EnterSleep, DelayOver
  <2>7. CASE CopyPrev
    BY <2>7 DEF CopyPrev, Alloc, Read, Holders
  <2>8. CASE CopyPrevFail
    BY <2>8 DEF CopyPrevFail, Free, Holders
  <2>9. CASE BuildItems
    BY <2>9 DEF BuildItems, Holders
  <2>10. CASE BuildItemsFail
    BY <2>10 DEF BuildItemsFail, Free, Holders
  <2>11. CASE Show
    BY <2>11 DEF Show, Read
  <2>12. CASE Release
    BY <2>12 DEF Release, Free, Countdown, Holders
  <2>13. CASE FreeLast
    BY <2>13 DEF FreeLast, Free, Holders
  <2>14. CASE MainRestore \/ AtExit
    <3>1. pc' \in {"exit", "exited"}
      BY <2>14 DEF MainRestore, AtExit
    <3>2. cursorFlag' \in BOOLEAN /\ cursor' \in {"visible", "hidden"}
      <4>1. \/ cursorFlag' = FALSE /\ cursor' = IF cursorFlag THEN "visible" ELSE cursor
            \/ UNCHANGED screen
        BY <2>14 DEF MainRestore, AtExit, RestoreCursor
      <4> QED BY <4>1
    <3>3. UNCHANGED <<mode, loops, dest, grown, rc, flags, memory, history>>
      BY <2>14 DEF MainRestore, AtExit
    <3> QED BY <3>1, <3>2, <3>3
  <2>15. ASSUME NEW s \in Signals, Signal(s) PROVE TypeOK'
    <3>1. CASE HandleSignal
      BY <3>1 DEF HandleSignal, Interrupted
    <3>2. CASE HandleWinch
      BY <3>2 DEF HandleWinch, Interrupted
    <3>3. CASE DefaultKill
      BY <3>3 DEF DefaultKill
    <3> QED BY <2>15, <3>1, <3>2, <3>3 DEF Signal
  <2>16. CASE Gone \/ UNCHANGED vars
    BY <2>16 DEF Gone, vars
  <2> QED
    BY <2>1, <2>2, <2>3, <2>4, <2>5, <2>6, <2>7, <2>8, <2>9, <2>10, <2>11,
       <2>12, <2>13, <2>14, <2>15, <2>16 DEF Next, Main
<1> QED BY <1>1, <1>2, PTL DEF Spec

-----------------------------------------------------------------------------
(* What each signal does to the program, in one fact.                      *)

LEMMA SignalStep ==
  ASSUME NEW s \in Signals, Signal(s)
  PROVE  /\ pc \notin Ended
         /\ \/ /\ pc' = "killed"
               /\ UNCHANGED flags
            \/ /\ pc' = IF pc = "asleep" THEN "cpu" ELSE pc
               /\ installed' = installed
               /\ exitFlag' = TRUE \/ exitFlag' = exitFlag
         /\ UNCHANGED <<mode, loops, dest, grown, rc, screen, memory, history>>
<1>1. CASE HandleSignal
  <2>1. (exitFlag' = TRUE \/ exitFlag' = exitFlag) /\ installed' = installed /\ pc \notin Ended
    BY <1>1, Zenon DEF HandleSignal
  <2>2. pc' = IF pc = "asleep" THEN "cpu" ELSE pc
    BY <1>1 DEF HandleSignal, Interrupted
  <2>3. UNCHANGED <<mode, loops, dest, grown, rc, screen, memory, history>>
    BY <1>1, Zenon DEF HandleSignal
  <2> QED BY <2>1, <2>2, <2>3
<1>2. CASE HandleWinch
  <2>1. (exitFlag' = TRUE \/ exitFlag' = exitFlag) /\ installed' = installed /\ pc \notin Ended
    BY <1>2, Zenon DEF HandleWinch
  <2>2. pc' = IF pc = "asleep" THEN "cpu" ELSE pc
    BY <1>2 DEF HandleWinch, Interrupted
  <2>3. UNCHANGED <<mode, loops, dest, grown, rc, screen, memory, history>>
    BY <1>2, Zenon DEF HandleWinch
  <2> QED BY <2>1, <2>2, <2>3
<1>3. CASE DefaultKill
  BY <1>3 DEF DefaultKill
<1> QED BY <1>1, <1>2, <1>3 DEF Signal

-----------------------------------------------------------------------------
(***************************************************************************)
(* The exit request.  Between the loop test and the display the number of  *)
(* late displays is still zero: a display is only late once the request    *)
(* came after the test, and the next test leaves the loop.                 *)
(***************************************************************************)
BeforeDisplay == {"init", "mode", "hide", "mark", "cpu", "mem", "procs", "nap",
                  "asleep", "delta", "calloc", "show"}

LateInv ==
    /\ late \in {0, 1}
    /\ late = 1 => exitFlag
    /\ pc \in BeforeDisplay => late = 0

LEMMA LateInvariant == Spec => []LateInv
<1>1. Init => LateInv
  BY DEF Init, LateInv
<1>2. LateInv /\ [Next]_vars => LateInv'
  <2> SUFFICES ASSUME LateInv, [Next]_vars PROVE LateInv'
    OBVIOUS
  <2> USE DEF LateInv, BeforeDisplay, Goto, flags, history
  <2>1. CASE SignalInit \/ ChooseMode \/ HideCursor \/ MarkHidden
    BY <2>1 DEF SignalInit, ChooseMode, HideCursor, MarkHidden
  <2>2. CASE Collect
    BY <2>2 DEF Collect, ReadCpu, ReadMeminfo, GrowProcs, ProcsFail, ProcsDone, AfterFailure
  <2>3. CASE TestLoop
    BY <2>3 DEF TestLoop, Continue
  <2>4. CASE EnterSleep \/ DelayOver
    BY <2>4 DEF EnterSleep, DelayOver
  <2>5. CASE CopyPrev \/ CopyPrevFail \/ BuildItems \/ BuildItemsFail
    BY <2>5 DEF CopyPrev, CopyPrevFail, BuildItems, BuildItemsFail
  <2>6. CASE Show
    BY <2>6 DEF Show
  <2>7. CASE Release \/ FreeLast \/ MainRestore \/ AtExit
    BY <2>7 DEF Release, FreeLast, MainRestore, AtExit
  <2>8. ASSUME NEW s \in Signals, Signal(s) PROVE LateInv'
    BY <2>8, SignalStep
  <2>9. CASE Gone \/ UNCHANGED vars
    BY <2>9 DEF Gone, vars
  <2> QED
    BY <2>1, <2>2, <2>3, <2>4, <2>5, <2>6, <2>7, <2>8, <2>9 DEF Next, Main
<1> QED BY <1>1, <1>2, PTL DEF Spec

\* However signals interleave with the loop, at most one sample is
\* displayed after SIGINT or SIGTERM.
THEOREM LateDisplayBound == Spec => []OneLateDisplay
<1>1. LateInv => OneLateDisplay
  BY DEF LateInv, OneLateDisplay
<1> QED BY <1>1, LateInvariant, PTL

-----------------------------------------------------------------------------
(***************************************************************************)
(* The cursor.  Except between the escape sequence and the assignment, the *)
(* flag is set whenever the cursor is hidden, so the restore in main() or  *)
(* the one atexit runs shows it.                                           *)
(***************************************************************************)
CursorInv ==
    /\ cursor = "hidden" => cursorFlag \/ pc \in {"mark", "killed"}
    /\ cursor \in {"visible", "hidden"}
    /\ pc = "exited" => cursor = "visible"

LEMMA CursorInvariant == Spec => []CursorInv
<1>1. Init => CursorInv
  BY DEF Init, CursorInv
<1>2. CursorInv /\ [Next]_vars => CursorInv'
  <2> SUFFICES ASSUME CursorInv, [Next]_vars PROVE CursorInv'
    OBVIOUS
  <2> USE DEF CursorInv, Goto, screen
  <2>1. CASE SignalInit \/ ChooseMode \/ HideCursor \/ MarkHidden
    BY <2>1 DEF SignalInit, ChooseMode, HideCursor, MarkHidden
  <2>2. CASE Collect
    BY <2>2 DEF Collect, ReadCpu, ReadMeminfo, GrowProcs, ProcsFail, ProcsDone, AfterFailure
  <2>3. CASE TestLoop \/ EnterSleep \/ DelayOver \/ Show \/ Release \/ FreeLast
    BY <2>3 DEF TestLoop, EnterSleep, DelayOver, Show, Release, FreeLast
  <2>4. CASE CopyPrev \/ CopyPrevFail \/ BuildItems \/ BuildItemsFail
    BY <2>4 DEF CopyPrev, CopyPrevFail, BuildItems, BuildItemsFail
  <2>5. CASE MainRestore \/ AtExit
    BY <2>5 DEF MainRestore, AtExit, RestoreCursor
  <2>6. ASSUME NEW s \in Signals, Signal(s) PROVE CursorInv'
    BY <2>6, SignalStep DEF Ended
  <2>7. CASE Gone \/ UNCHANGED vars
    BY <2>7 DEF Gone, vars
  <2> QED
    BY <2>1, <2>2, <2>3, <2>4, <2>5, <2>6, <2>7 DEF Next, Main
<1> QED BY <1>1, <1>2, PTL DEF Spec

\* Every return of main(), the early one after a failed first collection
\* included, ends with a visible cursor.
THEOREM CursorVisibleAtExit == Spec => []CursorRestored
<1>1. CursorInv => CursorRestored
  BY DEF CursorInv, CursorRestored
<1> QED BY <1>1, CursorInvariant, PTL

-----------------------------------------------------------------------------
(* What an allocation, a free and an assignment do to ownership.           *)

\* Freeing the blocks of some owners leaves exactly the other owners'.
LEMMA FreeOwned ==
  ASSUME NEW S, NEW F \in SUBSET S, NEW p, NEW H, OwnedBy(S, p, H)
  PROVE  OwnedBy(S \ F, p, H \ {p[h] : h \in F})
BY DEF OwnedBy

\* A holder that owns nothing may be given any value.
LEMMA AssignOwned ==
  ASSUME NEW S \in SUBSET Holders, NEW p, NEW q, NEW H, OwnedBy(S, p, H),
         \A h \in S : q[h] = p[h]
  PROVE  OwnedBy(S, q, H)
BY DEF OwnedBy

\* A holder that is given a fresh block, or null, owns it.
LEMMA AllocOwned ==
  ASSUME NEW S \in SUBSET Holders, NEW p, NEW q, NEW H, OwnedBy(S, p, H),
         NEW h \in Holders \ S, NEW b, b \notin H,
         \A g \in S : q[g] = p[g], q[h] = b
  PROVE  OwnedBy(S \cup {h}, q, (H \cup {b}) \ {Null})
BY DEF OwnedBy

\* Ownership moves with the pointer.
LEMMA MoveOwned ==
  ASSUME NEW S \in SUBSET Holders, NEW p, NEW q, NEW H,
         NEW g \in S, NEW h \in Holders \ S, OwnedBy(S, p, H),
         \A x \in S \ {g} : q[x] = p[x], q[h] = p[g]
  PROVE  OwnedBy((S \ {g}) \cup {h}, q, H)
BY DEF OwnedBy

-----------------------------------------------------------------------------
(***************************************************************************)
(* Memory.  The owners before a statement depend on which struct is being  *)
(* filled, so the inductive invariant also says which one it is outside    *)
(* the collection; a killed process keeps whatever it had.                 *)
(***************************************************************************)
MemoryInv ==
    /\ TypeOK
    /\ pc \in {"init", "mode", "hide", "mark"} => dest = "prev"
    /\ pc = "asleep" => dest = "curr"
    /\ HeapOwned
    /\ MemorySafe

\* An owner's pointer is null or live.
LEMMA OwnersLive ==
  ASSUME MemoryInv, pc # "killed", NEW h \in Owners
  PROVE  Live(h)
<1>1. OwnedBy(Owners, ptr, heap)
  BY DEF MemoryInv, HeapOwned
<1> QED BY <1>1 DEF OwnedBy, Live

\* A step that frees some of the owners' blocks misuses nothing.
LEMMA FreeStep ==
  ASSUME MemoryInv, pc # "killed", NEW F \in SUBSET Owners, Free(F)
  PROVE  OwnedBy(Owners \ F, ptr, heap') /\ ~misuse'
<1>1. OwnedBy(Owners, ptr, heap) /\ ~misuse
  BY DEF MemoryInv, HeapOwned, MemorySafe
<1>2. OwnedBy(Owners \ F, ptr, heap \ {ptr[h] : h \in F})
  BY <1>1, FreeOwned
<1>3. Freeable(F)
  BY <1>1, OwnersLive DEF OwnedBy, Freeable
<1> QED BY <1>1, <1>2, <1>3 DEF Free

\* No block leaks, none is freed twice or used after it was freed: at every
\* statement the live blocks are exactly those of the owners.
THEOREM MemoryCorrect == Spec => [](HeapOwned /\ MemorySafe)
<1>1. Init /\ TypeOK => MemoryInv
  <2> SUFFICES ASSUME Init, TypeOK PROVE MemoryInv
    OBVIOUS
  <2>1. pc = "init" /\ dest = "prev" /\ heap = {} /\ ~misuse
    BY DEF Init
  <2>2. Owners = {} /\ OwnedBy({}, ptr, {})
    BY <2>1 DEF Owners, OwnedBy
  <2> QED BY <2>1, <2>2 DEF MemoryInv, HeapOwned, MemorySafe
<1>2. MemoryInv /\ TypeOK' /\ [Next]_vars => MemoryInv'
  <2> SUFFICES ASSUME MemoryInv, TypeOK', [Next]_vars PROVE MemoryInv'
    OBVIOUS
  <2> USE DEF Goto
  <2>1. /\ ptr \in [Holders -> Blocks \cup {Null, Garbage}]
        /\ heap \subseteq Blocks
        /\ dest \in {"prev", "curr"}
        /\ Null \notin Blocks
        /\ ~misuse
    BY PointerAssumption DEF PointerAssumption, MemoryInv, TypeOK, MemorySafe
  <2>2. /\ Owners \in SUBSET Holders
        /\ pc # "killed" => OwnedBy(Owners, ptr, heap)
    BY DEF MemoryInv, HeapOwned, Owners, Holders
  \* A step that leaves the memory alone keeps the owners it had.
  <2>3. ASSUME UNCHANGED memory, Owners' = Owners \/ pc' = "killed",
               pc = "killed" => pc' = "killed",
               pc' \in {"init", "mode", "hide", "mark"} => dest' = "prev",
               pc' = "asleep" => dest' = "curr"
        PROVE  MemoryInv'
    BY <2>1, <2>2, <2>3 DEF MemoryInv, HeapOwned, MemorySafe, memory
  <2>4. ASSUME pc \notin {"killed", "init", "mode", "hide", "mark"},
               pc' \notin {"init", "mode", "hide", "mark", "asleep"},
               OwnedBy(Owners', ptr', heap'), ~misuse'
        PROVE  MemoryInv'
    BY <2>4 DEF MemoryInv, HeapOwned, MemorySafe
  <2>5. CASE SignalInit \/ ChooseMode \/ HideCursor \/ MarkHidden
    <3>1. /\ UNCHANGED <<memory, dest>> /\ dest = "prev"
          /\ pc \in {"init", "mode", "hide", "mark"}
          /\ pc' \in {"mode", "hide", "mark", "cpu"}
      BY <2>5 DEF SignalInit, ChooseMode, HideCursor, MarkHidden, MemoryInv
    <3>2. Owners' = Owners
      BY <3>1 DEF Owners
    <3> QED BY <3>1, <3>2, <2>3
  <2>6. CASE ReadCpu
    <3>1. /\ pc = "cpu" /\ dest' = dest /\ UNCHANGED <<heap, misuse>>
          /\ pc' = "mem" \/ pc' = AfterFailure
          /\ ptr' = [ptr EXCEPT ![dest] = Null]
      BY <2>6 DEF ReadCpu
    <3>2. Owners' = Owners /\ Owners = IF dest = "curr" THEN {"prev"} ELSE {}
      BY <3>1, <2>1 DEF Owners, AfterFailure
    <3>3. \A h \in Owners : ptr'[h] = ptr[h]
      BY <3>1, <3>2, <2>1 DEF Holders
    <3>4. OwnedBy(Owners', ptr', heap')
      BY <3>1, <3>2, <3>3, <2>2, AssignOwned
    <3> QED BY <3>1, <3>4, <2>1, <2>4 DEF AfterFailure
  <2>7. CASE ReadMeminfo
    <3>1. /\ pc = "mem" /\ dest' = dest /\ UNCHANGED <<heap, misuse>>
          /\ Owners = IF dest = "curr" THEN {"prev"} ELSE {}
      BY <2>7, <2>1 DEF ReadMeminfo, Owners
    <3>2. CASE pc' = "procs" /\ ptr' = [ptr EXCEPT !["buf"] = Null]
      <4>1. Owners' = Owners \cup {"buf"} /\ "buf" \in Holders \ Owners
        BY <3>1, <3>2, <2>1 DEF Owners, Holders
      <4>2. (\A h \in Owners : ptr'[h] = ptr[h]) /\ ptr'["buf"] = Null
        BY <3>2, <4>1, <2>1
      <4>3. Null \notin heap /\ (heap \cup {Null}) \ {Null} = heap
        BY <2>1
      <4>4. OwnedBy(Owners', ptr', heap')
        BY <3>1, <4>1, <4>2, <4>3, <2>2, AllocOwned
      <4> QED BY <3>1, <3>2, <4>4, <2>1, <2>4
    <3>3. CASE pc' = AfterFailure /\ ptr' = ptr
      <4>1. Owners' = Owners
        BY <3>1, <3>3, <2>1 DEF Owners, AfterFailure
      <4> QED BY <3>1, <3>3, <4>1, <2>3 DEF memory, AfterFailure
    <3> QED BY <2>7, <3>2, <3>3 DEF ReadMeminfo
  <2>8. CASE GrowProcs
    <3>1. /\ pc = "procs" /\ pc' = "procs" /\ dest' = dest
          /\ Owners' = Owners /\ "buf" \in Owners
      BY <2>8, <2>1 DEF GrowProcs, Owners
    <3>2. PICK b \in (Blocks \ heap) \cup ({ptr["buf"]} \cap Blocks) :
            /\ ptr' = [ptr EXCEPT !["buf"] = b]
            /\ heap' = (heap \ {ptr["buf"]}) \cup {b}
      BY <2>8 DEF GrowProcs
    <3> DEFINE rest == Owners \ {"buf"}
    <3>3. OwnedBy(rest, ptr, heap \ {ptr["buf"]})
      <4>1. /\ {"buf"} \in SUBSET Owners
            /\ {ptr[h] : h \in {"buf"}} = {ptr["buf"]}
            /\ OwnedBy(Owners, ptr, heap)
        BY <3>1, <2>2
      <4> QED BY <4>1 DEF OwnedBy
    <3>4. b \notin heap \ {ptr["buf"]} /\ b # Null
      BY <2>1
    <3>5. ptr'["buf"] = b /\ \A h \in rest : ptr'[h] = ptr[h]
      BY <3>1, <3>2, <2>1, <2>2
    <3>6. OwnedBy(rest \cup {"buf"}, ptr', ((heap \ {ptr["buf"]}) \cup {b}) \ {Null})
      <4>1. rest \in SUBSET Holders /\ "buf" \in Holders \ rest
        BY <2>2, <3>1
      <4> HIDE DEF rest
      <4> QED BY <3>3, <3>4, <3>5, <4>1, AllocOwned
    <3>7. /\ rest \cup {"buf"} = Owners
          /\ ((heap \ {ptr["buf"]}) \cup {b}) \ {Null} = heap'
      BY <3>1, <3>2, <3>4, <2>1
    <3>8. ~misuse'
      BY <2>8, <2>1, <3>1, OwnersLive DEF GrowProcs, Read
    <3> QED BY <3>1, <3>6, <3>7, <3>8, <2>4
  <2>9. CASE ProcsFail
    <3>1. /\ pc = "procs" /\ pc' = AfterFailure /\ UNCHANGED <<ptr, dest>>
          /\ Free({"buf"}) /\ {"buf"} \in SUBSET Owners
          /\ Owners' = Owners \ {"buf"}
      BY <2>9, <2>1 DEF ProcsFail, Owners, AfterFailure
    <3>2. OwnedBy(Owners', ptr', heap') /\ ~misuse'
      BY <3>1, FreeStep
    <3> QED BY <3>1, <3>2, <2>4 DEF AfterFailure
  <2>10. CASE ProcsDone
    <3>1. /\ pc = "procs" /\ dest' = dest /\ UNCHANGED <<heap, misuse>>
          /\ pc' = IF dest = "prev" THEN "test" ELSE "delta"
          /\ ptr' = [ptr EXCEPT ![dest] = ptr["buf"]]
      BY <2>10 DEF ProcsDone
    <3>2. /\ Owners = IF dest = "curr" THEN {"prev", "buf"} ELSE {"buf"}
          /\ Owners' = (Owners \ {"buf"}) \cup {dest}
      BY <3>1, <2>1 DEF Owners
    <3>3. /\ "buf" \in Owners /\ dest \in Holders \ Owners
          /\ ptr'[dest] = ptr["buf"]
          /\ \A h \in Owners \ {"buf"} : ptr'[h] = ptr[h]
      BY <3>1, <3>2, <2>1 DEF Holders
    <3>4. OwnedBy(Owners', ptr', heap')
      BY <3>1, <3>2, <3>3, <2>2, MoveOwned
    <3> QED BY <3>1, <3>4, <2>1, <2>4
  <2>11. CASE TestLoop \/ EnterSleep \/ DelayOver
    <3>1. /\ UNCHANGED memory /\ pc \in {"test", "nap", "asleep"}
          /\ pc' \in {"nap", "drop", "asleep", "cpu"}
          /\ pc \in {"nap", "asleep"} => dest' = "curr"
          /\ pc' = "asleep" => pc = "nap"
          /\ pc' = "cpu" => pc = "asleep"
      BY <2>11 DEF TestLoop, EnterSleep, DelayOver, MemoryInv
    <3>2. Owners' = Owners
      BY <3>1 DEF Owners
    <3> QED BY <3>1, <3>2, <2>3
  <2>12. CASE CopyPrev
    <3>1. /\ pc = "delta" /\ pc' = "calloc"
          /\ Owners = {"prev", "curr"} /\ Owners' = {"prev", "curr"} \cup {"sorted"}
      BY <2>12 DEF CopyPrev, Owners
    <3>2. PICK b \in Blocks \ heap :
            /\ heap' = heap \cup {b}
            /\ ptr' = [ptr EXCEPT !["sorted"] = b]
      BY <2>12 DEF CopyPrev, Alloc
    <3>3. /\ (\A h \in Owners : ptr'[h] = ptr[h]) /\ ptr'["sorted"] = b
          /\ "sorted" \in Holders \ Owners
          /\ (heap \cup {b}) \ {Null} = heap'
      BY <3>1, <3>2, <2>1 DEF Holders
    <3>4. OwnedBy(Owners', ptr', heap')
      <4>1. OwnedBy(Owners \cup {"sorted"}, ptr', (heap \cup {b}) \ {Null})
        BY <3>1, <3>2, <3>3, <2>2, AllocOwned
      <4> QED BY <4>1, <3>1, <3>3
    <3>5. ~misuse'
      <4>1. \A h \in {"prev", "curr"} : Live(h)
        BY <3>1, OwnersLive
      <4> QED BY <4>1, <2>12, <2>1 DEF CopyPrev, Read
    <3> QED BY <3>1, <3>4, <3>5, <2>4
  <2>13. CASE CopyPrevFail
    <3>1. /\ pc = "delta" /\ pc' = "drop" /\ Free({"curr"})
          /\ ptr' = [ptr EXCEPT !["curr"] = Null, !["items"] = Null]
          /\ Owners = {"prev", "curr"} /\ Owners' = {"prev"}
      BY <2>13 DEF CopyPrevFail, Owners
    <3>2. OwnedBy({"prev"}, ptr, heap') /\ ~misuse'
      <4>1. {"curr"} \in SUBSET Owners /\ Owners \ {"curr"} = {"prev"}
        BY <3>1
      <4> QED BY <4>1, <3>1, FreeStep
    <3>3. ptr'["prev"] = ptr["prev"]
      BY <3>1, <2>1 DEF Holders
    <3>4. OwnedBy({"prev"}, ptr', heap')
      BY <3>2, <3>3 DEF OwnedBy
    <3> QED BY <3>1, <3>2, <3>4, <2>4
  <2>14. CASE BuildItems
    <3>1. /\ pc = "calloc" /\ pc' = "show"
          /\ Owners = {"prev", "curr", "sorted"}
          /\ Owners' = {"prev", "curr"} \cup {"items"}
      BY <2>14 DEF BuildItems, Owners
    <3>2. PICK b \in Blocks \ heap :
            /\ ptr' = [ptr EXCEPT !["items"] = b]
            /\ heap' = (heap \cup {b}) \ {ptr["sorted"]}
      BY <2>14 DEF BuildItems
    <3>3. OwnedBy({"prev", "curr"}, ptr, heap \ {ptr["sorted"]})
      <4>1. /\ {"sorted"} \in SUBSET Owners
            /\ Owners \ {"sorted"} = {"prev", "curr"}
            /\ {ptr[h] : h \in {"sorted"}} = {ptr["sorted"]}
        BY <3>1
      <4> QED BY <4>1, <3>1, <2>2 DEF OwnedBy
    <3>4. /\ \A h \in {"prev", "curr"} : ptr'[h] = ptr[h]
          /\ ptr'["items"] = b
          /\ b \notin heap \ {ptr["sorted"]}
          /\ "items" \in Holders \ {"prev", "curr"} /\ {"prev", "curr"} \in SUBSET Holders
          /\ ((heap \ {ptr["sorted"]}) \cup {b}) \ {Null} = heap'
      <4>1. ptr["sorted"] \in heap \cup {Null}
        BY <3>1, OwnersLive DEF Live
      <4> QED BY <4>1, <3>2, <2>1 DEF Holders
    <3>5. OwnedBy(Owners', ptr', heap')
      <4>1. OwnedBy({"prev", "curr"} \cup {"items"}, ptr',
                    ((heap \ {ptr["sorted"]}) \cup {b}) \ {Null})
        BY <3>3, <3>4, AllocOwned
      <4> QED BY <4>1, <3>1, <3>4
    <3>6. ~misuse'
      <4>1. Live("curr") /\ Live("sorted")
        BY <3>1, OwnersLive
      <4>2. Freeable({"sorted"})
        BY <4>1 DEF Freeable
      <4> QED BY <4>1, <4>2, <2>14, <2>1 DEF BuildItems
    <3> QED BY <3>1, <3>5, <3>6, <2>4
  <2>15. CASE BuildItemsFail
    <3>1. /\ pc = "calloc" /\ pc' = "drop" /\ Free({"sorted", "curr"})
          /\ ptr' = [ptr EXCEPT !["curr"] = Null, !["items"] = Null]
          /\ Owners = {"prev", "curr", "sorted"} /\ Owners' = {"prev"}
      BY <2>15 DEF BuildItemsFail, Owners
    <3>2. OwnedBy({"prev"}, ptr, heap') /\ ~misuse'
      <4>1. {"sorted", "curr"} \in SUBSET Owners /\ Owners \ {"sorted", "curr"} = {"prev"}
        BY <3>1
      <4> QED BY <4>1, <3>1, FreeStep
    <3>3. ptr'["prev"] = ptr["prev"]
      BY <3>1, <2>1 DEF Holders
    <3>4. OwnedBy({"prev"}, ptr', heap')
      BY <3>2, <3>3 DEF OwnedBy
    <3> QED BY <3>1, <3>2, <3>4, <2>4
  <2>16. CASE Show
    <3>1. /\ pc = "show" /\ pc' = "release" /\ UNCHANGED <<ptr, heap>>
          /\ Owners = {"prev", "curr", "items"} /\ Owners' = Owners
      BY <2>16 DEF Show, Owners
    <3>2. \A h \in {"curr", "items"} : Live(h)
      BY <3>1, OwnersLive
    <3>3. ~misuse'
      BY <3>2, <2>16, <2>1 DEF Show, Read
    <3> QED BY <3>1, <3>3, <2>2, <2>4
  <2>17. CASE Release
    <3>1. /\ pc = "release" /\ pc' = "test" /\ Free({"items", "prev"})
          /\ ptr' = [ptr EXCEPT !["items"] = Null, !["prev"] = ptr["curr"]]
          /\ Owners = {"prev", "curr", "items"} /\ Owners' = {"prev"}
      BY <2>17 DEF Release, Owners
    <3>2. OwnedBy({"curr"}, ptr, heap') /\ ~misuse'
      <4>1. {"items", "prev"} \in SUBSET Owners /\ Owners \ {"items", "prev"} = {"curr"}
        BY <3>1
      <4> QED BY <4>1, <3>1, FreeStep
    <3>3. ptr'["prev"] = ptr["curr"]
      BY <3>1, <2>1 DEF Holders
    <3>4. OwnedBy({"prev"}, ptr', heap')
      BY <3>2, <3>3 DEF OwnedBy
    <3> QED BY <3>1, <3>2, <3>4, <2>4
  <2>18. CASE FreeLast
    <3>1. /\ pc = "drop" /\ pc' = "restore" /\ Free({"prev"})
          /\ Owners = {"prev"} /\ Owners' = {}
      BY <2>18 DEF FreeLast, Owners
    <3>2. OwnedBy({}, ptr, heap') /\ ~misuse'
      <4>1. {"prev"} \in SUBSET Owners /\ Owners \ {"prev"} = {}
        BY <3>1
      <4> QED BY <4>1, <3>1, FreeStep
    <3>3. OwnedBy({}, ptr', heap')
      BY <3>2 DEF OwnedBy
    <3> QED BY <3>1, <3>2, <3>3, <2>4
  <2>19. CASE MainRestore \/ AtExit
    <3>1. /\ UNCHANGED memory /\ pc \in {"restore", "exit"} /\ pc' \in {"exit", "exited"}
      BY <2>19 DEF MainRestore, AtExit
    <3>2. Owners' = Owners
      BY <3>1 DEF Owners
    <3> QED BY <3>1, <3>2, <2>3
  <2>20. ASSUME NEW s \in Signals, Signal(s) PROVE MemoryInv'
    <3>1. /\ UNCHANGED <<memory, dest>>
          /\ pc' \in {"killed", IF pc = "asleep" THEN "cpu" ELSE pc}
      BY <2>20, SignalStep
    <3>2. pc' = "killed" \/ Owners' = Owners
      BY <3>1, <2>1 DEF Owners, MemoryInv
    <3> QED BY <3>1, <3>2, <2>3, <2>20, SignalStep DEF MemoryInv, Ended
  <2>21. CASE Gone \/ UNCHANGED vars
    <3>1. UNCHANGED <<memory, dest, pc>>
      BY <2>21 DEF Gone, vars
    <3> QED BY <3>1, <2>3 DEF MemoryInv, Owners
  <2> QED
    BY <2>5, <2>6, <2>7, <2>8, <2>9, <2>10, <2>11, <2>12, <2>13, <2>14, <2>15,
       <2>16, <2>17, <2>18, <2>19, <2>20, <2>21 DEF Next, Main, Collect
<1>3. MemoryInv => HeapOwned /\ MemorySafe
  BY DEF MemoryInv
<1> QED BY <1>1, <1>2, <1>3, TypeCorrect, PTL DEF Spec

\* In particular no freed block is freed again or used.
THEOREM NoMisuse == Spec => []MemorySafe
BY MemoryCorrect, PTL

-----------------------------------------------------------------------------
(***************************************************************************)
(* The countdown.  The displays made and the displays left add up to COUNT *)
(* except between a display and the decrement; the loop is only inside an  *)
(* iteration with displays left; and only the countdown, a failure or an   *)
(* exit request leaves it.                                                 *)
(***************************************************************************)
InIteration ==
    \/ pc \in {"nap", "asleep", "delta", "calloc", "show", "release"}
    \/ pc \in {"cpu", "mem", "procs"} /\ dest = "curr"

CountInv ==
    /\ TypeOK
    /\ count = -1 => loops = -1
    /\ count > 0 /\ pc # "killed" =>
           loops + shown = IF pc = "release" THEN count + 1 ELSE count
    /\ count > 0 => loops >= 0 /\ shown <= count
    /\ InIteration => loops # 0
    /\ pc \in {"init", "mode", "hide", "mark"} => dest = "prev"
    /\ pc = "asleep" => dest = "curr"
    /\ pc \in {"drop", "restore", "exit", "exited"} /\ rc = 0 /\ ~exitFlag => loops = 0

LEMMA CountInvariant == Spec => []CountInv
<1>1. Init /\ TypeOK => CountInv
  BY BoundAssumption DEF BoundAssumption, Init, CountInv, InIteration
<1>2. CountInv /\ TypeOK' /\ [Next]_vars => CountInv'
  <2> SUFFICES ASSUME CountInv, TypeOK', [Next]_vars PROVE CountInv'
    OBVIOUS
  <2> USE DEF CountInv, InIteration, Goto, history, flags
  <2>0. /\ loops \in Int /\ count \in Int /\ shown \in Nat
        /\ dest \in {"prev", "curr"} /\ count \in (1 .. MaxCount) \cup {-1}
        /\ exitFlag \in BOOLEAN
    BY BoundAssumption DEF BoundAssumption, TypeOK
  <2>1. CASE SignalInit \/ ChooseMode \/ HideCursor \/ MarkHidden
    BY <2>0, <2>1 DEF SignalInit, ChooseMode, HideCursor, MarkHidden
  <2>2. CASE Collect
    BY <2>0, <2>2 DEF Collect, ReadCpu, ReadMeminfo, GrowProcs, ProcsFail, ProcsDone, AfterFailure
  <2>3. CASE TestLoop
    BY <2>0, <2>3 DEF TestLoop, Continue
  <2>4. CASE EnterSleep \/ DelayOver
    BY <2>0, <2>4 DEF EnterSleep, DelayOver
  <2>5. CASE CopyPrev \/ CopyPrevFail \/ BuildItems \/ BuildItemsFail
    BY <2>0, <2>5 DEF CopyPrev, CopyPrevFail, BuildItems, BuildItemsFail
  <2>6. CASE Show
    BY <2>0, <2>6 DEF Show
  <2>7. CASE Release
    BY <2>0, <2>7 DEF Release, Countdown
  <2>8. CASE FreeLast \/ MainRestore \/ AtExit
    BY <2>0, <2>8 DEF FreeLast, MainRestore, AtExit
  <2>9. ASSUME NEW s \in Signals, Signal(s) PROVE CountInv'
    BY <2>0, <2>9, SignalStep DEF Ended
  <2>10. CASE Gone \/ UNCHANGED vars
    BY <2>0, <2>10 DEF Gone, vars
  <2> QED
    BY <2>1, <2>2, <2>3, <2>4, <2>5, <2>6, <2>7, <2>8, <2>9, <2>10 DEF Next, Main
<1> QED BY <1>1, <1>2, TypeCorrect, PTL DEF Spec

\* A run with a COUNT never displays more samples, and displays all of them
\* unless a failure or an exit request ends it.
THEOREM CountCorrect == Spec => []CountKept
<1>1. CountInv => CountKept
  BY BoundAssumption DEF BoundAssumption, CountInv, CountKept, TypeOK
<1> QED BY <1>1, CountInvariant, PTL

-----------------------------------------------------------------------------
(***************************************************************************)
(* Refinement.  A display is the only step that uses the monitor's count   *)
(* and its grace, an exit is the only one that ends it in order, and every *)
(* other step moves the cursor, asks, kills or stutters.                   *)
(***************************************************************************)

\* What a step has to show to be invisible to the monitor.
MonitorUnchanged ==
    /\ UNCHANGED <<count, shown, exitFlag, late, cursor>>
    /\ pc \notin Ended /\ pc' \notin Ended

LEMMA Stutter == ASSUME MonitorUnchanged PROVE UNCHANGED Monitor!vars
BY DEF MonitorUnchanged, Monitor!vars, Ended

\* The loop keeps every promise of the monitor, for every COUNT.
THEOREM Refinement == Spec => ImplementsMonitor
<1>1. Init => Monitor!Init
  BY BoundAssumption DEF BoundAssumption, Init, Monitor!Init
<1>2. TypeOK /\ CountInv /\ CursorInv /\ LateInv /\ [Next]_vars => [Monitor!Next]_(Monitor!vars)
  <2> SUFFICES ASSUME TypeOK, CountInv, CursorInv, LateInv, [Next]_vars
               PROVE  Monitor!Next \/ UNCHANGED Monitor!vars
    OBVIOUS
  <2> USE DEF Goto, history, flags, screen, Ended
  <2>0. /\ loops \in Int /\ count \in (1 .. MaxCount) \cup {-1} /\ shown \in Nat /\ MaxCount \in Nat
        /\ exitFlag \in BOOLEAN /\ cursorFlag \in BOOLEAN /\ late \in {0, 1}
        /\ cursor \in {"visible", "hidden"}
    BY BoundAssumption DEF BoundAssumption, TypeOK, LateInv
  <2>1. CASE SignalInit \/ ChooseMode \/ MarkHidden
    <3>1. MonitorUnchanged
      BY <2>1 DEF SignalInit, ChooseMode, MarkHidden, MonitorUnchanged
    <3> QED BY <3>1, Stutter
  <2>2. CASE HideCursor
    BY <2>2 DEF HideCursor, Monitor!Next, Monitor!HideCursor
  <2>3. CASE Collect
    <3>1. MonitorUnchanged
      BY <2>3 DEF Collect, ReadCpu, ReadMeminfo, GrowProcs, ProcsFail, ProcsDone,
                  AfterFailure, MonitorUnchanged
    <3> QED BY <3>1, Stutter
  <2>4. CASE TestLoop \/ EnterSleep \/ DelayOver \/ Release \/ FreeLast
    <3>1. MonitorUnchanged
      BY <2>4 DEF TestLoop, EnterSleep, DelayOver, Release, FreeLast, MonitorUnchanged
    <3> QED BY <3>1, Stutter
  <2>5. CASE CopyPrev \/ CopyPrevFail \/ BuildItems \/ BuildItemsFail
    <3>1. MonitorUnchanged
      BY <2>5 DEF CopyPrev, CopyPrevFail, BuildItems, BuildItemsFail, MonitorUnchanged
    <3> QED BY <3>1, Stutter
  <2>6. CASE Show
    <3>1. /\ pc = "show" /\ pc' = "release" /\ late = 0
          /\ shown' = (IF count > 0 THEN shown + 1 ELSE shown)
          /\ late' = (IF exitFlag THEN 1 ELSE 0)
          /\ UNCHANGED <<exitFlag, cursor, count>>
      BY <2>0, <2>6 DEF Show, LateInv, BeforeDisplay
    <3>2. count > 0 => count - shown > 0
      BY <2>0, <3>1 DEF CountInv, InIteration
    <3> QED BY <2>0, <3>1, <3>2 DEF Monitor!Next, Monitor!Display
  <2>7. CASE MainRestore
    <3>1. pc = "restore" /\ pc' = "exit" /\ UNCHANGED <<exitFlag, count, shown, late>>
      BY <2>7 DEF MainRestore
    <3>2. cursor' = cursor \/ cursor' = "visible"
      BY <2>7 DEF MainRestore, RestoreCursor
    <3> QED BY <3>1, <3>2 DEF Monitor!Next, Monitor!ShowCursor, Monitor!vars
  <2>8. CASE AtExit
    <3>1. pc = "exit" /\ pc' = "exited" /\ UNCHANGED <<exitFlag, count, shown, late>>
      BY <2>8 DEF AtExit
    <3>2. cursor' = "visible"
      BY <2>0, <2>8 DEF AtExit, RestoreCursor, CursorInv
    <3> QED BY <3>1, <3>2 DEF Monitor!Next, Monitor!End
  <2>9. ASSUME NEW s \in Signals, Signal(s) PROVE Monitor!Next \/ UNCHANGED Monitor!vars
    <3>1. UNCHANGED <<count, shown, late, cursor>> /\ pc \notin Ended
      BY <2>9, SignalStep
    <3>2. CASE pc' = "killed" /\ exitFlag' = exitFlag
      BY <3>1, <3>2 DEF Monitor!Next, Monitor!Kill
    <3>3. CASE pc' \notin Ended /\ exitFlag' = exitFlag
      BY <3>1, <3>3, Stutter DEF MonitorUnchanged
    <3>4. CASE pc' \notin Ended /\ exitFlag' = TRUE
      BY <3>1, <3>4 DEF Monitor!Next, Monitor!ExitRequest
    <3> QED BY <2>9, <3>2, <3>3, <3>4, SignalStep
  <2>10. CASE Gone \/ UNCHANGED vars
    <3>1. UNCHANGED <<pc, count, shown, exitFlag, late, cursor>>
      BY <2>10 DEF Gone, vars
    <3> QED BY <3>1 DEF Monitor!vars
  <2> QED
    BY <2>1, <2>2, <2>3, <2>4, <2>5, <2>6, <2>7, <2>8, <2>9, <2>10 DEF Next, Main
<1> QED BY <1>1, <1>2, TypeCorrect, CountInvariant, CursorInvariant, LateInvariant, PTL
        DEF Spec, ImplementsMonitor, Monitor!Spec
=============================================================================
