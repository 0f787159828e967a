-------------------------- MODULE Bootstrap_proofs --------------------------
(***************************************************************************)
(* Proofs about Bootstrap, for any number of parts, versions and runs, of  *)
(* the bootstrap and of the scripts by hand, and about Benchmarks, for any *)
(* number of samples.                                                      *)
(***************************************************************************)
EXTENDS Benchmarks, TLAPS

\* The command that follows each command.
LEMMA AfterFacts ==
    /\ After["apply"] = "sync" /\ After["sync"] = "make" /\ After["make"] = "smoke"
    /\ After["smoke"] = "verify" /\ After["verify"] = "copy" /\ After["copy"] = "copying"
    /\ After["copying"] = "link" /\ After["link"] = "try" /\ After["try"] = "activate"
    /\ After["activate"] = "done" /\ After["done"] = "idle"
BY DEF After

LEMMA CommandSet ==
    Commands = {"apply", "sync", "make", "smoke", "verify", "copy", "copying", "link", "try", "activate", "done"}
BY DEF Commands, After

LEMMA ScriptSet ==
    /\ ByHand = {"apply", "build", "verify", "install"}
    /\ Scripts = {"apply", "build", "verify", "install", "bootstrap"}
BY DEF ByHand, Scripts, Position

LEMMA PositionFacts ==
    /\ Position["apply"] = 1 /\ Position["build"] = 2
    /\ Position["verify"] = 3 /\ Position["install"] = 4
BY DEF Position

\* Where each script begins and ends.
LEMMA FirstLast ==
    /\ First["bootstrap"] = "apply" /\ First["apply"] = "apply" /\ First["build"] = "make"
    /\ First["verify"] = "verify" /\ First["install"] = "copy"
    /\ Last["bootstrap"] = "done" /\ Last["apply"] = "apply" /\ Last["build"] = "smoke"
    /\ Last["verify"] = "verify" /\ Last["install"] = "activate"
BY DEF First, Last

\* None and Torn are no builds.
LEMMA NoBuild ==
    /\ None \notin Builds /\ Torn \notin Builds
    /\ \A v \in 0 .. MaxVersion : Whole(v) \in Builds
BY PartsAssumption, VersionAssumption DEF PartsAssumption, VersionAssumption, None, Torn, Builds, Whole

\* Which commands belong to which script.
Commanded ==
    /\ script = "none" <=> pc = "idle"
    /\ script = "apply" => pc = "apply"
    /\ script = "build" => pc \in {"make", "smoke"}
    /\ script = "verify" => pc = "verify"
    /\ script = "install" => pc \in {"copy", "copying", "link", "try", "activate"}
    /\ script = "bootstrap" => flow = 0

OfOneVersion(build) == \E v \in 1 .. repo : build = Whole(v)

\* The bootstrap goes from one command to the next only with the current
\* version, applied, built, verified and installed.
Bootstrapped ==
    script = "bootstrap" =>
        /\ pc \in {"sync", "make"} => tree = Whole(repo)
        /\ pc \in {"smoke", "verify", "copy", "copying", "link", "try", "activate", "done"} => binary = Whole(repo)
        /\ pc \in {"copy", "copying", "link", "try", "activate", "done"} => verified
        /\ pc \in {"link", "try", "activate", "done"} => installed = binary
        /\ pc \in {"try", "activate", "done"} => links = Applets
        /\ pc = "done" /\ activate => lines = 1

\* So does the manual flow, as far as its commands have ended without an error.
\* While the build script runs again, what was verified before is gone.
Flowing ==
    /\ flow >= 1 => OfOneVersion(tree)
    /\ flow >= 2 => OfOneVersion(binary)
    /\ flow >= 3 /\ script # "build" => verified
    /\ script = "build" /\ pc = "smoke" /\ flow >= 1 => OfOneVersion(binary)

Careful == OnlyVerified /\ OneVersion

RunType ==
    /\ pc \in Commands \cup {"idle"} /\ script \in Scripts \cup {"none"}
    /\ activate \in BOOLEAN /\ flow \in 0 .. 4

StateType ==
    /\ repo \in 1 .. MaxVersion
    /\ tree \in Builds
    /\ binary \in Builds \cup {None} /\ verified \in BOOLEAN
    /\ installed \in Builds \cup {None, Torn}
    /\ links \subseteq Applets /\ lines \in {0, 1}
    /\ origin \in [careful : BOOLEAN, verified : BOOLEAN]

\* A command that fails ends the script, and with it all that has been reached.
LEMMA Failure ==
    ASSUME Fails
    PROVE  RunType' /\ Commanded' /\ Bootstrapped' /\ Flowing'
<1>1. pc' = "idle" /\ script' = "none" /\ activate' = FALSE /\ flow' = 0
  BY DEF Fails, Ends
<1>2. RunType' /\ Commanded'
  <2>1. FALSE \in BOOLEAN /\ 0 \in 0 .. 4
    OBVIOUS
  <2>3. RunType'
    BY <1>1, <2>1, Zenon DEF RunType
  <2>2. Commanded'
    BY <1>1 DEF Commanded
  <2> QED BY <2>2, <2>3
<1>3. Bootstrapped' /\ Flowing'
  BY <1>1 DEF Bootstrapped, Flowing
<1> QED BY <1>2, <1>3

\* One that succeeds goes on, or ends the script if it was the last: then the
\* manual flow has got as far as this script, if it was its turn.
Goes ==
    /\ pc # Last[script] /\ pc' = After[pc]
    /\ script' = script /\ activate' = activate /\ flow' = flow
Finishes ==
    /\ pc = Last[script] /\ pc' = "idle" /\ script' = "none" /\ activate' = FALSE
    /\ flow' \in 0 .. 4
    /\ script = "bootstrap" => flow' = 0
    /\ script = "apply" => flow' <= 1
    /\ script = "build" => flow' = 0 \/ (flow' = 2 /\ flow >= 1)
    /\ script = "verify" => flow' = 0 \/ (flow' = 3 /\ flow >= 2)
    /\ script = "install" => flow' = 0 \/ (flow' = 4 /\ flow >= 3)

LEMMA Success ==
    ASSUME RunType, Commanded, pc # "idle", Proceed
    PROVE  /\ Goes \/ Finishes
           /\ script \in {"apply", "build", "verify", "install", "bootstrap"}
           /\ RunType' /\ Commanded'
<1>1. script \in {"apply", "build", "verify", "install", "bootstrap"}
  BY ScriptSet DEF RunType, Commanded
<1>2. /\ Reached \in 0 .. 4
      /\ script = "bootstrap" => Reached = 0
      /\ script = "apply" => Reached <= 1
      /\ script = "build" => Reached = 0 \/ (Reached = 2 /\ flow >= 1)
      /\ script = "verify" => Reached = 0 \/ (Reached = 3 /\ flow >= 2)
      /\ script = "install" => Reached = 0 \/ (Reached = 4 /\ flow >= 3)
  <2>1. flow \in Nat
    BY DEF RunType
  <2>2. script = "bootstrap" => Reached = 0
    BY ScriptSet DEF Reached
  <2>3. script = "apply" => Reached = 1
    BY <2>1, ScriptSet, PositionFacts DEF Reached
  <2>4. script = "build" => Reached = 0 \/ (Reached = 2 /\ flow >= 1)
    BY <2>1, ScriptSet, PositionFacts DEF Reached
  <2>5. script = "verify" => Reached = 0 \/ (Reached = 3 /\ flow >= 2)
    BY <2>1, ScriptSet, PositionFacts DEF Reached
  <2>6. script = "install" => Reached = 0 \/ (Reached = 4 /\ flow >= 3)
    BY <2>1, ScriptSet, PositionFacts DEF Reached
  <2> QED BY <1>1, <2>2, <2>3, <2>4, <2>5, <2>6
<1>3. CASE pc # Last[script]
  <2>1. Goes
    BY <1>3 DEF Proceed, Goes
  <2>2. pc' \in Commands /\ script' = script
    BY <1>1, <1>3, <2>1, AfterFacts, CommandSet, FirstLast DEF Goes, RunType, Commanded
  <2>3. RunType'
    BY <2>1, <2>2 DEF Goes, RunType
  <2>4. Commanded'
    BY <1>1, <1>3, <2>1, AfterFacts, CommandSet, FirstLast DEF Goes, RunType, Commanded
  <2> QED BY <1>1, <2>1, <2>3, <2>4
<1>4. CASE pc = Last[script]
  <2>1. Ends(Reached)
    BY <1>4 DEF Proceed
  <2>2. Finishes
    BY <1>2, <1>4, <2>1 DEF Finishes, Ends
  <2>3. RunType' /\ Commanded'
    BY <2>2 DEF Finishes, RunType, Commanded
  <2> QED BY <1>1, <2>2, <2>3
<1> QED BY <1>3, <1>4

BootInv == RunType /\ StateType /\ Commanded /\ Bootstrapped /\ Flowing /\ Careful

LEMMA BootInvariant == Spec => []BootInv
<1>1. Init => BootInv
  <2> SUFFICES ASSUME Init PROVE BootInv
    OBVIOUS
  <2>1. StateType
    <3>1. 1 \in 1 .. MaxVersion /\ 0 \in 0 .. MaxVersion
      BY VersionAssumption DEF VersionAssumption
    <3>2. tree \in Builds /\ binary \in Builds \cup {None} /\ installed \in Builds \cup {None, Torn}
      BY <3>1, NoBuild DEF Init
    <3>3. origin \in [careful : BOOLEAN, verified : BOOLEAN]
      BY DEF Init
    <3>4. repo \in 1 .. MaxVersion /\ verified \in BOOLEAN /\ links \subseteq Applets /\ lines \in {0, 1}
      BY <3>1 DEF Init
    <3> QED BY <3>2, <3>3, <3>4 DEF StateType
  <2>2. RunType /\ Commanded /\ Bootstrapped
    <3>0. FALSE \in BOOLEAN /\ 0 \in 0 .. 4
      OBVIOUS
    <3>1. RunType
      BY <3>0, Zenon DEF Init, RunType
    <3>2. Commanded
      BY DEF Init, Commanded
    <3>3. Bootstrapped
      BY DEF Init, Bootstrapped
    <3> QED BY <3>1, <3>2, <3>3
  <2>3. Flowing
    BY DEF Init, Flowing
  <2>4. Careful
    BY DEF Init, Careful, OnlyVerified, OneVersion
  <2> QED BY <2>1, <2>2, <2>3, <2>4 DEF BootInv
<1>2. BootInv /\ [Next]_vars => BootInv'
  <2> SUFFICES ASSUME BootInv, [Next]_vars PROVE BootInv'
    OBVIOUS
  <2>0. RunType /\ StateType /\ Commanded /\ Bootstrapped /\ Flowing /\ Careful
    BY DEF BootInv
  <2>a. repo \in Nat /\ repo \in 1 .. MaxVersion /\ MaxVersion \in Nat
    BY <2>0, VersionAssumption DEF VersionAssumption, StateType
  \* What does not touch the installation keeps what is known of it.
  <2>b. ASSUME UNCHANGED <<repo, installed, origin>> PROVE Careful'
    BY <2>0, <2>b DEF Careful, OnlyVerified, OneVersion
  <2>c. ASSUME UNCHANGED <<repo, tree, binary, verified, prefix>> PROVE StateType' /\ Careful'
    BY <2>0, <2>c DEF StateType, prefix, Careful, OnlyVerified, OneVersion
  <2>1. CASE Start
    <3>1. /\ script' = "bootstrap" /\ pc' = "apply" /\ activate' \in BOOLEAN /\ flow' = 0
          /\ UNCHANGED <<repo, tree, binary, verified, prefix>>
      BY <2>1, FirstLast DEF Start
    <3>2. RunType' /\ Commanded'
      BY <3>1, ScriptSet, CommandSet DEF RunType, Commanded
    <3>3. Bootstrapped' /\ Flowing'
      BY <3>1 DEF Bootstrapped, Flowing
    <3> QED BY <2>c, <3>1, <3>2, <3>3 DEF BootInv
  <2>2. CASE StartByHand
    <3>1. /\ script' \in ByHand /\ pc' = First[script'] /\ activate' \in BOOLEAN
          /\ flow' = flow /\ script = "none"
          /\ UNCHANGED <<repo, tree, binary, verified, prefix>>
      BY <2>0, <2>2 DEF StartByHand, Commanded
    <3>2. RunType' /\ Commanded'
      BY <2>0, <3>1, ScriptSet, CommandSet, FirstLast DEF RunType, Commanded
    <3>3. Bootstrapped'
      BY <3>1, ScriptSet DEF Bootstrapped
    <3>4. Flowing'
      BY <2>0, <3>1, ScriptSet, FirstLast DEF Flowing, OfOneVersion
    <3> QED BY <2>c, <3>1, <3>2, <3>3, <3>4 DEF BootInv
  <2>3. CASE Stops
    BY <2>3, <2>c, Failure DEF Stops, BootInv
  <2>4. CASE NewVersion
    <3>1. /\ repo' = repo + 1 /\ repo < MaxVersion /\ script = "none"
          /\ UNCHANGED <<run, tree, binary, verified, prefix>>
      BY <2>0, <2>4 DEF NewVersion, Commanded
    <3>2. \A v : v \in 1 .. repo => v \in 1 .. repo'
      BY <2>a, <3>1
    <3>3. RunType' /\ Commanded' /\ Bootstrapped'
      BY <2>0, <3>1 DEF RunType, Commanded, Bootstrapped, run
    <3>4. StateType'
      BY <2>0, <2>a, <3>1 DEF StateType, prefix
    <3>5. Flowing'
      BY <2>0, <3>1, <3>2 DEF Flowing, OfOneVersion, run
    <3>6. Careful'
      BY <2>0, <3>1, <3>2 DEF Careful, OnlyVerified, OneVersion, prefix
    <3> QED BY <3>3, <3>4, <3>5, <3>6 DEF BootInv
  <2>5. CASE Uninstall
    <3>1. /\ script = "none" /\ installed' = None /\ links' = {}
          /\ UNCHANGED <<run, repo, tree, binary, verified, lines, origin>>
      BY <2>0, <2>5 DEF Uninstall, Commanded
    <3>2. RunType' /\ Commanded' /\ Bootstrapped' /\ StateType'
      BY <2>0, <3>1 DEF RunType, Commanded, Bootstrapped, StateType, run
    <3>3. Flowing'
      BY <2>0, <3>1 DEF Flowing, OfOneVersion, run
    <3>4. Careful'
      BY <3>1 DEF Careful, OnlyVerified, OneVersion
    <3> QED BY <3>2, <3>3, <3>4 DEF BootInv
  <2>6. CASE ApplyOverlay
    <3>1. PICK copied \in SUBSET Parts :
            /\ tree' = [p \in Parts |-> IF p \in copied THEN repo ELSE tree[p]]
            /\ IF copied = Parts THEN Proceed ELSE Fails
      BY <2>6 DEF ApplyOverlay
    <3>2. pc = "apply" /\ UNCHANGED <<repo, binary, verified, prefix>>
      BY <2>6 DEF ApplyOverlay
    <3>3. tree' \in Builds
      <4>1. tree \in [Parts -> 0 .. MaxVersion] /\ repo \in 0 .. MaxVersion
        BY <2>0, <2>a DEF StateType, Builds
      <4> QED BY <3>1, <4>1 DEF Builds
    <3>4. StateType' /\ Careful'
      BY <2>0, <2>b, <3>2, <3>3 DEF StateType, prefix
    <3>5. CASE copied = Parts
      <4>1. tree' = Whole(repo) /\ Proceed
        BY <3>1, <3>5 DEF Whole
      <4>2. (Goes \/ Finishes) /\ RunType' /\ Commanded' /\ script \in {"apply", "bootstrap"}
        BY <2>0, <3>2, <4>1, Success DEF Commanded
      <4>3. \/ script = "bootstrap" /\ pc' = "sync" /\ script' = "bootstrap" /\ flow' = 0
            \/ script' = "none" /\ flow' \in {0, 1}
        BY <2>0, <3>2, <4>2, FirstLast, AfterFacts DEF Goes, Finishes, Commanded
      <4>4. OfOneVersion(tree)'
        BY <2>a, <3>2, <4>1 DEF OfOneVersion, Whole
      <4>5. Flowing'
        BY <4>3, <4>4 DEF Flowing
      <4>6. tree' = Whole(repo)'
        BY <3>2, <4>1 DEF Whole
      <4>7. Bootstrapped'
        BY <4>3, <4>6 DEF Bootstrapped
      <4> QED BY <3>4, <4>2, <4>5, <4>7 DEF BootInv
    <3>6. CASE copied # Parts
      BY <3>1, <3>4, <3>6, Failure DEF BootInv
    <3> QED BY <3>5, <3>6
  <2>7. CASE SyncScripts \/ Smoke \/ Try \/ Done
    <3>1. /\ Proceed /\ pc \in {"sync", "smoke", "try", "done"}
          /\ UNCHANGED <<repo, tree, binary, verified, prefix>>
      BY <2>7 DEF SyncScripts, Smoke, Try, Done
    <3>2. (Goes \/ Finishes) /\ RunType' /\ Commanded'
      BY <2>0, <3>1, Success
    <3>3. script \in {"build", "install", "bootstrap"}
      BY <2>0, <3>1, Success DEF Commanded
    <3>4. CASE Goes
      <4>1. Bootstrapped'
        BY <2>0, <3>1, <3>4, AfterFacts, FirstLast DEF Bootstrapped, Goes, prefix, Whole
      <4>3. script' # "build"
        BY <2>0, <3>1, <3>3, <3>4, FirstLast DEF Goes, Commanded
      <4>4. Flowing'
        BY <2>0, <3>1, <3>4, <4>3 DEF Flowing, OfOneVersion, Goes
      <4> QED BY <2>c, <3>1, <3>2, <4>1, <4>4 DEF BootInv
    <3>5. CASE Finishes
      <4>1. Bootstrapped'
        BY <3>5 DEF Bootstrapped, Finishes
      <4>2. (script = "build" /\ pc = "smoke") \/ script = "bootstrap"
        BY <2>0, <3>1, <3>3, <3>5, FirstLast DEF Finishes, Commanded
      <4>3. flow' = 0 \/ (flow' = 2 /\ flow >= 1 /\ script = "build" /\ pc = "smoke")
        BY <3>5, <4>2 DEF Finishes
      <4>4. Flowing'
        BY <2>0, <3>1, <3>5, <4>3 DEF Flowing, OfOneVersion, Finishes
      <4> QED BY <2>c, <3>1, <3>2, <4>1, <4>4 DEF BootInv
    <3> QED BY <3>2, <3>4, <3>5
  <2>8. CASE Make
    <3>1. Proceed /\ pc = "make" /\ binary' = tree /\ verified' = FALSE /\ UNCHANGED <<repo, tree, prefix>>
      BY <2>8 DEF Make
    <3>2. (Goes \/ Finishes) /\ RunType' /\ Commanded' /\ script \in {"build", "bootstrap"}
      BY <2>0, <3>1, Success DEF Commanded
    <3>3. pc' = "smoke" /\ script' = script /\ activate' = activate /\ flow' = flow
      BY <3>1, <3>2, FirstLast, AfterFacts DEF Goes, Finishes
    <3>4. StateType' /\ Careful'
      BY <2>0, <2>b, <3>1 DEF StateType, prefix
    <3>5. Bootstrapped'
      BY <2>0, <3>1, <3>3 DEF Bootstrapped, Whole
    <3>6. script = "bootstrap" => flow = 0
      BY <2>0 DEF Commanded
    <3>7. flow \in Nat /\ (flow >= 1 => OfOneVersion(tree)) /\ (flow >= 1 => OfOneVersion(binary)')
      BY <2>0, <3>1 DEF Flowing, OfOneVersion, RunType
    <3>8. Flowing'
      BY <3>1, <3>2, <3>3, <3>6, <3>7 DEF Flowing, OfOneVersion
    <3> QED BY <3>2, <3>4, <3>5, <3>8 DEF BootInv
  <2>9. CASE Verify
    <3>1. Proceed /\ pc = "verify" /\ verified' = TRUE /\ UNCHANGED <<repo, tree, binary, prefix>>
      BY <2>9 DEF Verify
    <3>2. (Goes \/ Finishes) /\ RunType' /\ Commanded' /\ script \in {"verify", "bootstrap"}
      BY <2>0, <3>1, Success DEF Commanded
    <3>3. \/ script = "bootstrap" /\ pc' = "copy" /\ script' = "bootstrap" /\ flow' = 0
          \/ script' = "none" /\ (flow' = 0 \/ (flow' = 3 /\ flow >= 2))
      BY <2>0, <3>1, <3>2, FirstLast, AfterFacts DEF Goes, Finishes, Commanded
    <3>4. StateType' /\ Careful'
      BY <2>0, <2>b, <3>1 DEF StateType, prefix
    <3>5. Bootstrapped'
      BY <2>0, <3>1, <3>3 DEF Bootstrapped, Whole
    <3>6. Flowing'
      BY <2>0, <3>1, <3>3 DEF Flowing, OfOneVersion, RunType
    <3> QED BY <3>2, <3>4, <3>5, <3>6 DEF BootInv
  <2>10. CASE CopyBegins
    <3>1. /\ Proceed /\ pc = "copy" /\ installed' = Torn
          /\ UNCHANGED <<repo, tree, binary, verified, links, lines, origin>>
      BY <2>10 DEF CopyBegins
    <3>2. (Goes \/ Finishes) /\ RunType' /\ Commanded' /\ script \in {"install", "bootstrap"}
      BY <2>0, <3>1, Success DEF Commanded
    <3>3. pc' = "copying" /\ script' = script /\ activate' = activate /\ flow' = flow
      BY <3>1, <3>2, FirstLast, AfterFacts DEF Goes, Finishes
    <3>4. StateType'
      BY <2>0, <3>1 DEF StateType
    <3>5. Careful'
      BY <3>1 DEF Careful, OnlyVerified, OneVersion
    <3>6. Bootstrapped'
      BY <2>0, <3>1, <3>3 DEF Bootstrapped, Whole
    <3>7. Flowing'
      BY <2>0, <3>1, <3>2, <3>3 DEF Flowing, OfOneVersion
    <3> QED BY <3>2, <3>4, <3>5, <3>6, <3>7 DEF BootInv
  <2>11. CASE CopyEnds
    <3>1. /\ Proceed /\ pc = "copying" /\ installed' = binary
          /\ origin' = [careful |-> script = "bootstrap" \/ flow >= Position["verify"], verified |-> verified]
          /\ UNCHANGED <<repo, tree, binary, verified, links, lines>>
      BY <2>11 DEF CopyEnds
    <3>2. (Goes \/ Finishes) /\ RunType' /\ Commanded' /\ script \in {"install", "bootstrap"}
      BY <2>0, <3>1, Success DEF Commanded
    <3>3. pc' = "link" /\ script' = script /\ activate' = activate /\ flow' = flow
      BY <3>1, <3>2, FirstLast, AfterFacts DEF Goes, Finishes
    <3>4. /\ origin'.verified = verified
          /\ origin'.careful <=> (script = "bootstrap" \/ flow >= 3)
      BY <3>1, PositionFacts
    <3>5. origin' \in [careful : BOOLEAN, verified : BOOLEAN]
      <4>1. verified \in BOOLEAN /\ (script = "bootstrap" \/ flow >= Position["verify"]) \in BOOLEAN
        BY <2>0 DEF StateType
      <4> QED BY <3>1, <4>1
    <3>6. StateType'
      BY <2>0, <3>1, <3>5 DEF StateType
    <3>7. script = "bootstrap" \/ flow >= 3 => verified /\ OfOneVersion(binary)
      <4>1. CASE script = "bootstrap"
        BY <2>0, <2>a, <3>1, <4>1 DEF Bootstrapped, OfOneVersion
      <4>2. CASE flow >= 3
        BY <2>0, <3>2, <4>2 DEF Flowing, RunType
      <4> QED BY <4>1, <4>2
    <3>8. Careful'
      BY <3>1, <3>4, <3>7 DEF Careful, OnlyVerified, OneVersion, OfOneVersion
    <3>9. Bootstrapped'
      BY <2>0, <3>1, <3>3 DEF Bootstrapped, Whole
    <3>10. Flowing'
      BY <2>0, <3>1, <3>2, <3>3 DEF Flowing, OfOneVersion
    <3> QED BY <3>2, <3>6, <3>8, <3>9, <3>10 DEF BootInv
  <2>12. CASE LinkApplets
    <3>1. PICK made \in {{}, {"diagfs"}, {"diagfs", "diagnet"}, Applets} :
            links' = links \cup made /\ IF made = Applets THEN Proceed ELSE Fails
      BY <2>12 DEF LinkApplets
    <3>2. pc = "link" /\ UNCHANGED <<repo, tree, binary, verified, installed, lines, origin>>
      BY <2>12 DEF LinkApplets
    <3>3. links \subseteq Applets /\ made \subseteq Applets
      BY <2>0 DEF Applets, StateType
    <3>4. links' \subseteq Applets /\ (made = Applets => links' = Applets)
      BY <3>1, <3>3
    <3>5. StateType' /\ Careful'
      BY <2>0, <2>b, <3>2, <3>4 DEF StateType
    <3>6. CASE made = Applets
      <4>1. Proceed /\ links' = Applets
        BY <3>1, <3>4, <3>6
      <4>2. (Goes \/ Finishes) /\ RunType' /\ Commanded' /\ script \in {"install", "bootstrap"}
        BY <2>0, <3>2, <4>1, Success DEF Commanded
      <4>3. pc' = "try" /\ script' = script /\ activate' = activate /\ flow' = flow
        BY <3>2, <4>2, FirstLast, AfterFacts DEF Goes, Finishes
      <4>4. Bootstrapped'
        BY <2>0, <3>2, <4>1, <4>3 DEF Bootstrapped, Whole
      <4>5. Flowing'
        BY <2>0, <3>2, <4>2, <4>3 DEF Flowing, OfOneVersion
      <4> QED BY <3>5, <4>2, <4>4, <4>5 DEF BootInv
    <3>7. CASE made # Applets
      BY <3>1, <3>5, <3>7, Failure DEF BootInv
    <3> QED BY <3>6, <3>7
  <2>13. CASE Activate
    <3>1. /\ Proceed /\ pc = "activate" /\ lines' = IF activate /\ lines = 0 THEN 1 ELSE lines
          /\ UNCHANGED <<repo, tree, binary, verified, installed, links, origin>>
      BY <2>13 DEF Activate
    <3>2. (Goes \/ Finishes) /\ RunType' /\ Commanded' /\ script \in {"install", "bootstrap"}
      BY <2>0, <3>1, Success DEF Commanded
    <3>3. lines' \in {0, 1} /\ (activate => lines' = 1)
      BY <2>0, <3>1 DEF StateType
    <3>4. StateType' /\ Careful'
      BY <2>0, <2>b, <3>1, <3>3 DEF StateType
    <3>5. \/ script = "bootstrap" /\ pc' = "done" /\ script' = "bootstrap" /\ activate' = activate /\ flow' = 0
          \/ script' = "none" /\ (flow' = 0 \/ (flow' = 4 /\ flow >= 3)) /\ script # "build"
      BY <2>0, <3>1, <3>2, FirstLast, AfterFacts DEF Goes, Finishes, Commanded
    <3>6. Bootstrapped'
      BY <2>0, <3>1, <3>3, <3>5 DEF Bootstrapped, Whole
    <3>7. Flowing'
      BY <2>0, <3>1, <3>5 DEF Flowing, OfOneVersion, RunType
    <3> QED BY <3>2, <3>4, <3>6, <3>7 DEF BootInv
  <2>14. CASE UNCHANGED vars
    BY <2>0, <2>14 DEF vars, run, prefix, BootInv, RunType, StateType, Commanded, Bootstrapped, Flowing,
                       OfOneVersion, Careful, OnlyVerified, OneVersion, Whole
  <2> QED
    BY <2>1, <2>2, <2>3, <2>4, <2>5, <2>6, <2>7, <2>8, <2>9, <2>10, <2>11, <2>12, <2>13, <2>14 DEF Next
<1> QED BY <1>1, <1>2, PTL DEF Spec

\* Every variable of Bootstrap has its type, for any number of versions.
THEOREM TypeCorrect == Spec => []TypeOK
<1>1. BootInv => TypeOK
  BY DEF BootInv, RunType, StateType, TypeOK
<1> QED BY <1>1, BootInvariant, PTL

\* What a careful copy has installed, by the bootstrap or by the manual flow
\* with each command started only after the success of the one before, has
\* passed verify_busybox_diag.sh, whichever runs failed before.
THEOREM NothingUnverified == Spec => []OnlyVerified
<1>1. BootInv => OnlyVerified
  BY DEF BootInv, Careful
<1> QED BY <1>1, BootInvariant, PTL

\* A careful copy never installs a binary built from a half-applied overlay.
THEOREM NoMixture == Spec => []OneVersion
<1>1. BootInv => OneVersion
  BY DEF BootInv, Careful
<1> QED BY <1>1, BootInvariant, PTL

\* A bootstrap that completes leaves the current version installed, linked
\* and, if asked, activated, from any state earlier runs have left.
THEOREM Repairs == Spec => []Converges
<1>1. BootInv => Converges
  <2> SUFFICES ASSUME BootInv, pc = "done" PROVE Converges
    BY DEF Converges
  <2>1. script = "bootstrap"
    BY ScriptSet DEF BootInv, RunType, Commanded
  <2> QED BY <2>1 DEF BootInv, Bootstrapped, Converges
<1> QED BY <1>1, BootInvariant, PTL

\* The scripts never write a second activation line.
THEOREM OneLine == Spec => []ActivatedOnce
<1>1. BootInv => ActivatedOnce
  BY DEF BootInv, StateType, ActivatedOnce
<1> QED BY <1>1, BootInvariant, PTL

-----------------------------------------------------------------------------
(***************************************************************************)
(* The benchmark drives the bootstrap: as far as the variables of the      *)
(* bootstrap go, its runs are runs of the bootstrap.                       *)
(***************************************************************************)

\* Every step but those of the bootstrap leaves the bootstrap alone.
LEMMA BenchStep == [BenchNext]_allVars => [Next]_vars
<1> SUFFICES ASSUME [BenchNext]_allVars PROVE [Next]_vars
  OBVIOUS
<1>1. CASE Alone
  BY <1>1 DEF Alone
<1>2. CASE BenchStart
  BY <1>2 DEF BenchStart, Next
<1>3. CASE Bootstraps
  BY <1>3 DEF Bootstraps
<1>4. CASE BenchStops \/ BinarySize \/ (\E a \in Applets : RunApplet(a)) \/ ManualSummary
  BY <1>4 DEF BenchStops, BinarySize, RunApplet, ManualSummary
<1>5. CASE NewCsv \/ Row \/ CaseDone \/ SkipDiagnet \/ Report \/ LatestBegins \/ LatestEnds
  BY <1>5 DEF NewCsv, Row, CaseDone, SkipDiagnet, Report, LatestBegins, LatestEnds
<1>6. CASE UNCHANGED allVars
  BY <1>6 DEF allVars
<1> QED BY <1>1, <1>2, <1>3, <1>4, <1>5, <1>6 DEF BenchNext

\* benchmark_all_required.sh puts the installation through nothing that the
\* bootstrap by itself could not do: what is proved of Bootstrap holds.
THEOREM BenchKeepsBootstrap == BenchSpec => Spec
<1>1. BenchInit => Init
  BY DEF BenchInit
<1> QED BY <1>1, BenchStep, PTL DEF BenchSpec, Spec

LEMMA BenchBootInvariant == BenchSpec => []BootInv
BY BenchKeepsBootstrap, BootInvariant, PTL

\* A run that bootstraps measures the build that its bootstrap has just made,
\* verified and installed.
THEOREM MeasuredIsCurrent == BenchSpec => []MeasuresCurrent
<1>1. BenchInit => MeasuresCurrent
  BY DEF BenchInit, MeasuresCurrent
<1>2. BootInv /\ MeasuresCurrent /\ [BenchNext]_allVars => MeasuresCurrent'
  <2> SUFFICES ASSUME BootInv, MeasuresCurrent, [BenchNext]_allVars PROVE MeasuresCurrent'
    OBVIOUS
  <2>1. CASE Alone \/ BenchStart
    BY <2>1 DEF Alone, BenchStart, MeasuresCurrent
  <2>2. CASE Bootstraps
    <3>1. CASE pc = "done"
      <4>1. UNCHANGED <<repo, binary, verified, prefix>>
        BY <2>2, <3>1, CommandSet
           DEF Bootstraps, Next, NewVersion, Uninstall, Start, StartByHand, Stops, ApplyOverlay,
               SyncScripts, Make, Smoke, Verify, CopyBegins, CopyEnds, LinkApplets, Try, Activate, Done
      <4>2. script = "bootstrap"
        BY <3>1, ScriptSet DEF BootInv, RunType, Commanded
      <4> QED BY <3>1, <4>1, <4>2 DEF BootInv, Bootstrapped, MeasuresCurrent, prefix
    <3>2. CASE pc # "done"
      BY <2>2, <3>2 DEF Bootstraps, Over, MeasuresCurrent
    <3> QED BY <3>1, <3>2
  <2>3. CASE BenchStops \/ BinarySize \/ (\E a \in Applets : RunApplet(a)) \/ ManualSummary
    BY <2>3 DEF BenchStops, BinarySize, RunApplet, ManualSummary, Over, MeasuresCurrent, vars, prefix
  <2>4. CASE NewCsv \/ Row \/ CaseDone \/ SkipDiagnet \/ Report \/ LatestBegins \/ LatestEnds
    BY <2>4 DEF NewCsv, Row, CaseDone, SkipDiagnet, Report, LatestBegins, LatestEnds, Over,
                MeasuresCurrent, vars, prefix, Applets
  <2>5. CASE UNCHANGED allVars
    BY <2>5 DEF allVars, bench, vars, prefix, MeasuresCurrent
  <2> QED BY <2>1, <2>2, <2>3, <2>4, <2>5 DEF BenchNext
<1> QED BY <1>1, <1>2, BenchBootInvariant, PTL DEF BenchSpec

-----------------------------------------------------------------------------
(* What the reports of the benchmark rest on.                              *)

SummaryInv ==
    /\ SummaryBacked
    /\ step = "verify" /\ ran = Applets => exercised
    /\ exercised \in BOOLEAN

\* manual_test_summary.txt is written of no build whose applets did not run.
THEOREM SummaryIsBacked == BenchSpec => []SummaryBacked
<1>1. BenchInit => SummaryInv
  BY DEF BenchInit, SummaryInv, SummaryBacked
<1>2. SummaryInv /\ [BenchNext]_allVars => SummaryInv'
  <2> SUFFICES ASSUME SummaryInv, [BenchNext]_allVars PROVE SummaryInv'
    OBVIOUS
  <2> USE DEF SummaryInv, SummaryBacked, delivery, files, bench
  <2>1. CASE Alone \/ BenchStart \/ Bootstraps
    BY <2>1 DEF Alone, BenchStart, Bootstraps, Over, Rebuilt
  <2>2. CASE BenchStops \/ BinarySize \/ ManualSummary
    BY <2>2 DEF BenchStops, BinarySize, ManualSummary, PassLines, Over, Applets
  <2>3. ASSUME NEW a \in Applets, RunApplet(a) PROVE SummaryInv'
    <3>1. /\ ran = AppletOrder[a] /\ ran' = ran \cup {a} /\ exercised' = (exercised \/ a = "ptop")
          /\ UNCHANGED summary
      BY <2>3 DEF RunApplet
    <3>2. exercised' \in BOOLEAN
      BY <3>1
    <3>3. a # "ptop" => ran' # Applets
      BY <3>1 DEF AppletOrder, Applets
    <3>4. a = "ptop" => exercised'
      BY <3>1
    <3> QED BY <3>1, <3>2, <3>3, <3>4
  <2>4. CASE NewCsv \/ Row \/ CaseDone \/ SkipDiagnet \/ Report \/ LatestBegins \/ LatestEnds
    BY <2>4 DEF NewCsv, Row, CaseDone, SkipDiagnet, Report, LatestBegins, LatestEnds, Over,
                AfterCase, Applets
  <2>5. CASE UNCHANGED allVars
    BY <2>5 DEF allVars
  <2> QED BY <2>1, <2>2, <2>3, <2>4, <2>5 DEF BenchNext
<1>3. SummaryInv => SummaryBacked
  BY DEF SummaryInv
<1> QED BY <1>1, <1>2, <1>3, PTL DEF BenchSpec

\* The cases that are behind a step have all their rows, two to a sample.
Reporting == {"report", "copy", "copying"}
SeriesInv ==
    /\ csv \in [Applets -> 0 .. 2 * Samples]
    /\ step \in {"diagfs", "diagnet"} \cup Reporting => csv["ptop"] = 2 * Samples
    /\ step \in {"diagnet"} \cup Reporting => csv["diagfs"] = 2 * Samples
    /\ step \in Reporting => csv["diagnet"] \in {0, 2 * Samples}
    /\ step \in {"copy", "copying"} => ratios = {c \in Applets : csv[c] >= 2}
    /\ LatestWhole

\* final_report_latest.md is never computed from part of a series.
THEOREM LatestIsWhole == BenchSpec => []LatestWhole
<1> USE SamplesAssumption DEF SamplesAssumption
<1>1. BenchInit => SeriesInv
  BY DEF BenchInit, SeriesInv, LatestWhole, NoRows, Reporting
<1>2. SeriesInv /\ [BenchNext]_allVars => SeriesInv'
  <2> SUFFICES ASSUME SeriesInv, [BenchNext]_allVars PROVE SeriesInv'
    OBVIOUS
  <2> USE DEF SeriesInv, delivery, files, bench, Reporting
  <2>1. NoRows \in [Applets -> 0 .. 2 * Samples]
    BY DEF NoRows
  <2>2. CASE UNCHANGED latest /\ UNCHANGED <<csv, ratios>> /\ step' \in {step, "bootstrap", "size", "verify", "csv"}
    BY <2>2 DEF LatestWhole
  <2>3. CASE UNCHANGED latest /\ Over
    BY <2>3, <2>1 DEF Over, LatestWhole
  <2>4. CASE Alone \/ BenchStart \/ Bootstraps
    BY <2>4, <2>2, <2>3 DEF Alone, BenchStart, Bootstraps
  <2>5. CASE BenchStops \/ BinarySize \/ (\E a \in Applets : RunApplet(a)) \/ ManualSummary
    BY <2>5, <2>2, <2>3 DEF BenchStops, BinarySize, RunApplet, ManualSummary
  <2>6. CASE NewCsv
    BY <2>6, <2>1 DEF NewCsv, LatestWhole
  <2>7. CASE Row
    <3>1. csv' \in [Applets -> 0 .. 2 * Samples]
      BY <2>7 DEF Row
    <3>2. \A c \in Applets : c # step => csv'[c] = csv[c]
      BY <2>7 DEF Row
    <3> QED BY <2>7, <3>1, <3>2 DEF Row, LatestWhole, Applets
  <2>8. CASE CaseDone \/ SkipDiagnet
    BY <2>8 DEF CaseDone, SkipDiagnet, AfterCase, Applets, LatestWhole
  <2>9. CASE Report \/ LatestBegins
    BY <2>9 DEF Report, LatestBegins, LatestWhole
  <2>10. CASE LatestEnds
    <3>1. ratios = {c \in Applets : csv[c] >= 2} /\ latest' = [c \in ratios |-> csv[c]]
      BY <2>10 DEF LatestEnds
    <3>2. \A c \in Applets : csv[c] \in {0, 2 * Samples}
      BY <2>10 DEF LatestEnds, Applets
    <3>3. LatestWhole'
      BY <3>1, <3>2, <2>10 DEF LatestEnds, LatestWhole, Applets
    <3> QED BY <3>3, <2>1, <2>10 DEF LatestEnds, Over
  <2>11. CASE UNCHANGED allVars
    BY <2>11, <2>2 DEF allVars
  <2> QED BY <2>4, <2>5, <2>6, <2>7, <2>8, <2>9, <2>10, <2>11 DEF BenchNext
<1>3. SeriesInv => LatestWhole
  BY DEF SeriesInv
<1> QED BY <1>1, <1>2, <1>3, PTL DEF BenchSpec
=============================================================================
