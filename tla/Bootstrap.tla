----------------------------- MODULE Bootstrap -----------------------------
(***************************************************************************)
(* The scripts that bring the overlay into a BusyBox tree and the applets  *)
(* into a prefix, run again and again: bootstrap_busybox_diag.sh, which    *)
(* calls the others, and each of the others by hand, in any order, as      *)
(* docs/USER_MANUAL.md:227-237, docs/local_install.md and CONTRIBUTING.md  *)
(* show them.                                                              *)
(*                                                                         *)
(* Every script has set -e, so a command that fails ends the script, and   *)
(* the bootstrap around it; so does a signal, at any point.  Nothing but   *)
(* the user stops the next script typed by hand.  Between two runs the     *)
(* repository moves on to a new version and the user may uninstall.        *)
(***************************************************************************)
EXTENDS Integers

CONSTANTS
    Parts,      \* what apply_overlay.sh copies one after the other
    MaxVersion  \* bound: versions of the overlay

ASSUME PartsAssumption == Parts # {}
ASSUME VersionAssumption == MaxVersion \in Nat \ {0}

VARIABLES
    pc,        \* the command that comes next, "idle" between two runs
    script,    \* the script that is running, "none" between two runs
    activate,  \* it was started with --activate
    repo,      \* the version of the overlay in the repository
    tree,      \* the version of each part in the BusyBox tree, 0 if none
    binary,    \* the versions ./busybox was built from, None before the first build
    installed, \* the same of the installed busybox; Torn while it is copied
    links,     \* the applets linked in the prefix
    lines,     \* activation lines in .bashrc
    verified,  \* history: verify_busybox_diag.sh has passed ./busybox as it is
    flow,      \* history: how many commands of the manual flow, in its order and
               \* nothing failing in between, have ended without an error
    origin     \* history: how the installed busybox came there

run == <<pc, script, activate, flow>>
prefix == <<installed, links, lines, origin>>
vars == <<run, repo, tree, binary, verified, prefix>>

Applets == {"diagfs", "diagnet", "ptop"}
Builds == [Parts -> 0 .. MaxVersion]
Whole(v) == [p \in Parts |-> v]

\* No binary, and half a binary: what no build is.
None == [p \in Parts |-> -1]
Torn == [p \in Parts |-> -2]

\* No applet answers if a part of the overlay is not in the build.
Answers(build) == \A p \in Parts : build[p] > 0

\* The manual's order of the scripts that are run by hand.
Position == [apply |-> 1, build |-> 2, verify |-> 3, install |-> 4]
ByHand == DOMAIN Position
Scripts == ByHand \cup {"bootstrap"}

\* The commands in their order, and those each script begins and ends with.
After == [apply |-> "sync", sync |-> "make", make |-> "smoke", smoke |-> "verify",
          verify |-> "copy", copy |-> "copying", copying |-> "link", link |-> "try",
          try |-> "activate", activate |-> "done", done |-> "idle"]
Commands == DOMAIN After
First == [bootstrap |-> "apply", apply |-> "apply", build |-> "make", verify |-> "verify", install |-> "copy"]
Last == [bootstrap |-> "done", apply |-> "apply", build |-> "smoke", verify |-> "verify", install |-> "activate"]

Init ==
    /\ pc = "idle" /\ script = "none" /\ activate = FALSE /\ flow = 0
    /\ repo = 1
    /\ tree = Whole(0)
    /\ binary = None /\ verified = FALSE
    /\ installed = None /\ links = {} /\ lines = 0
    /\ origin = [careful |-> TRUE, verified |-> TRUE]

-----------------------------------------------------------------------------
(* Beginning and end of a run.                                             *)

Ends(reached) == pc' = "idle" /\ script' = "none" /\ activate' = FALSE /\ flow' = reached
Fails == Ends(0)

Reached ==
    IF script \in ByHand THEN IF Position[script] <= flow + 1 THEN Position[script] ELSE 0 ELSE 0

Proceed ==
    IF pc = Last[script] THEN Ends(Reached)
    ELSE pc' = After[pc] /\ UNCHANGED <<script, activate, flow>>

Start ==
    /\ pc = "idle"
    /\ script' = "bootstrap" /\ pc' = First["bootstrap"] /\ activate' \in BOOLEAN
    /\ flow' = 0
    /\ UNCHANGED <<repo, tree, binary, verified, prefix>>

\* A script of the manual flow, whatever has failed or not been run before it.
StartByHand ==
    /\ pc = "idle"
    /\ script' \in ByHand /\ pc' = First[script']
    /\ activate' \in (IF script' = "install" THEN BOOLEAN ELSE {FALSE})
    /\ UNCHANGED <<flow, repo, tree, binary, verified, prefix>>

\* The next command fails, or the run is killed before it.
Stops_OnlyPhase ==                 \* mutant: the exit status of the verification is lost
    /\ pc \in Commands \ {"done"}
    /\ IF pc = "verify" THEN Proceed ELSE Fails
    /\ UNCHANGED <<repo, tree, binary, verified, prefix>>
Stops ==
    /\ pc \in Commands \ {"done"}
    /\ Fails
    /\ UNCHANGED <<repo, tree, binary, verified, prefix>>

NewVersion ==
    /\ pc = "idle" /\ repo < MaxVersion
    /\ repo' = repo + 1
    /\ UNCHANGED <<run, tree, binary, verified, prefix>>

\* rm -rf of the prefix; the line in .bashrc stays.
Uninstall ==
    /\ pc = "idle"
    /\ installed' = None /\ links' = {}
    /\ UNCHANGED <<run, repo, tree, binary, verified, lines, origin>>

-----------------------------------------------------------------------------
(* Overlay, helper scripts, build and verification.                        *)

\* cp of the sources and headers; stopped halfway it has copied some of them.
ApplyOverlay ==
    /\ pc = "apply"
    /\ \E copied \in SUBSET Parts :
          /\ tree' = [p \in Parts |-> IF p \in copied THEN repo ELSE tree[p]]
          /\ IF copied = Parts THEN Proceed ELSE Fails
    /\ UNCHANGED <<repo, binary, verified, prefix>>

SyncScripts ==
    /\ pc = "sync"
    /\ Proceed
    /\ UNCHANGED <<repo, tree, binary, verified, prefix>>

\* make defconfig, the options, make oldconfig and make: ./busybox is linked
\* from what is in the tree, or make fails (Stops) and leaves the old one.
Make_KeepsLib ==                   \* mutant: the library is only compiled once
    /\ pc = "make"
    /\ binary' = IF binary = None THEN tree ELSE [tree EXCEPT !["libdiag"] = binary["libdiag"]]
    /\ verified' = FALSE
    /\ Proceed
    /\ UNCHANGED <<repo, tree, prefix>>
Make ==
    /\ pc = "make"
    /\ binary' = tree
    /\ verified' = FALSE
    /\ Proceed
    /\ UNCHANGED <<repo, tree, prefix>>

Smoke ==
    /\ pc = "smoke" /\ Answers(binary)
    /\ Proceed
    /\ UNCHANGED <<repo, tree, binary, verified, prefix>>

\* verify_busybox_diag.sh as a whole; VerifyReport has its checks one by one.
Verify ==
    /\ pc = "verify" /\ Answers(binary)
    /\ verified' = TRUE
    /\ Proceed
    /\ UNCHANGED <<repo, tree, binary, prefix>>

-----------------------------------------------------------------------------
(* Installation.  Whether ./busybox is there and executable is all that is *)
(* looked at.  cp truncates the destination, then fills it.                *)

CopyBegins ==
    /\ pc = "copy" /\ binary # None
    /\ installed' = Torn
    /\ Proceed
    /\ UNCHANGED <<repo, tree, binary, verified, links, lines, origin>>

CopyEnds ==
    /\ pc = "copying"
    /\ installed' = binary
    /\ origin' = [careful |-> script = "bootstrap" \/ flow >= Position["verify"], verified |-> verified]
    /\ Proceed
    /\ UNCHANGED <<repo, tree, binary, verified, links, lines>>

\* ln -sf of diagfs, diagnet and ptop; any of them may be the last.
LinkApplets_First ==               \* mutant: only an empty prefix is linked
    /\ pc = "link"
    /\ \E made \in {{}, {"diagfs"}, {"diagfs", "diagnet"}, Applets} :
          /\ links' = IF links = {} THEN made ELSE links
          /\ IF made = Applets THEN Proceed ELSE Fails
    /\ UNCHANGED <<repo, tree, binary, verified, installed, lines, origin>>
LinkApplets ==
    /\ pc = "link"
    /\ \E made \in {{}, {"diagfs"}, {"diagfs", "diagnet"}, Applets} :
          /\ links' = links \cup made
          /\ IF made = Applets THEN Proceed ELSE Fails
    /\ UNCHANGED <<repo, tree, binary, verified, installed, lines, origin>>

\* --help through each of the links.
Try ==
    /\ pc = "try" /\ Answers(installed)
    /\ Proceed
    /\ UNCHANGED <<repo, tree, binary, verified, prefix>>

\* The line is appended unless grep -qxF finds it.
Activate ==
    /\ pc = "activate"
    /\ lines' = IF activate /\ lines = 0 THEN 1 ELSE lines
    /\ Proceed
    /\ UNCHANGED <<repo, tree, binary, verified, installed, links, origin>>

\* "Bootstrap completed successfully."
Done ==
    /\ pc = "done"
    /\ Proceed
    /\ UNCHANGED <<repo, tree, binary, verified, prefix>>

Next ==
    \/ Start \/ StartByHand \/ Stops \/ NewVersion \/ Uninstall
    \/ ApplyOverlay \/ SyncScripts \/ Make \/ Smoke \/ Verify
    \/ CopyBegins \/ CopyEnds \/ LinkApplets \/ Try \/ Activate \/ Done

Spec == Init /\ [][Next]_vars

-----------------------------------------------------------------------------
(* Properties.                                                             *)

\* Every variable has its type.
TypeOK ==
    /\ pc \in Commands \cup {"idle"} /\ script \in Scripts \cup {"none"}
    /\ activate \in BOOLEAN /\ flow \in 0 .. 4
    /\ repo \in 1 .. MaxVersion
    /\ tree \in Builds
    /\ binary \in Builds \cup {None} /\ verified \in BOOLEAN
    /\ installed \in Builds \cup {None, Torn}
    /\ links \subseteq Applets /\ lines \in Nat
    /\ origin \in [careful : BOOLEAN, verified : BOOLEAN]

\* A copy is careful if a bootstrap made it, or an install by hand that the
\* user started only after apply, build and verify had ended without an error,
\* one after the other.  What such a copy has left in the prefix has been
\* through the verification, whatever failed before it and whatever is in the
\* tree since.  An install by hand after a verification that failed, or that
\* was never run, is not careful: install_busybox_diag_local.sh:14 lets it.
OnlyVerified == installed \notin {None, Torn} /\ origin.careful => origin.verified

\* What a careful copy has installed is of one version, applets and library,
\* although an overlay stopped halfway leaves a mixed tree, from which the
\* build script run by hand builds, and the install script installs.
OneVersion ==
    installed \notin {None, Torn} /\ origin.careful => \E v \in 1 .. repo : installed = Whole(v)

\* A bootstrap that completes repairs whatever earlier runs left behind: the
\* current version is installed, every applet is linked, and PATH is activated
\* if asked.
Converges ==
    pc = "done" =>
        /\ installed = Whole(repo)
        /\ links = Applets
        /\ activate => lines = 1

\* However often the scripts are run, there is at most one activation line.
ActivatedOnce == lines <= 1
=============================================================================
