--------------------------- MODULE DiagfsAnalyze ---------------------------
(***************************************************************************)
(* The numbers of diagfs: libdiag (diag_fs.c) turns an answer of statfs    *)
(* into kilobytes and one of FIEMAP into an extent count, and              *)
(* diagfs_analyze.c into percentages and health levels by the policy of    *)
(* diagfs_policy.c.  All arithmetic is that of unsigned long, modulo Word. *)
(***************************************************************************)
EXTENDS Integers

CONSTANTS
    Word,        \* 2^w, w the width of unsigned long: 2^64, 2^32 on 32-bit targets
    KB,          \* 1024
    Samples,     \* the answers of statfs
    Extents,     \* the extent counts of files
    MaxExtents,  \* max_extents of diag_fs_read_fiemap: 128
    Warn, Critical,             \* 70 and 90, for space and for inodes
    ExtentWarn, ExtentCritical  \* 10 and 50

StatfsAnswers == [blocks : Nat, bfree : Nat, bsize : Nat \ {0}, files : Nat, ffree : Nat]

ASSUME AnalyzeAssumption ==
    /\ KB \in Nat /\ KB >= 100
    /\ Word \in Nat /\ Word > KB /\ Word % KB = 0
    /\ Samples \subseteq StatfsAnswers
    /\ Extents \subseteq Nat
    /\ MaxExtents \in Nat /\ ExtentWarn \in Nat /\ ExtentCritical \in Nat
    /\ ExtentWarn < ExtentCritical /\ ExtentCritical < MaxExtents
    /\ Warn \in 1 .. 100 /\ Critical \in 1 .. 100 /\ Warn < Critical

VARIABLES
    pc,       \* the step of diagfs_main
    st,       \* what statfs has answered
    extents,  \* the extents the file really has
    fs,       \* diag_fs_info_t, the sizes in kilobytes
    mapped,   \* diag_fiemap_info_t.extent_count
    layout,   \* diagfs_layout_analysis_t.level
    analysis  \* diagfs_analysis_t

vars == <<pc, st, extents, fs, mapped, layout, analysis>>

Health == {"ok", "warn", "critical", "unknown"}
Unset == [space |-> 0, inode |-> 0, spaceHealth |-> "unknown", inodeHealth |-> "unknown", layoutHealth |-> "unknown"]

Init ==
    /\ pc = "statfs"
    /\ st \in Samples
    /\ extents \in Extents
    /\ fs = [total |-> 0, free |-> 0, used |-> 0]
    /\ mapped = 0
    /\ layout = "unsupported"
    /\ analysis = Unset

-----------------------------------------------------------------------------
(* diag_fs_read and diag_fs_read_fiemap.                                   *)

ToKb(blocks, bsize) == ((blocks * bsize) % Word) \div KB

\* Free blocks beyond the total count as nothing used.
UsedKb_Unchecked(total, free) ==   \* mutant: the subtraction is not guarded
    (total - free) % Word
UsedKb(total, free) == IF total >= free THEN total - free ELSE 0

DiagFsRead ==
    /\ pc = "statfs"
    /\ LET total == ToKb(st.blocks, st.bsize)
           free == ToKb(st.bfree, st.bsize)
       IN  fs' = [total |-> total, free |-> free, used |-> UsedKb(total, free)]
    /\ pc' = "fiemap"
    /\ UNCHANGED <<st, extents, mapped, layout, analysis>>

\* The kernel fills in no more extents than there is room for.
Mapped_Few(n) ==                   \* mutant: room up to the critical count only
    IF n < ExtentCritical THEN n ELSE ExtentCritical
Mapped(n) == IF n < MaxExtents THEN n ELSE MaxExtents

\* FIEMAP is asked, or is not supported.
DiagFsReadFiemap ==
    /\ pc = "fiemap"
    /\ \/ mapped' = Mapped(extents) /\ layout' = "low"
       \/ UNCHANGED <<mapped, layout>>
    /\ pc' = "analyze"
    /\ UNCHANGED <<st, extents, fs, analysis>>

-----------------------------------------------------------------------------
(* diagfs_analyze.c.                                                       *)

UsedPercent_DivFirst(used, total) ==   \* mutant: divides before it multiplies
    IF total = 0 THEN 0 ELSE ((used \div total) * 100) % Word
UsedPercent(used, total) ==
    IF total = 0 THEN 0 ELSE ((used * 100) % Word) \div total

\* Rounded up, because running out of inodes is an error of its own.
InodePercent(files, ffree) ==
    IF files = 0 \/ files < ffree THEN 0
    ELSE (((files - ffree) * 100 + files - 1) % Word) \div files

Grade_Above(percent) ==            \* mutant: the limits themselves are still good
    IF percent > Critical THEN "critical" ELSE IF percent > Warn THEN "warn" ELSE "ok"
Grade(percent) ==
    IF percent >= Critical THEN "critical" ELSE IF percent >= Warn THEN "warn" ELSE "ok"

Level(n) ==
    IF n <= ExtentWarn THEN "low" ELSE IF n <= ExtentCritical THEN "medium" ELSE "high"

LayoutHealth(level) ==
    CASE level = "high" -> "warn"
      [] level = "unsupported" -> "unknown"
      [] OTHER -> "ok"

AnalyzeLayout ==
    /\ pc = "analyze"
    /\ layout' = IF layout = "unsupported" THEN layout ELSE Level(mapped)
    /\ pc' = "judge"
    /\ UNCHANGED <<st, extents, fs, mapped, analysis>>

AnalyzeFilesystem ==
    /\ pc = "judge"
    /\ LET space == UsedPercent(fs.used, fs.total)
           inode == InodePercent(st.files, st.ffree)
       IN  analysis' = [space |-> space, inode |-> inode, spaceHealth |-> Grade(space),
                        inodeHealth |-> Grade(inode), layoutHealth |-> LayoutHealth(layout)]
    /\ pc' = "done"
    /\ UNCHANGED <<st, extents, fs, mapped, layout>>

Done == pc = "done" /\ UNCHANGED vars

Next == DiagFsRead \/ DiagFsReadFiemap \/ AnalyzeLayout \/ AnalyzeFilesystem \/ Done

Spec == Init /\ [][Next]_vars

-----------------------------------------------------------------------------
(* Properties.                                                             *)

\* Every variable has its type; sizes and counts fit into a word.
TypeOK ==
    /\ pc \in {"statfs", "fiemap", "analyze", "judge", "done"}
    /\ st \in StatfsAnswers
    /\ extents \in Nat
    /\ fs \in [total : Nat, free : Nat, used : Nat]
    /\ fs.total < Word /\ fs.free < Word
    /\ mapped \in 0 .. MaxExtents
    /\ layout \in {"unsupported", "low", "medium", "high"}
    /\ analysis \in [space : Nat, inode : Nat, spaceHealth : Health, inodeHealth : Health, layoutHealth : Health]

\* Whatever statfs answers, sizes that overflow a word and free counts above
\* the total included, no more is used than there is, and the percentage of
\* diagfs_analyze.c stays one: the product with 100 cannot overflow, because
\* the total has been divided by 1024 before.
SpaceInRange ==
    /\ fs.used <= fs.total
    /\ fs.used * 100 < Word
    /\ analysis.space <= 100

\* The largest and the smallest percentage that bound a share of total.
Floor(part, total) == CHOOSE p \in 0 .. 100 : p * total <= 100 * part /\ 100 * part < (p + 1) * total
Ceiling(part, total) == CHOOSE p \in 0 .. 100 : 100 * part <= p * total /\ (p - 1) * total < 100 * part

\* When nothing overflows the percentages are those of the true shares: space
\* rounded down, in whole kilobytes, and inodes rounded up.
PercentsExact ==
    pc = "done" =>
        /\ st.blocks * st.bsize < Word /\ st.bfree <= st.blocks /\ fs.total > 0 =>
              analysis.space = Floor((st.blocks * st.bsize) \div KB - (st.bfree * st.bsize) \div KB,
                                     (st.blocks * st.bsize) \div KB)
        /\ st.files * 101 <= Word /\ st.ffree <= st.files /\ st.files > 0 =>
              analysis.inode = Ceiling(st.files - st.ffree, st.files)

\* Blocks of whole kilobytes are converted without loss; of others the two
\* divisions by 1024 may lose up to one kilobyte of what is used.
Lost == IF st.bsize % KB = 0 THEN 0 ELSE KB

\* The true shares, in bytes and in inodes, of what statfs has answered.
SpaceReached(limit) ==
    100 * ((st.blocks - st.bfree) * st.bsize - Lost) >= limit * (st.blocks * st.bsize)
InodesReached(limit) == 100 * (st.files - st.ffree) >= limit * st.files

\* No alarm comes late where the sizes fit into a word: a file system whose
\* bytes, or whose inodes, have truly reached a limit of diagfs_policy.c is
\* graded so, and a file of more extents than the critical number is never
\* graded ok, although only as many as there is room for are asked for.
\* Where a size overflows (4 GiB on 32-bit targets) nothing is promised: of
\* the samples, 8 blocks of 512 bytes, all used, get the total 0 and "ok".
\* The table of tools/diagfs/README.md:248-252 promises more of extents than
\* the code gives: above 50 it says CRITICAL, diagfs_analyze.c:78 sets "warn",
\* and between 10 and 50 it says WARN, line 80 sets "ok".
AlarmInTime ==
    pc = "done" =>
        /\ st.blocks > 0 /\ st.bfree <= st.blocks /\ st.blocks * st.bsize < Word =>
            /\ SpaceReached(Critical) => analysis.spaceHealth = "critical"
            /\ SpaceReached(Warn) => analysis.spaceHealth # "ok"
        /\ st.files > 0 /\ st.ffree <= st.files /\ st.files * 101 <= Word =>
            /\ InodesReached(Critical) => analysis.inodeHealth = "critical"
            /\ InodesReached(Warn) => analysis.inodeHealth # "ok"
        /\ layout # "unsupported" /\ extents > ExtentCritical => analysis.layoutHealth = "warn"

\* Asking the kernel for only 128 extents does not change the level: it is
\* the one the true count has.
SaturationHarmless ==
    pc = "done" /\ layout # "unsupported" => layout = Level(extents)
=============================================================================
