------------------------ MODULE DiagfsAnalyze_proofs ------------------------
(***************************************************************************)
(* Proofs about DiagfsAnalyze, for any width of a word, any answer of      *)
(* statfs and any limits.                                                  *)
(***************************************************************************)
EXTENDS DiagfsAnalyze, TLAPS

\* Division and remainder, as far as they are needed.
LEMMA DivFacts ==
  ASSUME NEW a \in Nat, NEW b \in Nat, b > 0
  PROVE /\ a \div b \in Nat /\ b * (a \div b) <= a
        /\ a % b \in Nat /\ a % b < b
        /\ a < b => a % b = a
OBVIOUS

LEMMA ProductMonotone ==
  ASSUME NEW a \in Nat, NEW b \in Nat, NEW c \in Nat, a <= b
  PROVE a * c <= b * c
OBVIOUS

\* The quotient is the only number whose multiples enclose the dividend.
LEMMA DivAbove ==
  ASSUME NEW a \in Nat, NEW b \in Nat, b > 0
  PROVE a < ((a \div b) + 1) * b
OBVIOUS

LEMMA OnlyQuotient ==
  ASSUME NEW p \in Nat, NEW q \in Nat, NEW b \in Nat, NEW a \in Int,
         p * b <= a, a < (p + 1) * b, q * b <= a, a < (q + 1) * b
  PROVE p = q
<1>1. ASSUME NEW x \in Nat, NEW y \in Nat, x < y, a < (x + 1) * b, y * b <= a
      PROVE FALSE
  <2>1. x + 1 <= y
    BY <1>1
  <2>2. (x + 1) * b <= y * b
    BY <2>1, ProductMonotone
  <2>3. (x + 1) * b \in Nat /\ y * b \in Nat
    OBVIOUS
  <2> QED BY <1>1, <2>2, <2>3
<1> QED BY <1>1

LEMMA DivMonotone ==
  ASSUME NEW a \in Nat, NEW b \in Nat, NEW c \in Nat, c > 0, a <= b
  PROVE a \div c <= b \div c
OBVIOUS

LEMMA DivBound ==
  ASSUME NEW a \in Nat, NEW b \in Nat, b > 0, NEW q \in Nat, a <= q * b
  PROVE a \div b <= q
OBVIOUS

\* The size in kilobytes is so small that a hundred times it fits into a word.
LEMMA KilobytesFit ==
  ASSUME NEW blocks \in Nat, NEW bsize \in Nat
  PROVE /\ ToKb(blocks, bsize) \in Nat
        /\ ToKb(blocks, bsize) < Word
        /\ ToKb(blocks, bsize) * 100 < Word
<1> DEFINE y == (blocks * bsize) % Word
           t == ToKb(blocks, bsize)
<1>1. blocks * bsize \in Nat
  OBVIOUS
<1>2. y \in Nat /\ y < Word
  BY <1>1, DivFacts, AnalyzeAssumption DEF AnalyzeAssumption
<1>3. t \in Nat /\ KB * t <= y
  BY <1>2, DivFacts, AnalyzeAssumption DEF AnalyzeAssumption, ToKb
<1> HIDE DEF y, t
<1>4. 100 * t <= KB * t
  BY <1>3, ProductMonotone, AnalyzeAssumption DEF AnalyzeAssumption
<1>5. t * 100 < Word /\ t < Word
  BY <1>2, <1>3, <1>4, AnalyzeAssumption DEF AnalyzeAssumption
<1> QED BY <1>3, <1>5 DEF t

\* A share of no more than the whole is no more than a hundred percent.
LEMMA UsedPercentBound ==
  ASSUME NEW used \in Nat, NEW total \in Nat, used <= total, used * 100 < Word
  PROVE /\ UsedPercent(used, total) \in 0 .. 100
        /\ total > 0 => UsedPercent(used, total) = (used * 100) \div total
<1>1. CASE total = 0
  BY <1>1 DEF UsedPercent
<1>2. CASE total > 0
  <2>1. used * 100 \in Nat /\ used * 100 <= 100 * total
    OBVIOUS
  <2>2. (used * 100) % Word = used * 100
    BY <2>1, DivFacts, AnalyzeAssumption DEF AnalyzeAssumption
  <2>3. (used * 100) \div total \in Nat
    BY <1>2, <2>1, DivFacts
  <2>4. (used * 100) \div total <= 100
    BY <1>2, <2>1, DivBound
  <2> QED BY <1>2, <2>2, <2>3, <2>4 DEF UsedPercent
<1> QED BY <1>1, <1>2

\* The inode percentage is a number, whatever overflows.
LEMMA InodePercentType ==
  ASSUME NEW files \in Nat, NEW ffree \in Nat
  PROVE InodePercent(files, ffree) \in Nat
<1>1. CASE files = 0 \/ files < ffree
  BY <1>1 DEF InodePercent
<1>2. CASE ~(files = 0 \/ files < ffree)
  <2>1. (files - ffree) * 100 + files - 1 \in Nat
    BY <1>2
  <2>2. ((files - ffree) * 100 + files - 1) % Word \in Nat
    BY <2>1, DivFacts, AnalyzeAssumption DEF AnalyzeAssumption
  <2>3. (((files - ffree) * 100 + files - 1) % Word) \div files \in Nat
    BY <1>2, <2>2, DivFacts
  <2> QED BY <1>2, <2>3 DEF InodePercent
<1> QED BY <1>1, <1>2

\* What each step leaves behind for the next.
SpaceFacts ==
  /\ fs.used <= fs.total
  /\ fs.used * 100 < Word
  /\ pc # "statfs" => fs = [total |-> ToKb(st.blocks, st.bsize), free |-> ToKb(st.bfree, st.bsize),
                            used |-> UsedKb(ToKb(st.blocks, st.bsize), ToKb(st.bfree, st.bsize))]
  /\ pc = "done" => analysis = [space |-> UsedPercent(fs.used, fs.total),
                               inode |-> InodePercent(st.files, st.ffree),
                               spaceHealth |-> Grade(UsedPercent(fs.used, fs.total)),
                               inodeHealth |-> Grade(InodePercent(st.files, st.ffree)),
                               layoutHealth |-> LayoutHealth(layout)]
  /\ pc # "done" => analysis = Unset

LayoutFacts ==
  /\ (pc \in {"analyze", "judge", "done"}) /\ layout # "unsupported" => mapped = Mapped(extents)
  /\ (pc \in {"judge", "done"}) /\ layout # "unsupported" => layout = Level(mapped)
  /\ pc \in {"statfs", "fiemap"} => layout = "unsupported"

AnalyzeInv == TypeOK /\ SpaceFacts /\ LayoutFacts

LEMMA AnalyzeInvariant == Spec => []AnalyzeInv
<1>1. Init => AnalyzeInv
  <2> SUFFICES ASSUME Init PROVE AnalyzeInv
    OBVIOUS
  <2>1. st \in StatfsAnswers /\ extents \in Nat
    BY AnalyzeAssumption DEF AnalyzeAssumption, Init
  <2>2. TypeOK
    BY <2>1, AnalyzeAssumption DEF AnalyzeAssumption, Init, TypeOK, Unset, Health
  <2>3. SpaceFacts /\ LayoutFacts
    BY AnalyzeAssumption DEF AnalyzeAssumption, Init, SpaceFacts, LayoutFacts
  <2> QED BY <2>2, <2>3 DEF AnalyzeInv
<1>2. AnalyzeInv /\ [Next]_vars => AnalyzeInv'
  <2> SUFFICES ASSUME AnalyzeInv, [Next]_vars PROVE AnalyzeInv'
    OBVIOUS
  <2> USE DEF AnalyzeInv
  <2>1. CASE DiagFsRead
    <3>1. /\ st.blocks \in Nat /\ st.bfree \in Nat /\ st.bsize \in Nat
      BY DEF TypeOK, StatfsAnswers
    <3> DEFINE total == ToKb(st.blocks, st.bsize)
               free == ToKb(st.bfree, st.bsize)
    <3>2. /\ total \in Nat /\ total < Word /\ total * 100 < Word
          /\ free \in Nat /\ free < Word
      BY <3>1, KilobytesFit
    <3>3. fs' = [total |-> total, free |-> free, used |-> UsedKb(total, free)]
      BY <2>1 DEF DiagFsRead
    <3> HIDE DEF total, free
    <3>4. /\ UsedKb(total, free) \in Nat /\ UsedKb(total, free) <= total
          /\ UsedKb(total, free) * 100 < Word
      BY <3>2, AnalyzeAssumption DEF AnalyzeAssumption, UsedKb
    <3>5. UNCHANGED <<st, extents, mapped, layout, analysis>> /\ pc = "statfs" /\ pc' = "fiemap"
      BY <2>1 DEF DiagFsRead
    <3>6. TypeOK'
      BY <3>2, <3>3, <3>4, <3>5 DEF TypeOK
    <3>7. SpaceFacts' /\ LayoutFacts'
      BY <3>3, <3>4, <3>5 DEF SpaceFacts, LayoutFacts, total, free
    <3> QED BY <3>6, <3>7
  <2>2. CASE DiagFsReadFiemap
    <3>1. UNCHANGED <<st, extents, fs, analysis>> /\ pc = "fiemap" /\ pc' = "analyze"
      BY <2>2 DEF DiagFsReadFiemap
    <3>2. \/ mapped' = Mapped(extents) /\ layout' = "low"
          \/ mapped' = mapped /\ layout' = "unsupported"
      BY <2>2 DEF DiagFsReadFiemap, LayoutFacts
    <3>3. mapped' \in 0 .. MaxExtents
      BY <3>2, AnalyzeAssumption DEF AnalyzeAssumption, TypeOK, Mapped
    <3> QED BY <3>1, <3>2, <3>3 DEF TypeOK, SpaceFacts, LayoutFacts
  <2>3. CASE AnalyzeLayout
    <3>1. UNCHANGED <<st, extents, fs, mapped, analysis>> /\ pc = "analyze" /\ pc' = "judge"
      BY <2>3 DEF AnalyzeLayout
    <3>2. layout' = IF layout = "unsupported" THEN layout ELSE Level(mapped)
      BY <2>3 DEF AnalyzeLayout
    <3>3. layout' \in {"unsupported", "low", "medium", "high"}
      BY <3>2 DEF Level
    <3> QED BY <3>1, <3>2, <3>3 DEF TypeOK, SpaceFacts, LayoutFacts
  <2>4. CASE AnalyzeFilesystem
    <3>1. UNCHANGED <<st, extents, fs, mapped, layout>> /\ pc = "judge" /\ pc' = "done"
      BY <2>4 DEF AnalyzeFilesystem
    <3>2. analysis' = [space |-> UsedPercent(fs.used, fs.total),
                       inode |-> InodePercent(st.files, st.ffree),
                       spaceHealth |-> Grade(UsedPercent(fs.used, fs.total)),
                       inodeHealth |-> Grade(InodePercent(st.files, st.ffree)),
                       layoutHealth |-> LayoutHealth(layout)]
      BY <2>4 DEF AnalyzeFilesystem
    <3>3. UsedPercent(fs.used, fs.total) \in Nat
      <4>1. fs.used \in Nat /\ fs.total \in Nat /\ fs.used <= fs.total /\ fs.used * 100 < Word
        BY DEF TypeOK, SpaceFacts
      <4>2. UsedPercent(fs.used, fs.total) \in 0 .. 100
        BY <4>1, UsedPercentBound
      <4> QED BY <4>2
    <3>4. InodePercent(st.files, st.ffree) \in Nat
      BY InodePercentType DEF TypeOK, StatfsAnswers
    <3>5. /\ \A p \in Nat : Grade(p) \in Health
          /\ LayoutHealth(layout) \in Health
      BY DEF Grade, LayoutHealth, Health
    <3>6. analysis' \in [space : Nat, inode : Nat, spaceHealth : Health, inodeHealth : Health, layoutHealth : Health]
      <4> DEFINE u == UsedPercent(fs.used, fs.total)
                 i == InodePercent(st.files, st.ffree)
                 l == LayoutHealth(layout)
      <4>1. u \in Nat /\ i \in Nat /\ l \in Health /\ Grade(u) \in Health /\ Grade(i) \in Health
        BY <3>3, <3>4, <3>5
      <4>2. analysis' = [space |-> u, inode |-> i, spaceHealth |-> Grade(u), inodeHealth |-> Grade(i), layoutHealth |-> l]
        BY <3>2
      <4> HIDE DEF u, i, l
      <4> QED BY <4>1, <4>2
    <3>8. TypeOK'
      BY <3>1, <3>6 DEF TypeOK
    <3>7. SpaceFacts' /\ LayoutFacts'
      BY <3>1, <3>2 DEF SpaceFacts, LayoutFacts
    <3> QED BY <3>7, <3>8
  <2>5. CASE UNCHANGED vars
    BY <2>5 DEF vars, TypeOK, SpaceFacts, LayoutFacts
  <2> QED BY <2>1, <2>2, <2>3, <2>4, <2>5 DEF Next, Done
<1> QED BY <1>1, <1>2, PTL DEF Spec

\* Types, for any answer of statfs.
THEOREM TypeCorrect == Spec => []TypeOK
<1>1. AnalyzeInv => TypeOK
  BY DEF AnalyzeInv
<1> QED BY <1>1, AnalyzeInvariant, PTL

\* The space percentage is a percentage for every width of a word and every
\* answer of statfs, sizes that overflow the word included.
THEOREM PercentInRange == Spec => []SpaceInRange
<1>1. AnalyzeInv => SpaceInRange
  <2> SUFFICES ASSUME AnalyzeInv PROVE SpaceInRange
    OBVIOUS
  <2>1. UsedPercent(fs.used, fs.total) \in 0 .. 100
    BY UsedPercentBound DEF AnalyzeInv, TypeOK, SpaceFacts
  <2>2. analysis.space <= 100
    BY <2>1 DEF AnalyzeInv, SpaceFacts, Unset
  <2> QED BY <2>2 DEF AnalyzeInv, SpaceFacts, SpaceInRange
<1> QED BY <1>1, AnalyzeInvariant, PTL

\* Reading at most MaxExtents extents gives the level of the true count, as
\* long as there is room for more than the critical number.
THEOREM LevelSurvivesSaturation == Spec => []SaturationHarmless
<1>1. AnalyzeInv => SaturationHarmless
  BY AnalyzeAssumption DEF AnalyzeAssumption, AnalyzeInv, TypeOK, LayoutFacts, SaturationHarmless, Level, Mapped
<1> QED BY <1>1, AnalyzeInvariant, PTL

-----------------------------------------------------------------------------
(* The percentages are those of the true shares.                           *)

LEMMA FloorIs ==
  ASSUME NEW part \in Nat, NEW total \in Nat, NEW p \in 0 .. 100,
         p * total <= 100 * part, 100 * part < (p + 1) * total
  PROVE Floor(part, total) = p
<1>1. \A q \in 0 .. 100 : q * total <= 100 * part /\ 100 * part < (q + 1) * total => q = p
  BY OnlyQuotient
<1> QED BY <1>1 DEF Floor

LEMMA CeilingIs ==
  ASSUME NEW part \in Nat, NEW total \in Nat, total > 0, NEW p \in 0 .. 100,
         100 * part <= p * total, (p - 1) * total < 100 * part
  PROVE Ceiling(part, total) = p
<1>1. ASSUME NEW q \in 0 .. 100, 100 * part <= q * total, (q - 1) * total < 100 * part
      PROVE q = p
  <2> DEFINE a == 100 * part + total - 1
  <2>1. ASSUME NEW n \in Nat, 100 * part <= n * total, (n - 1) * total < 100 * part
        PROVE n * total <= a /\ a < (n + 1) * total
    <3>1. (n - 1) * total = n * total - total /\ (n + 1) * total = n * total + total /\ n * total \in Int
      OBVIOUS
    <3> QED BY <2>1, <3>1
  <2>2. a \in Int
    OBVIOUS
  <2> HIDE DEF a
  <2>3. p * total <= a /\ a < (p + 1) * total /\ q * total <= a /\ a < (q + 1) * total
    BY <1>1, <2>1
  <2> QED BY <2>2, <2>3, OnlyQuotient
<1> QED BY <1>1 DEF Ceiling

\* Sizes that fit into a word are converted without loss, and no more is free
\* than there is.
LEMMA SizesExact ==
  ASSUME NEW blocks \in Nat, NEW bfree \in Nat, NEW bsize \in Nat, bfree <= blocks, blocks * bsize < Word
  PROVE /\ ToKb(blocks, bsize) = (blocks * bsize) \div KB
        /\ ToKb(bfree, bsize) = (bfree * bsize) \div KB
        /\ UsedKb(ToKb(blocks, bsize), ToKb(bfree, bsize)) = (blocks * bsize) \div KB - (bfree * bsize) \div KB
<1> DEFINE a == blocks * bsize
           b == bfree * bsize
<1>1. a \in Nat /\ b \in Nat /\ b <= a /\ a < Word
  BY ProductMonotone
<1> HIDE DEF a, b
<1>2. KB \in Nat /\ KB > 0 /\ Word \in Nat /\ Word > 0
  BY AnalyzeAssumption DEF AnalyzeAssumption
<1>3. a % Word = a /\ b % Word = b
  BY <1>1, <1>2, DivFacts
<1>4. ToKb(blocks, bsize) = a \div KB /\ ToKb(bfree, bsize) = b \div KB
  BY <1>3 DEF ToKb, a, b
<1>5. a \div KB >= b \div KB /\ a \div KB \in Nat /\ b \div KB \in Nat
  BY <1>1, <1>2, DivMonotone, DivFacts
<1>6. UsedKb(ToKb(blocks, bsize), ToKb(bfree, bsize)) = a \div KB - b \div KB
  BY <1>4, <1>5 DEF UsedKb
<1> QED BY <1>4, <1>6 DEF a, b

\* When nothing overflows the percentages are those of the true shares, space
\* rounded down and inodes rounded up, whatever the sizes and the counts are.
THEOREM PercentsTrue == Spec => []PercentsExact
<1>1. AnalyzeInv => PercentsExact
  <2> SUFFICES ASSUME AnalyzeInv, pc = "done" PROVE PercentsExact
    BY DEF PercentsExact
  <2>1. /\ st.blocks \in Nat /\ st.bfree \in Nat /\ st.bsize \in Nat
        /\ st.files \in Nat /\ st.ffree \in Nat
        /\ fs.used \in Nat /\ fs.total \in Nat
    BY DEF AnalyzeInv, TypeOK, StatfsAnswers
  <2>2. /\ analysis.space = UsedPercent(fs.used, fs.total)
        /\ analysis.inode = InodePercent(st.files, st.ffree)
        /\ fs.used <= fs.total /\ fs.used * 100 < Word
        /\ fs.total = ToKb(st.blocks, st.bsize)
        /\ fs.used = UsedKb(ToKb(st.blocks, st.bsize), ToKb(st.bfree, st.bsize))
    BY DEF AnalyzeInv, SpaceFacts
  <2>3. ASSUME st.blocks * st.bsize < Word, st.bfree <= st.blocks, fs.total > 0
        PROVE analysis.space = Floor((st.blocks * st.bsize) \div KB - (st.bfree * st.bsize) \div KB,
                                     (st.blocks * st.bsize) \div KB)
    <3>1. /\ fs.total = (st.blocks * st.bsize) \div KB
          /\ fs.used = (st.blocks * st.bsize) \div KB - (st.bfree * st.bsize) \div KB
      BY <2>1, <2>2, <2>3, SizesExact
    <3> DEFINE p == (fs.used * 100) \div fs.total
    <3>2. analysis.space = p /\ p \in 0 .. 100
      BY <2>1, <2>2, <2>3, UsedPercentBound
    <3>3. p * fs.total <= 100 * fs.used /\ 100 * fs.used < (p + 1) * fs.total
      <4> DEFINE a == fs.used * 100
      <4>1. a \in Nat /\ a = 100 * fs.used
        BY <2>1
      <4> HIDE DEF a
      <4>2. fs.total * (a \div fs.total) <= a /\ a < ((a \div fs.total) + 1) * fs.total /\ a \div fs.total \in Nat
        BY <2>1, <2>3, <4>1, DivFacts, DivAbove
      <4>3. fs.total * (a \div fs.total) = (a \div fs.total) * fs.total
        BY <2>1, <4>2
      <4> QED BY <4>1, <4>2, <4>3 DEF a
    <3> HIDE DEF p
    <3>4. Floor(fs.used, fs.total) = p
      BY <2>1, <3>2, <3>3, FloorIs
    <3> QED BY <3>1, <3>2, <3>4
  <2>4. ASSUME st.files * 101 <= Word, st.ffree <= st.files, st.files > 0
        PROVE analysis.inode = Ceiling(st.files - st.ffree, st.files)
    <3> DEFINE d == st.files - st.ffree
               a == d * 100 + st.files - 1
               p == a \div st.files
    <3>1. d \in Nat /\ d <= st.files /\ a \in Nat /\ a < Word
      BY <2>1, <2>4, AnalyzeAssumption DEF AnalyzeAssumption
    <3>2. InodePercent(st.files, st.ffree) = (a % Word) \div st.files
      BY <2>1, <2>4 DEF InodePercent
    <3>3. a = 100 * d + st.files - 1
      BY <2>1
    <3> HIDE DEF a, d
    <3>4. analysis.inode = p
      BY <2>2, <3>1, <3>2, DivFacts, AnalyzeAssumption DEF AnalyzeAssumption
    <3>5. st.files * p <= a /\ a < (p + 1) * st.files /\ p \in Nat
      BY <2>1, <2>4, <3>1, DivFacts, DivAbove
    <3> HIDE DEF p
    <3>6. st.files * p = p * st.files /\ (p + 1) * st.files = p * st.files + st.files
          /\ (p - 1) * st.files = p * st.files - st.files /\ p * st.files \in Nat
      BY <2>1, <3>5
    <3>7. 100 * d <= p * st.files /\ (p - 1) * st.files < 100 * d
      BY <2>1, <2>4, <3>1, <3>3, <3>5, <3>6
    <3>8. p \in 0 .. 100
      <4>1. ASSUME p > 100 PROVE FALSE
        <5>1. 100 <= p - 1 /\ p - 1 \in Nat
          BY <3>5, <4>1
        <5>2. 100 * st.files <= (p - 1) * st.files
          BY <2>1, <5>1, ProductMonotone
        <5>3. (p - 1) * st.files \in Nat
          BY <2>1, <5>1
        <5> QED BY <2>1, <3>1, <3>7, <5>2, <5>3
      <4> QED BY <3>5, <4>1
    <3>9. Ceiling(d, st.files) = p
      BY <2>1, <2>4, <3>1, <3>7, <3>8, CeilingIs
    <3> QED BY <3>4, <3>9 DEF d
  <2> QED BY <2>3, <2>4 DEF PercentsExact
<1> QED BY <1>1, AnalyzeInvariant, PTL

-----------------------------------------------------------------------------
(* Alarms.                                                                 *)

\* A quotient reaches a limit when its parts do.
LEMMA DivReaches ==
  ASSUME NEW a \in Nat, NEW b \in Nat, b > 0, NEW q \in Nat, a >= q * b
  PROVE a \div b >= q
OBVIOUS

\* A multiple of a multiple is divided without loss.
LEMMA WholeKilobytes ==
  ASSUME NEW n \in Nat, NEW s \in Nat, (s % KB) = 0
  PROVE KB * ((n * s) \div KB) = n * s
<1> DEFINE k == s \div KB
           T == n * s
<1>1. KB \in Nat /\ KB > 0
  BY AnalyzeAssumption DEF AnalyzeAssumption
<1>2. k \in Nat /\ s = KB * k
  BY <1>1
<1> HIDE DEF k
<1>3. n * k \in Nat /\ T = (n * k) * KB /\ T \in Nat
  BY <1>1, <1>2
<1> DEFINE m == n * k
<1>4. m \in Nat /\ T = m * KB
  BY <1>3
<1> HIDE DEF m, T
<1>5. KB * (T \div KB) <= T /\ T < ((T \div KB) + 1) * KB /\ T \div KB \in Nat
  BY <1>1, <1>3, DivFacts, DivAbove
<1> DEFINE d == T \div KB
<1>6. d \in Nat /\ d * KB <= T /\ T < (d + 1) * KB
  BY <1>1, <1>5
<1> HIDE DEF d
<1>7. (m + 1) * KB = m * KB + KB
  BY <1>1, <1>4
<1>8. m * KB <= T /\ T < (m + 1) * KB
  BY <1>1, <1>3, <1>4, <1>7
<1>9. T \in Int
  BY <1>3
<1>10. d = m
  BY <1>1, <1>4, <1>6, <1>8, <1>9, OnlyQuotient
<1> QED BY <1>1, <1>4, <1>10 DEF d, T

\* What is used in kilobytes is at least what is used in bytes, less what the
\* divisions lose.
LEMMA UsedAtLeast ==
  ASSUME NEW blocks \in Nat, NEW bfree \in Nat, NEW bsize \in Nat, bfree <= blocks,
         NEW lost \in Nat, lost = (IF (bsize % KB) = 0 THEN 0 ELSE KB)
  PROVE KB * ((blocks * bsize) \div KB - (bfree * bsize) \div KB) >= (blocks - bfree) * bsize - lost
<1> DEFINE T == blocks * bsize
           F == bfree * bsize
           t == T \div KB
           f == F \div KB
<1>1. KB \in Nat /\ KB > 0
  BY AnalyzeAssumption DEF AnalyzeAssumption
<1>2. T \in Nat /\ F \in Nat /\ (blocks - bfree) * bsize = T - F
  OBVIOUS
<1> HIDE DEF T, F
<1>3. t \in Nat /\ f \in Nat /\ KB * t <= T /\ T < (t + 1) * KB /\ KB * f <= F
  BY <1>1, <1>2, DivFacts, DivAbove
<1>4. lost = 0 => KB * t = T
  <2>1. lost = 0 => (bsize % KB) = 0
    BY <1>1
  <2>2. (bsize % KB) = 0 => KB * ((blocks * bsize) \div KB) = blocks * bsize
    BY WholeKilobytes
  <2> QED BY <2>1, <2>2 DEF T
<1>5. lost = 0 \/ lost = KB
  OBVIOUS
<1> HIDE DEF t, f
<1>6. /\ KB * (t - f) = KB * t - KB * f /\ (t + 1) * KB = KB * t + KB
      /\ KB * t \in Nat /\ KB * f \in Nat
  BY <1>1, <1>3
<1>7. KB * (t - f) >= T - F - lost
  BY <1>1, <1>2, <1>3, <1>4, <1>5, <1>6
<1> QED BY <1>2, <1>7 DEF t, f, T, F

\* A share of bytes that has reached a limit has reached it in kilobytes.
LEMMA ReachedInKilobytes ==
  ASSUME NEW total \in Nat, NEW used \in Nat, NEW bytes \in Nat, NEW part \in Int, NEW q \in Nat,
         KB * total <= bytes, KB * used >= part, 100 * part >= q * bytes
  PROVE 100 * used >= q * total
<1>1. KB \in Nat /\ KB > 0
  BY AnalyzeAssumption DEF AnalyzeAssumption
<1>2. KB * total \in Nat /\ KB * used \in Nat /\ q * bytes \in Nat
  BY <1>1
<1>3. q * (KB * total) <= q * bytes
  <2> DEFINE a == KB * total
  <2>1. a \in Nat /\ a <= bytes
    BY <1>2
  <2> HIDE DEF a
  <2>2. a * q <= bytes * q
    BY <2>1, ProductMonotone
  <2>3. a * q = q * a /\ bytes * q = q * bytes
    BY <2>1
  <2> QED BY <2>2, <2>3 DEF a
<1>4. 100 * (KB * used) >= q * (KB * total)
  <2>1. q * (KB * total) \in Nat
    BY <1>2
  <2> QED BY <1>2, <1>3, <2>1
<1> DEFINE u == 100 * used
           t == q * total
<1>5. 100 * (KB * used) = u * KB /\ q * (KB * total) = t * KB /\ u \in Nat /\ t \in Nat
  BY <1>1
<1> HIDE DEF u, t
<1>6. u * KB >= t * KB
  BY <1>4, <1>5
<1>7. ASSUME u < t PROVE FALSE
  <2>1. u + 1 <= t /\ u + 1 \in Nat
    BY <1>5, <1>7
  <2>2. (u + 1) * KB <= t * KB
    BY <1>1, <1>5, <2>1, ProductMonotone
  <2>3. (u + 1) * KB = u * KB + KB
    BY <1>1, <1>5
  <2>4. u * KB \in Nat /\ t * KB \in Nat
    BY <1>1, <1>5
  <2> QED BY <1>1, <1>6, <2>2, <2>3, <2>4
<1>8. u >= t
  BY <1>5, <1>7
<1> QED BY <1>8 DEF u, t

\* No alarm comes late: bytes or inodes that have truly reached a limit are
\* graded so unless a size or a product overflows, for words of any width.
THEOREM AlarmsInTime == Spec => []AlarmInTime
<1>1. AnalyzeInv => AlarmInTime
  <2> SUFFICES ASSUME AnalyzeInv, pc = "done" PROVE AlarmInTime
    BY DEF AlarmInTime
  <2>1. /\ fs.used \in Nat /\ fs.total \in Nat /\ st.files \in Nat /\ st.ffree \in Nat
        /\ st.blocks \in Nat /\ st.bfree \in Nat /\ st.bsize \in Nat /\ st.bsize > 0
    BY DEF AnalyzeInv, TypeOK, StatfsAnswers
  <2>2. /\ analysis.spaceHealth = Grade(UsedPercent(fs.used, fs.total))
        /\ analysis.inodeHealth = Grade(InodePercent(st.files, st.ffree))
        /\ analysis.layoutHealth = LayoutHealth(layout)
        /\ fs.total = ToKb(st.blocks, st.bsize)
        /\ fs.used = UsedKb(ToKb(st.blocks, st.bsize), ToKb(st.bfree, st.bsize))
    BY DEF AnalyzeInv, SpaceFacts
  <2>3. ASSUME NEW q \in Nat, q > 0, st.blocks > 0, st.bfree <= st.blocks,
               st.blocks * st.bsize < Word, SpaceReached(q)
        PROVE UsedPercent(fs.used, fs.total) \in Nat /\ UsedPercent(fs.used, fs.total) >= q
    <3> DEFINE T == st.blocks * st.bsize
               P == (st.blocks - st.bfree) * st.bsize - Lost
    <3>1. KB \in Nat /\ KB > 0
      BY AnalyzeAssumption DEF AnalyzeAssumption
    <3>2. Lost \in Nat /\ Lost = (IF (st.bsize % KB) = 0 THEN 0 ELSE KB)
      BY <3>1 DEF Lost
    <3>3. /\ fs.total = (st.blocks * st.bsize) \div KB
          /\ fs.used = (st.blocks * st.bsize) \div KB - (st.bfree * st.bsize) \div KB
      BY <2>1, <2>2, <2>3, SizesExact
    <3>4. KB * fs.used >= P
      BY <2>1, <2>3, <3>2, <3>3, UsedAtLeast
    <3>5. T \in Nat /\ T > 0 /\ P \in Int
      <4>1. st.blocks \in Nat /\ st.bsize \in Nat /\ st.blocks >= 1 /\ st.bsize >= 1
        BY <2>1, <2>3
      <4>2. 1 * st.bsize <= st.blocks * st.bsize
        BY <4>1, ProductMonotone
      <4> QED BY <2>1, <3>2, <4>1, <4>2
    <3>6. 100 * P >= q * T
      BY <2>3 DEF SpaceReached
    <3> HIDE DEF P
    <3>7. KB * fs.total <= T
      BY <3>1, <3>3, <3>5, DivFacts
    <3> HIDE DEF T
    <3>8. 100 * fs.used >= q * fs.total
      BY <2>1, <3>4, <3>5, <3>6, <3>7, ReachedInKilobytes
    <3>9. fs.total > 0
      <4>1. 1 * T <= q * T
        BY <2>3, <3>5, ProductMonotone
      <4>2. q * T \in Nat
        BY <3>5
      <4>3. P > 0
        BY <3>5, <3>6, <4>1, <4>2
      <4>4. KB * fs.used \in Nat /\ KB * fs.used > 0
        BY <2>1, <3>1, <3>4, <3>5, <4>3
      <4>5. fs.used > 0
        BY <2>1, <3>1, <4>4
      <4>6. fs.used <= fs.total
        BY DEF AnalyzeInv, SpaceFacts
      <4> QED BY <2>1, <4>5, <4>6
    <3>10. UsedPercent(fs.used, fs.total) = (fs.used * 100) \div fs.total
      <4>1. fs.used <= fs.total /\ fs.used * 100 < Word
        BY DEF AnalyzeInv, SpaceFacts
      <4> QED BY <2>1, <3>9, <4>1, UsedPercentBound
    <3> DEFINE a == fs.used * 100
    <3>11. a \in Nat /\ a >= q * fs.total
      <4>1. q * fs.total \in Nat /\ a \in Nat /\ a = 100 * fs.used
        BY <2>1
      <4> HIDE DEF a
      <4> QED BY <3>8, <4>1
    <3> HIDE DEF a
    <3>12. a \div fs.total >= q /\ a \div fs.total \in Nat
      BY <2>1, <3>9, <3>11, DivReaches, DivFacts
    <3> QED BY <3>10, <3>12 DEF a
  <2>4. ASSUME NEW q \in Nat, st.files > 0, st.ffree <= st.files, st.files * 101 <= Word, InodesReached(q)
        PROVE InodePercent(st.files, st.ffree) \in Nat /\ InodePercent(st.files, st.ffree) >= q
    <3> DEFINE a == (st.files - st.ffree) * 100 + st.files - 1
    <3>0. Word \in Nat /\ Word > 0
      BY AnalyzeAssumption DEF AnalyzeAssumption
    <3>1. a \in Nat /\ a >= q * st.files /\ a < Word
      BY <2>1, <2>4, <3>0 DEF InodesReached
    <3>2. InodePercent(st.files, st.ffree) = (a % Word) \div st.files
      BY <2>1, <2>4 DEF InodePercent
    <3> HIDE DEF a
    <3>3. a % Word = a
      BY <3>0, <3>1, DivFacts
    <3>4. a \div st.files >= q /\ a \div st.files \in Nat
      BY <2>1, <2>4, <3>1, DivReaches, DivFacts
    <3> QED BY <3>2, <3>3, <3>4
  <2>5. Critical \in Nat /\ Warn \in Nat /\ Warn < Critical /\ Warn > 0 /\ Critical > 0
    BY AnalyzeAssumption DEF AnalyzeAssumption
  <2>6. \A p \in Nat : (p >= Critical => Grade(p) = "critical") /\ (p >= Warn => Grade(p) # "ok")
    BY <2>5 DEF Grade
  <2>7. layout # "unsupported" /\ extents > ExtentCritical => LayoutHealth(layout) = "warn"
    <3>1. layout # "unsupported" => layout = Level(Mapped(extents))
      BY DEF AnalyzeInv, LayoutFacts
    <3>2. extents \in Nat /\ MaxExtents \in Nat /\ ExtentWarn \in Nat /\ ExtentCritical \in Nat
          /\ ExtentWarn < ExtentCritical /\ ExtentCritical < MaxExtents
      BY AnalyzeAssumption DEF AnalyzeAssumption, AnalyzeInv, TypeOK
    <3>3. extents > ExtentCritical => Level(Mapped(extents)) = "high"
      BY <3>2 DEF Level, Mapped
    <3> QED BY <3>1, <3>3 DEF LayoutHealth
  <2> QED BY <2>2, <2>3, <2>4, <2>5, <2>6, <2>7 DEF AlarmInTime
<1> QED BY <1>1, AnalyzeInvariant, PTL
=============================================================================
