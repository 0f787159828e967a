---------------------------- MODULE Input_proofs ----------------------------
(***************************************************************************)
(* Proofs about the input of the programs: the texts libdiag parses        *)
(* (LibdiagParse), for digits of any base, any widths and texts of any     *)
(* length, and the command line of diagnet (DiagnetCli), for command lines *)
(* and whitelists of any length, any first capacity and any behaviour of   *)
(* the allocator.                                                          *)
(***************************************************************************)
EXTENDS LibdiagParse, DiagnetCli, WellFoundedInduction, TLAPS

-----------------------------------------------------------------------------
(* Induction and recursion.                                                *)

\* The natural numbers are the only set of them that holds 0 and successors.
LEMMA SetInduction ==
  ASSUME NEW S, 0 \in S, \A n \in Nat : n \in S => n + 1 \in S
  PROVE Nat \subseteq S
<1> DEFINE Below == {p \in Nat \X Nat : p[1] < p[2]}
<1>1. IsWellFoundedOn(Below, Nat)
  BY NatLessThanWellFounded DEF OpToRel
<1> SUFFICES ASSUME Nat \ S # {} PROVE FALSE
  OBVIOUS
<1>2. PICK m \in Nat \ S : \A k \in Nat \ S : <<k, m>> \notin Below
  <2> HIDE DEF Below
  <2> QED BY <1>1, WFMin
<1>3. m # 0 /\ m - 1 \in Nat /\ m - 1 < m
  OBVIOUS
<1>4. m - 1 \in S
  BY <1>2, <1>3
<1> QED BY <1>3, <1>4

\* A function may be defined by its first value and a step.
Iterates(f, base, step) == f[0] = base /\ \A n \in Nat : f[n + 1] = step[<<n + 1, f[n]>>]

LEMMA Iteration ==
  ASSUME NEW V, NEW base \in V, NEW step \in [Nat \X V -> V]
  PROVE \E f \in [Nat -> V] : Iterates(f, base, step)
<1> DEFINE Is(f, n) == f[0] = base /\ \A k \in 0 .. n - 1 : f[k + 1] = step[<<k + 1, f[k]>>]
           S == {n \in Nat : \E f \in [0 .. n -> V] : Is(f, n)}
<1>1. 0 \in S
  <2>1. [k \in 0 .. 0 |-> base] \in [0 .. 0 -> V] /\ Is([k \in 0 .. 0 |-> base], 0)
    OBVIOUS
  <2> QED BY <2>1
<1>2. ASSUME NEW n \in Nat, n \in S PROVE n + 1 \in S
  <2>1. PICK f \in [0 .. n -> V] : Is(f, n)
    BY <1>2
  <2> DEFINE g == [k \in 0 .. n + 1 |-> IF k = n + 1 THEN step[<<n + 1, f[n]>>] ELSE f[k]]
  <2>2. step[<<n + 1, f[n]>>] \in V
    OBVIOUS
  <2>3. g \in [0 .. n + 1 -> V]
    BY <2>2
  <2>4. g[0] = base
    BY <2>1
  <2>5. ASSUME NEW k \in 0 .. (n + 1) - 1 PROVE g[k + 1] = step[<<k + 1, g[k]>>]
    <3>1. CASE k = n
      <4>1. g[n + 1] = step[<<n + 1, f[n]>>] /\ g[n] = f[n]
        OBVIOUS
      <4> QED BY <3>1, <4>1
    <3>2. CASE k # n
      <4>1. k \in 0 .. n - 1 /\ k + 1 # n + 1 /\ k # n + 1 /\ k + 1 \in 0 .. n + 1 /\ k \in 0 .. n + 1
        BY <3>2
      <4> QED BY <2>1, <4>1
    <3> QED BY <3>1, <3>2
  <2> HIDE DEF g
  <2>6. Is(g, n + 1)
    BY <2>4, <2>5
  <2> HIDE DEF Is
  <2> QED BY <2>3, <2>6
<1>3. \A n \in Nat : \E f \in [0 .. n -> V] : Is(f, n)
  <2> HIDE DEF S
  <2>1. Nat \subseteq S
    BY <1>1, <1>2, SetInduction
  <2> QED BY <2>1 DEF S
<1> DEFINE h(n) == CHOOSE f \in [0 .. n -> V] : Is(f, n)
           r == [n \in Nat |-> h(n)[n]]
           T == {k \in Nat : \A n \in Nat : k <= n => h(n)[k] = h(k)[k]}
<1>4. ASSUME NEW n \in Nat PROVE h(n) \in [0 .. n -> V] /\ Is(h(n), n)
  <2> HIDE DEF Is
  <2> QED BY <1>3
<1> HIDE DEF h
<1>5. Nat \subseteq T
  <2>1. 0 \in T
    BY <1>4
  <2>2. ASSUME NEW k \in Nat, k \in T PROVE k + 1 \in T
    <3> SUFFICES ASSUME NEW n \in Nat, k + 1 <= n PROVE h(n)[k + 1] = h(k + 1)[k + 1]
      OBVIOUS
    <3>1. h(n)[k + 1] = step[<<k + 1, h(n)[k]>>]
      BY <1>4
    <3>2. h(k + 1)[k + 1] = step[<<k + 1, h(k + 1)[k]>>]
      BY <1>4
    <3>3. h(n)[k] = h(k)[k] /\ h(k + 1)[k] = h(k)[k]
      BY <2>2
    <3> QED BY <3>1, <3>2, <3>3
  <2> HIDE DEF T
  <2> QED BY <2>1, <2>2, SetInduction
<1>6. r \in [Nat -> V] /\ r[0] = base
  BY <1>4
<1>7. ASSUME NEW n \in Nat PROVE r[n + 1] = step[<<n + 1, r[n]>>]
  <2>1. h(n + 1)[n + 1] = step[<<n + 1, h(n + 1)[n]>>]
    BY <1>4
  <2>2. h(n + 1)[n] = h(n)[n]
    BY <1>5
  <2> QED BY <2>1, <2>2
<1> QED BY <1>6, <1>7 DEF Iterates

-----------------------------------------------------------------------------
(* Powers of the base.                                                     *)

LEMMA BaseIs == Base \in Nat /\ Base >= 2
<1>1. Digits \in Seq(STRING) /\ Base >= 2
  BY ParseAssumption, Zenon DEF ParseAssumption
<1> QED BY <1>1 DEF Base

LEMMA PowerIs ==
  /\ Power \in [Nat -> Nat] /\ Power[0] = 1
  /\ \A n \in Nat : Power[n + 1] = Base * Power[n]
<1> DEFINE step == [p \in Nat \X Nat |-> Base * p[2]]
<1>1. step \in [Nat \X Nat -> Nat]
  BY BaseIs
<1>2. PICK f \in [Nat -> Nat] : Iterates(f, 1, step)
  <2>1. 1 \in Nat
    OBVIOUS
  <2> HIDE DEF step
  <2> QED BY <1>1, <2>1, Iteration
<1>3. ASSUME NEW n \in Nat PROVE f[n + 1] = Base * f[n]
  <2>1. f[n] \in Nat /\ n + 1 \in Nat
    OBVIOUS
  <2> QED BY <1>2, <2>1 DEF Iterates
<1>4. f = [n \in Nat |-> IF n = 0 THEN 1 ELSE Base * f[n - 1]]
  <2>1. ASSUME NEW n \in Nat PROVE f[n] = IF n = 0 THEN 1 ELSE Base * f[n - 1]
    <3>1. CASE n = 0
      BY <1>2, <3>1 DEF Iterates
    <3>2. CASE n # 0
      <4>1. n - 1 \in Nat /\ (n - 1) + 1 = n
        BY <3>2
      <4> QED BY <1>3, <3>2, <4>1
    <3> QED BY <3>1, <3>2
  <2> QED BY <2>1
<1>5. Power = [n \in Nat |-> IF n = 0 THEN 1 ELSE Base * Power[n - 1]]
  BY <1>4 DEF Power
<1>6. \A n \in Nat : Power[n + 1] = Base * Power[n]
  BY <1>5
<1>7. Power \in [Nat -> Nat]
  <2> DEFINE S == {n \in Nat : Power[n] \in Nat}
  <2>1. 0 \in S
    BY <1>5
  <2>2. ASSUME NEW n \in Nat, n \in S PROVE n + 1 \in S
    BY <1>6, <2>2, BaseIs
  <2>3. Nat \subseteq S
    <3> HIDE DEF S
    <3> QED BY <2>1, <2>2, SetInduction
  <2> QED BY <1>5, <2>3
<1> QED BY <1>5, <1>6, <1>7

LEMMA PowerPositive == \A n \in Nat : Power[n] \in Nat /\ Power[n] >= 1
<1> DEFINE S == {n \in Nat : Power[n] >= 1}
<1>1. 0 \in S
  BY PowerIs
<1>2. ASSUME NEW n \in Nat, n \in S PROVE n + 1 \in S
  <2>1. Power[n] \in Nat /\ Power[n] >= 1 /\ Power[n + 1] = Base * Power[n]
    BY <1>2, PowerIs
  <2> QED BY <2>1, BaseIs
<1>3. Nat \subseteq S
  <2> HIDE DEF S
  <2> QED BY <1>1, <1>2, SetInduction
<1> QED BY <1>3, PowerIs

LEMMA PowerSum == \A m, n \in Nat : Power[m + n] = Power[m] * Power[n]
<1> SUFFICES ASSUME NEW m \in Nat PROVE \A n \in Nat : Power[m + n] = Power[m] * Power[n]
  OBVIOUS
<1> DEFINE S == {n \in Nat : Power[m + n] = Power[m] * Power[n]}
<1>1. 0 \in S
  BY PowerIs
<1>2. ASSUME NEW n \in Nat, n \in S PROVE n + 1 \in S
  <2>1. Power[m + (n + 1)] = Base * Power[m + n] /\ Power[n + 1] = Base * Power[n]
    BY PowerIs
  <2>2. Power[m] \in Nat /\ Power[n] \in Nat /\ Base \in Nat
    BY PowerIs, BaseIs
  <2>3. Base * (Power[m] * Power[n]) = Power[m] * (Base * Power[n])
    BY <2>2
  <2> QED BY <1>2, <2>1, <2>3
<1>3. Nat \subseteq S
  <2> HIDE DEF S
  <2> QED BY <1>1, <1>2, SetInduction
<1> QED BY <1>3

LEMMA PowerGrows == \A m, n \in Nat : m <= n => Power[m] <= Power[n]
<1> SUFFICES ASSUME NEW m \in Nat, NEW n \in Nat, m <= n PROVE Power[m] <= Power[n]
  OBVIOUS
<1>1. n - m \in Nat /\ m + (n - m) = n
  OBVIOUS
<1>2. Power[n] = Power[m] * Power[n - m]
  BY <1>1, PowerSum
<1>3. Power[n - m] \in Nat /\ Power[n - m] >= 1 /\ Power[m] \in Nat
  BY <1>1, PowerPositive
<1> QED BY <1>2, <1>3

-----------------------------------------------------------------------------
(* Digits and the numbers they say.                                        *)

LEMMA DigitIs ==
  /\ \A c \in Digit : DigitValue(c) \in 0 .. Base - 1 /\ Digits[DigitValue(c) + 1] = c
  /\ \A d \in 0 .. Base - 1 : Digits[d + 1] \in Digit /\ DigitValue(Digits[d + 1]) = d
<1>1. /\ Digits \in Seq(STRING) /\ DOMAIN Digits = 1 .. Base
      /\ \A i, j \in 1 .. Base : Digits[i] = Digits[j] => i = j
  <2>1. Digits \in Seq(STRING) /\ IsInjective(Digits)
    BY ParseAssumption, Zenon DEF ParseAssumption
  <2> QED BY <2>1 DEF Base, IsInjective
<1>2. Base \in Nat
  BY BaseIs
<1>3. ASSUME NEW c \in Digit PROVE DigitValue(c) \in 0 .. Base - 1 /\ Digits[DigitValue(c) + 1] = c
  <2>1. PICK i \in 1 .. Base : Digits[i] = c
    BY <1>1 DEF Digit, ToSet
  <2>2. i - 1 \in 0 .. Base - 1 /\ Digits[(i - 1) + 1] = c
    BY <1>2, <2>1
  <2> QED BY <2>2 DEF DigitValue
<1>4. ASSUME NEW d \in 0 .. Base - 1 PROVE Digits[d + 1] \in Digit
  <2>1. d + 1 \in 1 .. Base
    BY <1>2
  <2> QED BY <1>1, <2>1 DEF Digit, ToSet
<1>5. ASSUME NEW d \in 0 .. Base - 1 PROVE DigitValue(Digits[d + 1]) = d
  <2>1. DigitValue(Digits[d + 1]) \in 0 .. Base - 1 /\ Digits[DigitValue(Digits[d + 1]) + 1] = Digits[d + 1]
    BY <1>3, <1>4
  <2>2. d + 1 \in 1 .. Base /\ DigitValue(Digits[d + 1]) + 1 \in 1 .. Base
    BY <1>2, <2>1
  <2>3. DigitValue(Digits[d + 1]) + 1 = d + 1
    BY <1>1, <2>1, <2>2
  <2> QED BY <1>2, <2>1, <2>3
<1> QED BY <1>3, <1>4, <1>5

LEMMA OneMoreDigit == \A a, b \in Nat : a * Base + b \in Nat
BY BaseIs

\* strtoul adds one digit after the other.
LEMMA ValueSteps ==
  ASSUME NEW ds \in Seq(Digit)
  PROVE \E v \in [0 .. Len(ds) -> Nat] :
          /\ v[0] = 0 /\ ValueOf(ds) = v[Len(ds)]
          /\ \A n \in 0 .. Len(ds) - 1 : v[n + 1] = v[n] * Base + DigitValue(ds[n + 1])
<1> DEFINE L == Len(ds)
           step == [p \in Nat \X Nat |-> IF p[1] \in 1 .. L THEN p[2] * Base + DigitValue(ds[p[1]]) ELSE 0]
           Rec(g) == g = [n \in 0 .. L |-> IF n = 0 THEN 0 ELSE g[n - 1] * Base + DigitValue(ds[n])]
<1>1. L \in Nat /\ \A i \in 1 .. L : DigitValue(ds[i]) \in Nat
  <2>1. \A i \in 1 .. L : ds[i] \in Digit
    OBVIOUS
  <2> QED BY <2>1, DigitIs, BaseIs
<1>2. step \in [Nat \X Nat -> Nat]
  <2>1. ASSUME NEW p \in Nat \X Nat
        PROVE (IF p[1] \in 1 .. L THEN p[2] * Base + DigitValue(ds[p[1]]) ELSE 0) \in Nat
    <3>1. p[1] \in 1 .. L => DigitValue(ds[p[1]]) \in Nat
      BY <1>1
    <3> QED BY <3>1, OneMoreDigit
  <2> QED BY <2>1
<1> HIDE DEF L
<1>3. PICK f \in [Nat -> Nat] : Iterates(f, 0, step)
  <2>1. 0 \in Nat
    OBVIOUS
  <2> HIDE DEF step
  <2> QED BY <1>2, <2>1, Iteration
<1>4. f[0] = 0
  BY <1>3 DEF Iterates
<1>5. ASSUME NEW n \in 0 .. L - 1 PROVE f[n + 1] = f[n] * Base + DigitValue(ds[n + 1])
  <2>1. n \in Nat /\ f[n] \in Nat /\ n + 1 \in Nat /\ n + 1 \in 1 .. L
    BY <1>1
  <2>2. f[n + 1] = step[<<n + 1, f[n]>>]
    BY <1>3, <2>1 DEF Iterates
  <2> QED BY <2>1, <2>2
<1> DEFINE v == [n \in 0 .. L |-> f[n]]
<1>6. Rec(v)
  <2>1. ASSUME NEW n \in 0 .. L PROVE v[n] = IF n = 0 THEN 0 ELSE v[n - 1] * Base + DigitValue(ds[n])
    <3>1. CASE n = 0
      BY <1>4, <3>1
    <3>2. CASE n # 0
      <4>1. n - 1 \in 0 .. L - 1 /\ n - 1 \in 0 .. L /\ (n - 1) + 1 = n
        BY <1>1, <3>2
      <4>2. f[(n - 1) + 1] = f[n - 1] * Base + DigitValue(ds[(n - 1) + 1])
        BY <1>5, <4>1
      <4> QED BY <3>2, <4>1, <4>2
    <3> QED BY <3>1, <3>2
  <2> QED BY <2>1
<1> DEFINE u == CHOOSE g : Rec(g)
<1>7. Rec(u)
  <2> HIDE DEF Rec, v
  <2> QED BY <1>6
<1>8. ValueOf(ds) = u[L]
  BY DEF ValueOf, L
<1> HIDE DEF u, v
<1>9. u[0] = 0 /\ \A n \in 0 .. L - 1 : u[n + 1] = u[n] * Base + DigitValue(ds[n + 1])
  <2>1. \A n \in 0 .. L : u[n] = IF n = 0 THEN 0 ELSE u[n - 1] * Base + DigitValue(ds[n])
    BY <1>7
  <2>2. ASSUME NEW n \in 0 .. L - 1 PROVE u[n + 1] = u[n] * Base + DigitValue(ds[n + 1])
    <3>1. n + 1 \in 0 .. L /\ n + 1 # 0 /\ (n + 1) - 1 = n
      BY <1>1
    <3> QED BY <2>1, <3>1
  <2> QED BY <1>1, <2>1, <2>2
<1>10. ASSUME NEW n \in 0 .. L PROVE u[n] \in Nat
  <2> DEFINE S == {k \in Nat : k <= L => u[k] \in Nat}
  <2>1. 0 \in S
    BY <1>9
  <2>2. ASSUME NEW k \in Nat, k \in S PROVE k + 1 \in S
    <3> SUFFICES ASSUME k + 1 <= L PROVE u[k + 1] \in Nat
      OBVIOUS
    <3>1. k \in 0 .. L - 1 /\ u[k] \in Nat /\ k + 1 \in 1 .. L
      BY <1>1, <2>2
    <3>2. DigitValue(ds[k + 1]) \in Nat /\ u[k + 1] = u[k] * Base + DigitValue(ds[k + 1])
      BY <1>1, <1>9, <3>1
    <3> QED BY <3>1, <3>2, OneMoreDigit
  <2>3. Nat \subseteq S
    <3> HIDE DEF S
    <3> QED BY <2>1, <2>2, SetInduction
  <2> QED BY <1>1, <2>3
<1>11. u \in [0 .. L -> Nat]
  BY <1>7, <1>10
<1> QED BY <1>8, <1>9, <1>11 DEF L

LEMMA Division ==
  ASSUME NEW n \in Nat, NEW b \in Nat, b >= 1
  PROVE n \div b \in Nat /\ n % b \in 0 .. b - 1 /\ n = (n \div b) * b + (n % b)
<1>1. n \div b \in Nat
  OBVIOUS
<1>2. n % b \in 0 .. b - 1
  OBVIOUS
<1>3. n = (n \div b) * b + (n % b)
  OBVIOUS
<1> QED BY <1>1, <1>2, <1>3

\* Dropping the last digit.
LEMMA LastDigit ==
  ASSUME NEW a \in Nat, NEW d \in 0 .. Base - 1
  PROVE /\ (a * Base + d) % Base = d /\ (a * Base + d) \div Base = a
        /\ \A p \in Nat : p >= 1 => (a * Base + d) \div (Base * p) = a \div p
<1>1. Base \in Nat /\ Base >= 2 /\ d \in Nat /\ d < Base
  BY BaseIs
<1>2. (a * Base + d) % Base = d /\ (a * Base + d) \div Base = a
  BY <1>1
<1>3. ASSUME NEW p \in Nat, p >= 1 PROVE (a * Base + d) \div (Base * p) = a \div p
  <2>1. a * Base + d \in Nat
    BY <1>1
  <2>2. \A n \in Nat : (n \div Base) \div p = n \div (Base * p)
    BY <1>1, <1>3
  <2> QED BY <1>2, <2>1, <2>2
<1> QED BY <1>2, <1>3

\* The value of digits is the number that is printed so.
LEMMA ValueIsNumber ==
  ASSUME NEW ds \in Seq(Digit)
  PROVE ValueOf(ds) \in 0 .. Power[Len(ds)] - 1 /\ Number(ValueOf(ds), Len(ds)) = ds
<1> DEFINE L == Len(ds)
           d(i) == DigitValue(ds[i])
<1>1. L \in Nat /\ \A i \in 1 .. L : ds[i] \in Digit /\ d(i) \in 0 .. Base - 1 /\ Digits[d(i) + 1] = ds[i]
  BY DigitIs
<1>2. PICK v \in [0 .. L -> Nat] :
        /\ v[0] = 0 /\ ValueOf(ds) = v[L]
        /\ \A n \in 0 .. L - 1 : v[n + 1] = v[n] * Base + d(n + 1)
  BY ValueSteps
<1>3. ds = [i \in 1 .. L |-> ds[i]]
  OBVIOUS
<1> HIDE DEF L, d
<1> DEFINE S == {n \in Nat : n <= L =>
                   /\ v[n] < Power[n]
                   /\ \A i \in 1 .. n : (v[n] \div Power[n - i]) % Base = d(i)}
<1>4. 0 \in S
  <2>1. v[0] < Power[0] /\ 1 .. 0 = {}
    BY <1>2, PowerIs
  <2> QED BY <2>1
<1>5. ASSUME NEW n \in Nat, n \in S PROVE n + 1 \in S
  <2> SUFFICES ASSUME n + 1 <= L
               PROVE /\ v[n + 1] < Power[n + 1]
                     /\ \A i \in 1 .. n + 1 : (v[n + 1] \div Power[(n + 1) - i]) % Base = d(i)
    OBVIOUS
  <2>1. /\ n \in 0 .. L - 1 /\ n \in 0 .. L /\ n + 1 \in 1 .. L /\ v[n] \in Nat
        /\ d(n + 1) \in 0 .. Base - 1 /\ v[n + 1] = v[n] * Base + d(n + 1)
    BY <1>1, <1>2
  <2>2. v[n] < Power[n] /\ \A i \in 1 .. n : (v[n] \div Power[n - i]) % Base = d(i)
    BY <1>1, <1>5
  <2>3. Power[n] \in Nat /\ Power[n + 1] = Base * Power[n] /\ Base \in Nat /\ Base >= 2
    BY PowerIs, BaseIs
  <2>4. v[n + 1] < Power[n + 1]
    <3>1. \A p, q, b \in Nat : q < p /\ b < Base => q * Base + b < Base * p
      BY BaseIs
    <3>2. d(n + 1) \in Nat /\ d(n + 1) < Base
      BY <2>1, <2>3
    <3> QED BY <2>1, <2>2, <2>3, <3>1, <3>2
  <2>5. ASSUME NEW i \in 1 .. n + 1 PROVE (v[n + 1] \div Power[(n + 1) - i]) % Base = d(i)
    <3>1. CASE i = n + 1
      <4>1. Power[(n + 1) - i] = 1
        <5>1. (n + 1) - i = 0
          BY <3>1
        <5> QED BY <5>1, PowerIs
      <4>5. v[n + 1] \in Nat
        BY <2>1, <1>1
      <4>2. v[n + 1] \div Power[(n + 1) - i] = v[n + 1]
        BY <4>1, <4>5
      <4>3. v[n + 1] % Base = d(n + 1)
        BY <2>1, LastDigit
      <4> QED BY <3>1, <4>2, <4>3
    <3>2. CASE i # n + 1
      <4>1. i \in 1 .. n /\ n - i \in Nat /\ (n + 1) - i = (n - i) + 1
        BY <3>2
      <4>2. /\ Power[(n + 1) - i] = Base * Power[n - i]
            /\ Power[n - i] \in Nat /\ Power[n - i] >= 1
        BY <4>1, PowerIs, PowerPositive
      <4>3. v[n + 1] \div Power[(n + 1) - i] = v[n] \div Power[n - i]
        BY <2>1, <4>2, LastDigit
      <4> QED BY <2>2, <4>1, <4>3
    <3> QED BY <3>1, <3>2
  <2> QED BY <2>4, <2>5
<1>6. Nat \subseteq S
  <2> HIDE DEF S
  <2> QED BY <1>4, <1>5, SetInduction
<1>7. v[L] \in Nat /\ v[L] < Power[L] /\ \A i \in 1 .. L : (v[L] \div Power[L - i]) % Base = d(i)
  BY <1>1, <1>2, <1>6
<1>8. ValueOf(ds) \in 0 .. Power[L] - 1
  BY <1>1, <1>2, <1>7, PowerIs
<1>9. Number(v[L], L) = ds
  <2>1. \A i \in 1 .. L : Digits[((v[L] \div Power[L - i]) % Base) + 1] = ds[i]
    BY <1>1, <1>7
  <2> QED BY <1>3, <2>1 DEF Number
<1> QED BY <1>2, <1>8, <1>9 DEF L

\* No two numbers are printed alike.
LEMMA NumberUnique ==
  \A w \in Nat : \A a, b \in 0 .. Power[w] - 1 : Number(a, w) = Number(b, w) => a = b
<1> DEFINE S == {w \in Nat : \A a, b \in 0 .. Power[w] - 1 : Number(a, w) = Number(b, w) => a = b}
<1>1. 0 \in S
  BY PowerIs
<1>2. ASSUME NEW w \in Nat, w \in S PROVE w + 1 \in S
  <2> SUFFICES ASSUME NEW a \in 0 .. Power[w + 1] - 1, NEW b \in 0 .. Power[w + 1] - 1,
                      Number(a, w + 1) = Number(b, w + 1)
               PROVE a = b
    OBVIOUS
  <2>1. Power[w] \in Nat /\ Power[w + 1] \in Nat /\ Power[w + 1] = Base * Power[w] /\ Base \in Nat /\ Base >= 2
    BY PowerIs, BaseIs
  <2>2. ASSUME NEW c \in 0 .. Power[w + 1] - 1
        PROVE /\ c \in Nat /\ c % Base \in 0 .. Base - 1 /\ c \div Base \in 0 .. Power[w] - 1
              /\ c = (c \div Base) * Base + (c % Base)
              /\ Number(c, w + 1)[w + 1] = Digits[(c % Base) + 1]
              /\ Number(c \div Base, w) = [i \in 1 .. w |-> Number(c, w + 1)[i]]
    <3>1. c \in Nat /\ c < Base * Power[w]
      BY <2>1
    <3>2. c % Base \in 0 .. Base - 1 /\ c \div Base \in Nat /\ c = (c \div Base) * Base + (c % Base)
      <4>1. Base >= 1
        BY <2>1
      <4> QED BY <2>1, <3>1, <4>1, Division
    <3>3. c \div Base < Power[w]
      <4>1. \A q, p, r \in Nat : q * Base + r < Base * p => q < p
        BY <2>1
      <4>2. c % Base \in Nat
        BY <2>1, <3>2
      <4> QED BY <2>1, <3>1, <3>2, <4>1, <4>2
    <3>4. Number(c, w + 1)[w + 1] = Digits[(c % Base) + 1]
      <4>1. w + 1 \in 1 .. w + 1 /\ Power[(w + 1) - (w + 1)] = 1 /\ c \div 1 = c
        BY <3>1, PowerIs
      <4>2. Number(c, w + 1)[w + 1] = Digits[((c \div Power[(w + 1) - (w + 1)]) % Base) + 1]
        BY <4>1 DEF Number
      <4> QED BY <4>1, <4>2
    <3>5. ASSUME NEW i \in 1 .. w
          PROVE Number(c, w + 1)[i] = Digits[(((c \div Base) \div Power[w - i]) % Base) + 1]
      <4>1. i \in 1 .. w + 1 /\ w - i \in Nat /\ (w + 1) - i = (w - i) + 1
        OBVIOUS
      <4>2. Power[(w + 1) - i] = Base * Power[w - i] /\ Power[w - i] \in Nat /\ Power[w - i] >= 1
        BY <4>1, PowerIs, PowerPositive
      <4>3. c \div Power[(w + 1) - i] = (c \div Base) \div Power[w - i]
        <5>1. ((c \div Base) * Base + (c % Base)) \div (Base * Power[w - i]) = (c \div Base) \div Power[w - i]
          BY <3>2, <4>2, LastDigit, Zenon
        <5> QED BY <3>2, <4>2, <5>1
      <4>4. Number(c, w + 1)[i] = Digits[((c \div Power[(w + 1) - i]) % Base) + 1]
        BY <4>1 DEF Number
      <4> QED BY <4>3, <4>4
    <3>6. Number(c \div Base, w) = [i \in 1 .. w |-> Number(c, w + 1)[i]]
      BY <3>5 DEF Number
    <3>7. c \div Base \in 0 .. Power[w] - 1
      BY <2>1, <3>2, <3>3
    <3> QED BY <3>1, <3>2, <3>4, <3>6, <3>7
  <2>3. a \div Base = b \div Base
    <3>1. Number(a \div Base, w) = Number(b \div Base, w)
      BY <2>2
    <3> HIDE DEF S
    <3> QED BY <1>2, <2>2, <3>1 DEF S
  <2>4. a % Base = b % Base
    <3>1. Number(a, w + 1)[w + 1] = Digits[(a % Base) + 1] /\ a % Base \in 0 .. Base - 1
      BY <2>2
    <3>2. Number(b, w + 1)[w + 1] = Digits[(b % Base) + 1] /\ b % Base \in 0 .. Base - 1
      BY <2>2
    <3>3. DigitValue(Digits[(a % Base) + 1]) = a % Base /\ DigitValue(Digits[(b % Base) + 1]) = b % Base
      BY <3>1, <3>2, DigitIs
    <3> QED BY <3>1, <3>2, <3>3
  <2>5. a = (a \div Base) * Base + (a % Base)
    BY <2>2, Zenon
  <2>6. b = (b \div Base) * Base + (b % Base)
    BY <2>2, Zenon
  <2> QED BY <2>3, <2>4, <2>5, <2>6, Zenon
<1>3. Nat \subseteq S
  <2> HIDE DEF S
  <2> QED BY <1>1, <1>2, SetInduction
<1> QED BY <1>3

LEMMA ValueIsPrinted ==
  /\ \A ds \in Seq(Digit) : NumberOf(ds) = ValueOf(ds)
  /\ \A w \in Nat : \A v \in 0 .. Power[w] - 1 :
        Number(v, w) \in Seq(Digit) /\ Len(Number(v, w)) = w /\ ValueOf(Number(v, w)) = v
<1>1. ASSUME NEW ds \in Seq(Digit) PROVE NumberOf(ds) = ValueOf(ds)
  <2>1. Len(ds) \in Nat /\ ValueOf(ds) \in 0 .. Power[Len(ds)] - 1 /\ Number(ValueOf(ds), Len(ds)) = ds
    BY ValueIsNumber
  <2>2. \A v \in 0 .. Power[Len(ds)] - 1 : Number(v, Len(ds)) = ds => v = ValueOf(ds)
    BY <2>1, NumberUnique
  <2> QED BY <2>1, <2>2, Zenon DEF NumberOf
<1>2. ASSUME NEW w \in Nat, NEW v \in 0 .. Power[w] - 1
      PROVE Number(v, w) \in Seq(Digit) /\ Len(Number(v, w)) = w /\ ValueOf(Number(v, w)) = v
  <2>1. ASSUME NEW i \in 1 .. w PROVE Digits[((v \div Power[w - i]) % Base) + 1] \in Digit
    <3>1. w - i \in Nat /\ v \in Nat
      BY PowerIs
    <3>2. v \div Power[w - i] \in Nat
      BY <3>1, PowerPositive
    <3>3. (v \div Power[w - i]) % Base \in 0 .. Base - 1
      BY <3>2, BaseIs
    <3> QED BY <3>3, DigitIs
  <2>2. Number(v, w) \in [1 .. w -> Digit]
    BY <2>1 DEF Number
  <2>3. Number(v, w) \in Seq(Digit) /\ Len(Number(v, w)) = w
    BY <2>2
  <2>4. ValueOf(Number(v, w)) \in 0 .. Power[w] - 1 /\ Number(ValueOf(Number(v, w)), w) = Number(v, w)
    BY <2>3, ValueIsNumber
  <2> QED BY <2>3, <2>4, NumberUnique
<1> QED BY <1>1, <1>2

-----------------------------------------------------------------------------
(* Parts of a text.                                                        *)

LEMMA PartIs ==
  ASSUME NEW V, NEW s \in Seq(V), NEW n \in 0 .. Len(s), NEW m \in n .. Len(s)
  PROVE /\ SubSeq(s, n + 1, m) \in Seq(V) /\ Len(SubSeq(s, n + 1, m)) = m - n
        /\ \A i \in 1 .. m - n : SubSeq(s, n + 1, m)[i] = s[n + i]
<1>1. n \in Nat /\ m \in Nat /\ Len(s) \in Nat /\ n <= m /\ m <= Len(s)
  OBVIOUS
<1> QED BY <1>1

LEMMA DropIs ==
  ASSUME NEW V, NEW s \in Seq(V), NEW n \in 0 .. Len(s)
  PROVE /\ Drop(s, n) \in Seq(V) /\ Len(Drop(s, n)) = Len(s) - n
        /\ \A i \in 1 .. Len(s) - n : Drop(s, n)[i] = s[n + i]
<1>1. Len(s) \in n .. Len(s)
  OBVIOUS
<1> QED BY <1>1, PartIs DEF Drop

LEMMA TakeIs ==
  ASSUME NEW V, NEW s \in Seq(V), NEW n \in 0 .. Len(s)
  PROVE /\ Take(s, n) \in Seq(V) /\ Len(Take(s, n)) = n
        /\ \A i \in 1 .. n : Take(s, n)[i] = s[i]
<1>1. 0 \in 0 .. Len(s) /\ n \in 0 .. Len(s)
  OBVIOUS
<1>2. /\ SubSeq(s, 0 + 1, n) \in Seq(V) /\ Len(SubSeq(s, 0 + 1, n)) = n - 0
      /\ \A i \in 1 .. n - 0 : SubSeq(s, 0 + 1, n)[i] = s[0 + i]
  BY <1>1, PartIs
<1> QED BY <1>2 DEF Take

\* Two texts of one length with the same characters are the same.
LEMMA SameText ==
  ASSUME NEW V, NEW W, NEW s \in Seq(V), NEW t \in Seq(W), Len(s) = Len(t), \A i \in 1 .. Len(s) : s[i] = t[i]
  PROVE s = t
<1>1. s = [i \in 1 .. Len(s) |-> s[i]] /\ t = [i \in 1 .. Len(t) |-> t[i]]
  OBVIOUS
<1> QED BY <1>1

\* A text of characters of a set.
LEMMA Restricted ==
  ASSUME NEW V, NEW s \in Seq(V), NEW S, \A i \in 1 .. Len(s) : s[i] \in S
  PROVE s \in Seq(S)
<1>1. s = [i \in 1 .. Len(s) |-> s[i]] /\ Len(s) \in Nat
  OBVIOUS
<1> QED BY <1>1

Spans(s, S, n) == (\A i \in 1 .. n : s[i] \in S) /\ (n = Len(s) \/ s[n + 1] \notin S)

LEMMA SpanIs ==
  ASSUME NEW V, NEW s \in Seq(V), NEW S
  PROVE Span(s, S) \in 0 .. Len(s) /\ Spans(s, S, Span(s, S))
<1>1. \E n \in 0 .. Len(s) : Spans(s, S, n)
  <2> SUFFICES ASSUME \A n \in 0 .. Len(s) : ~ Spans(s, S, n) PROVE FALSE
    OBVIOUS
  <2> DEFINE All == {n \in Nat : n <= Len(s) => \A i \in 1 .. n : s[i] \in S}
  <2>1. 0 \in All
    OBVIOUS
  <2>2. ASSUME NEW n \in Nat, n \in All PROVE n + 1 \in All
    <3> SUFFICES ASSUME n + 1 <= Len(s) PROVE \A i \in 1 .. n + 1 : s[i] \in S
      OBVIOUS
    <3>1. n \in 0 .. Len(s) /\ n # Len(s) /\ \A i \in 1 .. n : s[i] \in S
      BY <2>2
    <3>2. s[n + 1] \in S
      BY <3>1 DEF Spans
    <3> QED BY <3>1, <3>2
  <2>3. Len(s) \in All
    <3>1. Nat \subseteq All
      <4> HIDE DEF All
      <4> QED BY <2>1, <2>2, SetInduction
    <3> QED BY <3>1
  <2> QED BY <2>3 DEF Spans
<1>2. Span(s, S) = CHOOSE n \in 0 .. Len(s) : Spans(s, S, n)
  BY DEF Span, Spans
<1> QED BY <1>1, <1>2

LEMMA SpanOnly ==
  ASSUME NEW V, NEW s \in Seq(V), NEW S, NEW n \in 0 .. Len(s), Spans(s, S, n)
  PROVE Span(s, S) = n
<1>1. Span(s, S) \in 0 .. Len(s) /\ Spans(s, S, Span(s, S))
  BY SpanIs
<1> DEFINE k == Span(s, S)
<1>2. k \in 0 .. Len(s) /\ Spans(s, S, k)
  BY <1>1
<1> HIDE DEF k
<1>3. ~ k < n
  <2> SUFFICES ASSUME k < n PROVE FALSE
    OBVIOUS
  <2>1. k + 1 \in 1 .. n /\ k # Len(s)
    BY <1>2
  <2> QED BY <1>2, <2>1 DEF Spans
<1>4. ~ n < k
  <2> SUFFICES ASSUME n < k PROVE FALSE
    OBVIOUS
  <2>1. n + 1 \in 1 .. k /\ n # Len(s)
    BY <1>2
  <2> QED BY <1>2, <2>1 DEF Spans
<1>5. k = n
  BY <1>2, <1>3, <1>4
<1> QED BY <1>5 DEF k

LEMMA DropTwice ==
  ASSUME NEW V, NEW s \in Seq(V), NEW m \in 0 .. Len(s), NEW n \in 0 .. Len(s) - m
  PROVE m + n \in 0 .. Len(s) /\ Drop(Drop(s, m), n) = Drop(s, m + n)
<1>1. Len(s) \in Nat /\ m + n \in 0 .. Len(s) /\ m \in Nat /\ n \in Nat
  OBVIOUS
<1>2. /\ Drop(s, m) \in Seq(V) /\ Len(Drop(s, m)) = Len(s) - m
      /\ \A i \in 1 .. Len(s) - m : Drop(s, m)[i] = s[m + i]
  BY DropIs
<1>3. /\ Drop(s, m + n) \in Seq(V) /\ Len(Drop(s, m + n)) = Len(s) - (m + n)
      /\ \A i \in 1 .. Len(s) - (m + n) : Drop(s, m + n)[i] = s[(m + n) + i]
  BY <1>1, DropIs
<1> DEFINE d == Drop(s, m)
<1> HIDE DEF d
<1>4. d \in Seq(V) /\ Len(d) = Len(s) - m /\ \A i \in 1 .. Len(s) - m : d[i] = s[m + i]
  BY <1>2 DEF d
<1>5. /\ Drop(d, n) \in Seq(V) /\ Len(Drop(d, n)) = (Len(s) - m) - n
      /\ \A i \in 1 .. (Len(s) - m) - n : Drop(d, n)[i] = d[n + i]
  <2>1. n \in 0 .. Len(d) /\ d \in Seq(V) /\ Len(d) = Len(s) - m
    BY <1>4
  <2>2. /\ Drop(d, n) \in Seq(V) /\ Len(Drop(d, n)) = Len(d) - n
        /\ \A i \in 1 .. Len(d) - n : Drop(d, n)[i] = d[n + i]
    BY <2>1, DropIs
  <2> QED BY <2>1, <2>2
<1>6. Len(Drop(d, n)) = Len(Drop(s, m + n))
  BY <1>1, <1>3, <1>5
<1>7. ASSUME NEW i \in 1 .. Len(Drop(d, n)) PROVE Drop(d, n)[i] = Drop(s, m + n)[i]
  <2>1. i \in Nat /\ i \in 1 .. (Len(s) - m) - n /\ i \in 1 .. Len(s) - (m + n)
        /\ n + i \in 1 .. Len(s) - m /\ m + (n + i) = (m + n) + i
    BY <1>1, <1>5
  <2> QED BY <1>3, <1>4, <1>5, <2>1
<1>8. Drop(d, n) = Drop(s, m + n)
  BY <1>3, <1>5, <1>6, <1>7, SameText
<1> QED BY <1>1, <1>8 DEF d

\* The characters of the texts here.
Marks == {"+", "-", "0", "x", ":", "1", "(", ")", " ", "\n", "R", "S"}
Typed == UNION {Alphabet[k] : k \in DOMAIN Alphabet}
Character == (Typed \cup Digit) \cup Marks

LEMMA MarksAre == Marks \subseteq Character /\ Digit \subseteq Character
BY DEF Character

LEMMA MarkIs ==
  /\ "+" \in Marks /\ "-" \in Marks /\ "0" \in Marks /\ "x" \in Marks /\ ":" \in Marks /\ "1" \in Marks
  /\ "(" \in Marks /\ ")" \in Marks /\ " " \in Marks /\ "\n" \in Marks /\ "R" \in Marks /\ "S" \in Marks
BY DEF Marks

LEMMA SetOf ==
  ASSUME NEW V, NEW s \in Seq(V), NEW S
  PROVE ToSet(s) \subseteq S <=> \A i \in 1 .. Len(s) : s[i] \in S
BY DEF ToSet

\* The characters a number may have in front.
Plusses == {"+", "-"}
Minus == <<"-">>
Lead == <<"0", "x">>

LEMMA Single == ASSUME NEW V, NEW a \in V PROVE <<a>> \in Seq(V) /\ Len(<<a>>) = 1 /\ <<a>>[1] = a
OBVIOUS

LEMMA Pair ==
  ASSUME NEW V, NEW a \in V, NEW b \in V
  PROVE <<a, b>> \in Seq(V) /\ Len(<<a, b>>) = 2 /\ <<a, b>>[1] = a /\ <<a, b>>[2] = b
OBVIOUS

LEMMA Signals ==
  /\ "0" \in Digit
  /\ \A c \in Digit : c \notin White /\ c \notin Plusses /\ c \notin {"x", ":", "(", ")"}
  /\ White \cap Plusses = {}
<1>1. Digits \in Seq(STRING) /\ Digits[1] = "0" /\ Len(Digits) >= 2
  BY ParseAssumption, Zenon DEF ParseAssumption, Base
<1>2. Digit \cap {" ", "\n", "+", "-", "x", ":", "(", ")"} = {}
  BY ParseAssumption, Zenon DEF ParseAssumption
<1>3. "0" \in Digit
  <2>1. 1 \in DOMAIN Digits
    BY <1>1
  <2> QED BY <1>1, <2>1 DEF Digit, ToSet
<1>4. White \cap Plusses = {}
  BY Zenon DEF White, Plusses
<1> QED BY <1>2, <1>3, <1>4, Zenon DEF White, Plusses

LEMMA LeadHas == Lead \in Seq(Character) /\ Len(Lead) = 2 /\ Lead[1] \in Digit /\ Lead[2] \notin Digit
<1>1. "0" \in Character /\ "x" \in Character
  BY MarkIs, MarksAre
<1>2. Lead \in Seq(Character) /\ Len(Lead) = 2 /\ Lead[1] = "0" /\ Lead[2] = "x"
  BY <1>1, Pair DEF Lead
<1> QED BY <1>2, Signals, Zenon

-----------------------------------------------------------------------------
(* What strtoul scans.                                                     *)

PrefixLen(tail, hex) ==
    IF hex /\ Len(tail) > 2 /\ Take(tail, 2) = Lead /\ tail[3] \in Digit THEN 2 ELSE 0

LEMMA ScanIs ==
  ASSUME NEW s, NEW hex,
         NEW body, body = Drop(s, Span(s, White)),
         NEW sign, sign = Take(body, Lesser(Span(body, Plusses), 1)),
         NEW tail, tail = Drop(body, Len(sign)),
         NEW digits, digits = Drop(tail, PrefixLen(tail, hex)),
         NEW n, n = Span(digits, Digit)
  PROVE Scan(s, hex) = [found |-> n > 0, negative |-> sign = Minus, value |-> ValueOf(Take(digits, n)),
                        rest |-> IF n > 0 THEN Drop(digits, n) ELSE s]
BY Zenon DEF Scan, PrefixLen, Plusses, Lead, Minus

\* The parts of a number: n blanks, a sign, what leads to hexadecimal digits,
\* and the digits from m + 1 on.
Parts(s, hex, n, sign, prefix, m) ==
    /\ m \in 0 .. Len(s) - 1 /\ n \in 0 .. m /\ sign \in Signs /\ prefix \in Leads(hex)
    /\ \A i \in 1 .. n : s[i] \in White
    /\ SubSeq(s, n + 1, m) = sign \o prefix
    /\ \A i \in m + 1 .. Len(s) : s[i] \in Digit

LEMMA SignIs ==
  \A sign \in Signs : sign \in Seq(Character) /\ Len(sign) \in {0, 1} /\ (Len(sign) = 1 => sign[1] \in Plusses)
<1> SUFFICES ASSUME NEW sign \in Signs
             PROVE sign \in Seq(Character) /\ Len(sign) \in {0, 1} /\ (Len(sign) = 1 => sign[1] \in Plusses)
  OBVIOUS
<1>1. CASE sign = <<>>
  BY <1>1
<1>2. CASE sign = <<"+">>
  <2>1. "+" \in Character /\ "+" \in Plusses
    BY MarkIs, MarksAre DEF Plusses
  <2> QED BY <1>2, <2>1, Single, Zenon
<1>3. CASE sign = <<"-">>
  <2>1. "-" \in Character /\ "-" \in Plusses
    BY MarkIs, MarksAre DEF Plusses
  <2> QED BY <1>3, <2>1, Single, Zenon
<1> QED BY <1>1, <1>2, <1>3 DEF Signs

LEMMA LeadIs ==
  \A hex \in BOOLEAN : \A prefix \in Leads(hex) :
    prefix \in Seq(Character) /\ (prefix = <<>> \/ (hex /\ prefix = Lead))
<1> SUFFICES ASSUME NEW hex \in BOOLEAN, NEW prefix \in Leads(hex)
             PROVE prefix \in Seq(Character) /\ (prefix = <<>> \/ (hex /\ prefix = Lead))
  OBVIOUS
<1>1. prefix = <<>> \/ (hex /\ prefix = Lead)
  <2>1. CASE hex
    <3>1. Leads(hex) = {<<>>, Lead}
      BY <2>1 DEF Leads, Lead
    <3> QED BY <2>1, <3>1
  <2>2. CASE ~ hex
    <3>1. Leads(hex) = {<<>>}
      BY <2>2 DEF Leads
    <3> QED BY <3>1
  <2> QED BY <2>1, <2>2
<1>2. <<>> \in Seq(Character)
  OBVIOUS
<1> QED BY <1>1, <1>2, LeadHas

\* Where the parts are.
LEMMA PartsAt ==
  ASSUME NEW s \in Seq(Character), NEW hex \in BOOLEAN, NEW n, NEW sign, NEW prefix, NEW m,
         Parts(s, hex, n, sign, prefix, m)
  PROVE /\ n \in Nat /\ m \in Nat /\ Len(s) \in Nat /\ m < Len(s) /\ m = n + Len(sign) + Len(prefix)
        /\ Len(sign) \in Nat /\ Len(prefix) \in Nat
        /\ \A i \in 1 .. Len(sign) : s[n + i] = sign[i]
        /\ \A i \in 1 .. Len(prefix) : s[n + Len(sign) + i] = prefix[i]
<1>1. /\ n \in Nat /\ m \in Nat /\ Len(s) \in Nat /\ m < Len(s) /\ n <= m
      /\ n \in 0 .. Len(s) /\ m \in n .. Len(s) /\ SubSeq(s, n + 1, m) = sign \o prefix
  BY DEF Parts
<1>2. sign \in Seq(Character) /\ prefix \in Seq(Character) /\ Len(sign) \in Nat /\ Len(prefix) \in Nat
  BY SignIs, LeadIs DEF Parts
<1>3. /\ Len(SubSeq(s, n + 1, m)) = m - n
      /\ \A i \in 1 .. m - n : SubSeq(s, n + 1, m)[i] = s[n + i]
  BY <1>1, PartIs
<1>4. /\ Len(sign \o prefix) = Len(sign) + Len(prefix)
      /\ \A i \in 1 .. Len(sign) : (sign \o prefix)[i] = sign[i]
      /\ \A i \in 1 .. Len(prefix) : (sign \o prefix)[Len(sign) + i] = prefix[i]
  BY <1>2
<1>5. m - n = Len(sign) + Len(prefix)
  BY <1>1, <1>3, <1>4
<1>6. ASSUME NEW i \in 1 .. Len(sign) PROVE s[n + i] = sign[i]
  <2>1. i \in 1 .. m - n
    BY <1>2, <1>5
  <2> QED BY <1>1, <1>3, <1>4, <2>1
<1>7. ASSUME NEW i \in 1 .. Len(prefix) PROVE s[n + Len(sign) + i] = prefix[i]
  <2>1. Len(sign) + i \in 1 .. m - n /\ n + (Len(sign) + i) = n + Len(sign) + i
    BY <1>1, <1>2, <1>5
  <2>2. s[n + (Len(sign) + i)] = (sign \o prefix)[Len(sign) + i]
    BY <1>1, <1>3, <2>1
  <2> QED BY <1>4, <2>1, <2>2
<1>8. m = n + Len(sign) + Len(prefix)
  BY <1>1, <1>2, <1>5
<1> QED BY <1>1, <1>2, <1>6, <1>7, <1>8

LEMMA DropAll ==
  ASSUME NEW V, NEW s \in Seq(V)
  PROVE Take(s, Len(s)) = s /\ Drop(s, Len(s)) = <<>> /\ Drop(s, 0) = s /\ Take(s, 0) = <<>>
<1>1. Len(s) \in 0 .. Len(s) /\ 0 \in 0 .. Len(s) /\ Len(s) \in Nat
  OBVIOUS
<1>2. Take(s, Len(s)) = s
  <2>1. /\ Take(s, Len(s)) \in Seq(V) /\ Len(Take(s, Len(s))) = Len(s)
        /\ \A i \in 1 .. Len(s) : Take(s, Len(s))[i] = s[i]
    BY <1>1, TakeIs
  <2> QED BY <2>1, SameText
<1>3. Drop(s, 0) = s
  <2>1. /\ Drop(s, 0) \in Seq(V) /\ Len(Drop(s, 0)) = Len(s) - 0
        /\ \A i \in 1 .. Len(s) - 0 : Drop(s, 0)[i] = s[0 + i]
    BY <1>1, DropIs
  <2>2. Len(Drop(s, 0)) = Len(s) /\ \A i \in 1 .. Len(s) : Drop(s, 0)[i] = s[i]
    BY <2>1, <1>1
  <2> QED BY <2>1, <2>2, SameText
<1>4. Drop(s, Len(s)) = <<>>
  <2>1. Drop(s, Len(s)) \in Seq(V) /\ Len(Drop(s, Len(s))) = 0
    BY <1>1, DropIs
  <2> QED BY <2>1
<1>5. Take(s, 0) = <<>>
  <2>1. Take(s, 0) \in Seq(V) /\ Len(Take(s, 0)) = 0
    BY <1>1, TakeIs
  <2> QED BY <2>1
<1> QED BY <1>2, <1>3, <1>4, <1>5

\* A number that fills the text is scanned for its digits.
LEMMA ScanReads ==
  ASSUME NEW s \in Seq(Character), NEW hex \in BOOLEAN, NEW n, NEW sign, NEW prefix, NEW m,
         Parts(s, hex, n, sign, prefix, m)
  PROVE Scan(s, hex) = [found |-> TRUE, negative |-> sign = Minus, value |-> ValueOf(Drop(s, m)), rest |-> <<>>]
<1> DEFINE k == Len(sign)
           p == Len(prefix)
<1>1. /\ n \in Nat /\ m \in Nat /\ Len(s) \in Nat /\ m < Len(s) /\ m = n + k + p /\ k \in Nat /\ p \in Nat
      /\ \A i \in 1 .. k : s[n + i] = sign[i]
      /\ \A i \in 1 .. p : s[n + k + i] = prefix[i]
  <2>1. /\ n \in Nat /\ m \in Nat /\ Len(s) \in Nat /\ m < Len(s) /\ m = n + Len(sign) + Len(prefix)
        /\ Len(sign) \in Nat /\ Len(prefix) \in Nat
        /\ \A i \in 1 .. Len(sign) : s[n + i] = sign[i]
        /\ \A i \in 1 .. Len(prefix) : s[n + Len(sign) + i] = prefix[i]
    <3> HIDE DEF k, p
    <3> QED BY PartsAt
  <2> QED BY <2>1
<1>2. /\ \A i \in 1 .. n : s[i] \in White
      /\ \A i \in m + 1 .. Len(s) : s[i] \in Digit
  BY DEF Parts
<1>3. /\ sign \in Seq(Character) /\ k \in {0, 1} /\ (k = 1 => sign[1] \in Plusses)
      /\ prefix \in Seq(Character) /\ (prefix = <<>> \/ (hex /\ prefix = Lead))
  BY SignIs, LeadIs DEF Parts
<1>4. /\ s[m + 1] \in Digit /\ (p # 0 => hex /\ prefix = Lead /\ p = 2) /\ (p = 0 => prefix = <<>>)
  <2>1. m + 1 \in m + 1 .. Len(s)
    BY <1>1
  <2>2. s[m + 1] \in Digit
    BY <1>2, <2>1
  <2>3. prefix = <<>> => p = 0
    OBVIOUS
  <2>4. prefix = Lead => p = 2
    BY LeadHas
  <2> QED BY <1>3, <2>2, <2>3, <2>4
<1> HIDE DEF k, p
<1>5. s[n + 1] \notin White /\ (k = 0 => s[n + 1] \notin Plusses) /\ (k = 1 => s[n + 1] \in Plusses)
  <2>1. CASE k = 1
    <3>1. s[n + 1] = sign[1]
      BY <1>1, <2>1
    <3> QED BY <1>3, <2>1, <3>1, Signals
  <2>2. CASE k = 0 /\ p = 0
    <3>1. n + 1 = m + 1
      BY <1>1, <2>2
    <3> QED BY <1>4, <2>2, <3>1, Signals
  <2>3. CASE k = 0 /\ p # 0
    <3>1. 1 \in 1 .. p /\ n + k + 1 = n + 1
      BY <1>1, <1>4, <2>3
    <3>2. s[n + 1] = Lead[1]
      BY <1>1, <1>4, <2>3, <3>1
    <3> QED BY <2>3, <3>2, Signals, LeadHas
  <2> QED BY <1>3, <2>1, <2>2, <2>3
<1>6. Span(s, White) = n
  <2>1. n \in 0 .. Len(s) /\ Spans(s, White, n)
    BY <1>1, <1>2, <1>5 DEF Spans
  <2> QED BY <2>1, SpanOnly
<1> DEFINE body == Drop(s, n)
<1>7. /\ body \in Seq(Character) /\ Len(body) = Len(s) - n
      /\ \A i \in 1 .. Len(s) - n : body[i] = s[n + i]
  <2>1. n \in 0 .. Len(s)
    BY <1>1
  <2> QED BY <2>1, DropIs
<1> HIDE DEF body
<1>8. 1 \in 1 .. Len(s) - n /\ body[1] = s[n + 1]
  <2>1. 1 \in 1 .. Len(s) - n
    BY <1>1
  <2> QED BY <1>7, <2>1
<1>9. Lesser(Span(body, Plusses), 1) = k
  <2>1. Span(body, Plusses) \in 0 .. Len(body) /\ Spans(body, Plusses, Span(body, Plusses))
    BY <1>7, SpanIs
  <2> DEFINE l == Span(body, Plusses)
  <2>2. l \in Nat /\ (l >= 1 => body[1] \in Plusses) /\ (l = 0 => body[1] \notin Plusses)
    <3>1. Len(body) # 0 /\ Len(body) \in Nat
      BY <1>1, <1>7
    <3>2. l \in 0 .. Len(body) /\ Spans(body, Plusses, l)
      BY <2>1
    <3> HIDE DEF l
    <3> QED BY <3>1, <3>2 DEF Spans
  <2> HIDE DEF l
  <2>3. Lesser(l, 1) = k
    BY <1>3, <1>5, <1>8, <2>2 DEF Lesser, k
  <2> QED BY <2>3 DEF l
<1>10. Take(body, k) = sign
  <2>1. k \in 0 .. Len(body) /\ Len(sign) = k
    BY <1>1, <1>7 DEF k
  <2>2. /\ Take(body, k) \in Seq(Character) /\ Len(Take(body, k)) = k
        /\ \A i \in 1 .. k : Take(body, k)[i] = body[i]
    BY <1>7, <2>1, TakeIs
  <2>3. ASSUME NEW i \in 1 .. k PROVE Take(body, k)[i] = sign[i]
    <3>1. i \in 1 .. Len(s) - n
      BY <1>1
    <3> QED BY <1>1, <1>7, <2>2, <3>1
  <2> QED BY <1>3, <2>1, <2>2, <2>3, SameText
<1> DEFINE tail == Drop(body, k)
<1>11. /\ tail = Drop(s, n + k) /\ tail \in Seq(Character) /\ Len(tail) = Len(s) - (n + k)
       /\ \A i \in 1 .. Len(s) - (n + k) : tail[i] = s[(n + k) + i]
  <2>1. n \in 0 .. Len(s) /\ k \in 0 .. Len(s) - n /\ n + k \in 0 .. Len(s)
    BY <1>1
  <2>2. tail = Drop(s, n + k)
    BY <2>1, DropTwice DEF body
  <2> HIDE DEF tail
  <2> QED BY <2>1, <2>2, DropIs
<1> HIDE DEF tail
<1>12. PrefixLen(tail, hex) = p
  <2>1. CASE p = 0
    <3> SUFFICES ASSUME hex, Len(tail) > 2, Take(tail, 2) = Lead PROVE FALSE
      BY <2>1 DEF PrefixLen
    <3>1. 2 \in 0 .. Len(tail) /\ 2 \in 1 .. 2 /\ Len(tail) \in Nat
      BY <1>11
    <3>2. tail[2] = Lead[2]
      BY <1>11, <3>1, TakeIs
    <3>3. 2 \in 1 .. Len(s) - (n + k) /\ (n + k) + 2 \in m + 1 .. Len(s)
      BY <1>1, <1>11, <2>1
    <3>4. tail[2] \in Digit
      BY <1>2, <1>11, <3>3
    <3> QED BY <3>2, <3>4, LeadHas
  <2>2. CASE p # 0
    <3>1. hex /\ prefix = Lead /\ p = 2
      BY <1>4, <2>2
    <3>2. /\ 1 \in 1 .. p /\ 2 \in 1 .. p /\ 2 \in 0 .. Len(tail) /\ Len(tail) > 2
          /\ 1 \in 1 .. Len(s) - (n + k) /\ 2 \in 1 .. Len(s) - (n + k) /\ 3 \in 1 .. Len(s) - (n + k)
          /\ (n + k) + 3 = m + 1 /\ n + k + 1 = (n + k) + 1 /\ n + k + 2 = (n + k) + 2
      BY <1>1, <1>11, <3>1
    <3>3. tail[3] \in Digit
      BY <1>4, <1>11, <3>2
    <3>4. tail[1] = Lead[1] /\ tail[2] = Lead[2]
      BY <1>1, <1>11, <3>1, <3>2
    <3>5. /\ Take(tail, 2) \in Seq(Character) /\ Len(Take(tail, 2)) = 2
          /\ \A i \in 1 .. 2 : Take(tail, 2)[i] = tail[i]
      BY <1>11, <3>2, TakeIs
    <3>6. Take(tail, 2) = Lead
      <4>1. \A i \in 1 .. 2 : Take(tail, 2)[i] = Lead[i]
        BY <3>4, <3>5
      <4> QED BY <3>5, <4>1, LeadHas, SameText
    <3> QED BY <3>1, <3>2, <3>3, <3>6 DEF PrefixLen
  <2> QED BY <2>1, <2>2
<1> DEFINE digits == Drop(s, m)
<1>13. Drop(tail, p) = digits
  <2>1. n + k \in 0 .. Len(s) /\ p \in 0 .. Len(s) - (n + k) /\ (n + k) + p = m
    BY <1>1
  <2> QED BY <1>11, <2>1, DropTwice
<1>14. /\ digits \in Seq(Character) /\ Len(digits) = Len(s) - m /\ Len(digits) > 0
       /\ Span(digits, Digit) = Len(digits)
  <2>1. m \in 0 .. Len(s)
    BY <1>1
  <2>2. /\ digits \in Seq(Character) /\ Len(digits) = Len(s) - m
        /\ \A i \in 1 .. Len(s) - m : digits[i] = s[m + i]
    BY <2>1, DropIs
  <2> HIDE DEF digits
  <2>3. ASSUME NEW i \in 1 .. Len(digits) PROVE digits[i] \in Digit
    <3>1. i \in 1 .. Len(s) - m /\ m + i \in m + 1 .. Len(s)
      BY <1>1, <2>2
    <3> QED BY <1>2, <2>2, <3>1
  <2>4. Len(digits) \in 0 .. Len(digits) /\ Spans(digits, Digit, Len(digits)) /\ Len(digits) > 0
    BY <1>1, <2>2, <2>3 DEF Spans
  <2> QED BY <2>2, <2>4, SpanOnly
<1> HIDE DEF digits
<1>15. Take(digits, Len(digits)) = digits /\ Drop(digits, Len(digits)) = <<>>
  BY <1>14, DropAll
<1>16. Scan(s, hex) = [found |-> Len(digits) > 0, negative |-> sign = Minus,
                       value |-> ValueOf(Take(digits, Len(digits))),
                       rest |-> IF Len(digits) > 0 THEN Drop(digits, Len(digits)) ELSE s]
  <2>1. body = Drop(s, Span(s, White)) /\ sign = Take(body, Lesser(Span(body, Plusses), 1))
    BY <1>6, <1>9, <1>10 DEF body
  <2>2. tail = Drop(body, Len(sign)) /\ digits = Drop(tail, PrefixLen(tail, hex)) /\ Len(digits) = Span(digits, Digit)
    BY <1>12, <1>13, <1>14 DEF tail, k
  <2> QED BY <2>1, <2>2, ScanIs
<1> QED BY <1>14, <1>15, <1>16 DEF digits

LEMMA FoundIs ==
  ASSUME NEW z \in Nat, NEW r, NEW a, NEW b, NEW c,
         r = [found |-> z > 0, negative |-> a, value |-> b, rest |-> c], r.found
  PROVE z > 0
OBVIOUS

LEMMA ConcatIs ==
  ASSUME NEW V, NEW s \in Seq(V), NEW t \in Seq(V)
  PROVE /\ s \o t \in Seq(V) /\ Len(s \o t) = Len(s) + Len(t)
        /\ \A i \in 1 .. Len(s) : (s \o t)[i] = s[i]
        /\ \A i \in 1 .. Len(t) : (s \o t)[Len(s) + i] = t[i]
OBVIOUS

\* What is scanned to the end of the text is a number that fills it.
LEMMA ScanFills ==
  ASSUME NEW s \in Seq(Character), NEW hex \in BOOLEAN, Scan(s, hex).found, Scan(s, hex).rest = <<>>
  PROVE \E n \in Nat, m \in Nat, sign \in Signs, prefix \in Leads(hex) : Parts(s, hex, n, sign, prefix, m)
<1> DEFINE n == Span(s, White)
           body == Drop(s, n)
           l == Span(body, Plusses)
           k == Lesser(l, 1)
           sign == Take(body, k)
           tail == Drop(body, k)
           p == PrefixLen(tail, hex)
           digits == Drop(tail, p)
           z == Span(digits, Digit)
<1>1. n \in 0 .. Len(s) /\ Spans(s, White, n)
  BY SpanIs
<1> HIDE DEF n
<1>2. /\ body \in Seq(Character) /\ Len(body) = Len(s) - n
      /\ \A i \in 1 .. Len(s) - n : body[i] = s[n + i]
  BY <1>1, DropIs
<1> HIDE DEF body
<1>3. l \in 0 .. Len(body) /\ Spans(body, Plusses, l)
  BY <1>2, SpanIs
<1> HIDE DEF l
<1>4. /\ Len(s) \in Nat /\ n \in Nat /\ n <= Len(s) /\ k \in {0, 1} /\ k <= Len(s) - n
      /\ k \in 0 .. Len(body) /\ (k = 1 => body[1] \in Plusses)
  <2>1. l \in Nat /\ l <= Len(body) /\ (l >= 1 => body[1] \in Plusses)
    BY <1>3 DEF Spans
  <2> QED BY <1>1, <1>2, <2>1 DEF Lesser
<1> HIDE DEF k
<1>5. /\ sign \in Seq(Character) /\ Len(sign) = k
      /\ \A i \in 1 .. k : sign[i] = body[i]
  BY <1>2, <1>4, TakeIs
<1> HIDE DEF sign
<1>6. sign \in Signs
  <2>1. CASE k = 0
    <3>1. sign = <<>>
      BY <1>5, <2>1
    <3> QED BY <3>1, Zenon DEF Signs
  <2>2. CASE k = 1
    <3>1. sign[1] \in Plusses
      BY <1>4, <1>5, <2>2
    <3>2. sign = <<sign[1]>>
      BY <1>5, <2>2
    <3>3. sign[1] = "+" \/ sign[1] = "-"
      BY <3>1, Zenon DEF Plusses
    <3> QED BY <3>2, <3>3, Zenon DEF Signs
  <2> QED BY <1>4, <2>1, <2>2
<1>7. /\ tail = Drop(s, n + k) /\ n + k \in 0 .. Len(s)
      /\ tail \in Seq(Character) /\ Len(tail) = Len(s) - (n + k)
      /\ \A i \in 1 .. Len(s) - (n + k) : tail[i] = s[(n + k) + i]
  <2>1. n \in 0 .. Len(s) /\ k \in 0 .. Len(s) - n /\ n + k \in 0 .. Len(s)
    BY <1>4
  <2>2. tail = Drop(s, n + k)
    BY <2>1, DropTwice DEF body
  <2> HIDE DEF tail
  <2> QED BY <2>1, <2>2, DropIs
<1> HIDE DEF tail
<1>8. \/ p = 0
      \/ p = 2 /\ hex /\ Len(tail) > 2 /\ Take(tail, 2) = Lead
  BY DEF PrefixLen
<1> HIDE DEF p
<1> DEFINE prefix == Take(tail, p)
           m == (n + k) + p
<1>9. /\ p \in Nat /\ p <= Len(s) - (n + k) /\ p \in 0 .. Len(tail) /\ m \in 0 .. Len(s) /\ m \in n .. Len(s)
      /\ prefix \in Leads(hex)
  <2>1. CASE p = 0
    <3>1. prefix = <<>>
      BY <1>7, <2>1, DropAll
    <3>2. <<>> \in Leads(hex)
      BY DEF Leads
    <3> QED BY <1>4, <1>7, <2>1, <3>1, <3>2
  <2>2. CASE p = 2 /\ hex /\ Len(tail) > 2 /\ Take(tail, 2) = Lead
    <3>1. prefix = Lead
      BY <2>2
    <3>2. Lead \in Leads(hex)
      BY <2>2 DEF Leads, Lead
    <3>3. /\ p \in Nat /\ p <= Len(s) - (n + k) /\ p \in 0 .. Len(tail)
          /\ (n + k) + p \in 0 .. Len(s) /\ (n + k) + p \in n .. Len(s)
      BY <1>4, <1>7, <2>2
    <3> HIDE DEF prefix
    <3> QED BY <3>1, <3>2, <3>3
  <2> QED BY <1>8, <2>1, <2>2
<1>10. /\ prefix \in Seq(Character) /\ Len(prefix) = p
       /\ \A i \in 1 .. p : prefix[i] = tail[i]
  BY <1>7, <1>9, TakeIs
<1> HIDE DEF prefix
<1>11. digits = Drop(s, m) /\ digits \in Seq(Character) /\ Len(digits) = Len(s) - m
       /\ \A i \in 1 .. Len(s) - m : digits[i] = s[m + i]
  <2>1. n + k \in 0 .. Len(s) /\ p \in 0 .. Len(s) - (n + k)
    BY <1>7, <1>9
  <2>2. digits = Drop(s, m)
    BY <1>7, <2>1, DropTwice
  <2> HIDE DEF digits, m
  <2> QED BY <1>9, <2>2, DropIs
<1> HIDE DEF digits
<1>12. z \in 0 .. Len(digits) /\ Spans(digits, Digit, z)
  BY <1>11, SpanIs
<1> HIDE DEF z
<1>13. z > 0 /\ Drop(digits, z) = <<>>
  <2>1. Scan(s, hex) = [found |-> z > 0, negative |-> sign = Minus, value |-> ValueOf(Take(digits, z)),
                        rest |-> IF z > 0 THEN Drop(digits, z) ELSE s]
    <3>1. body = Drop(s, Span(s, White)) /\ sign = Take(body, Lesser(Span(body, Plusses), 1))
      BY DEF body, n, sign, k, l
    <3>2. tail = Drop(body, Len(sign)) /\ digits = Drop(tail, PrefixLen(tail, hex)) /\ z = Span(digits, Digit)
      BY <1>5 DEF tail, p, digits, z
    <3> QED BY <3>1, <3>2, ScanIs
  <2>2. z > 0
    <3>1. z \in Nat
      BY <1>11, <1>12
    <3> QED BY <2>1, <3>1, FoundIs, Zenon
  <2>3. Scan(s, hex).rest = Drop(digits, z)
    BY <2>1, <2>2
  <2> QED BY <2>2, <2>3
<1>14. z = Len(digits) /\ Len(digits) > 0
  <2>1. Len(Drop(digits, z)) = Len(digits) - z
    BY <1>11, <1>12, DropIs
  <2>2. Len(Drop(digits, z)) = 0
    BY <1>13
  <2>3. Len(digits) \in Nat /\ z \in Nat
    BY <1>11, <1>12
  <2> QED BY <1>13, <2>1, <2>2, <2>3
<1>15. ASSUME NEW i \in m + 1 .. Len(s) PROVE s[i] \in Digit
  <2>1. i - m \in 1 .. Len(s) - m /\ m + (i - m) = i /\ i - m \in 1 .. Len(digits)
    <3> HIDE DEF m
    <3> QED BY <1>9, <1>11
  <2>2. digits[i - m] \in Digit
    BY <1>12, <1>14, <2>1 DEF Spans
  <2> QED BY <1>11, <2>1, <2>2
<1>16. SubSeq(s, n + 1, m) = sign \o prefix
  <2>1. /\ SubSeq(s, n + 1, m) \in Seq(Character) /\ Len(SubSeq(s, n + 1, m)) = m - n
        /\ \A i \in 1 .. m - n : SubSeq(s, n + 1, m)[i] = s[n + i]
    <3> HIDE DEF m
    <3> QED BY <1>1, <1>9, PartIs
  <2>2. /\ sign \o prefix \in Seq(Character) /\ Len(sign \o prefix) = k + p
        /\ \A i \in 1 .. k : (sign \o prefix)[i] = sign[i]
        /\ \A i \in 1 .. p : (sign \o prefix)[k + i] = prefix[i]
    BY <1>5, <1>10, ConcatIs
  <2>3. m - n = k + p
    BY <1>4, <1>9
  <2> HIDE DEF m
  <2>4. ASSUME NEW i \in 1 .. k + p PROVE SubSeq(s, n + 1, m)[i] = (sign \o prefix)[i]
    <3>1. SubSeq(s, n + 1, m)[i] = s[n + i]
      BY <2>1, <2>3
    <3>2. CASE i <= k
      <4>1. i \in 1 .. k /\ i \in 1 .. Len(s) - n
        BY <1>4, <3>2
      <4> QED BY <1>2, <1>5, <2>2, <3>1, <4>1
    <3>3. CASE ~ i <= k
      <4>1. i - k \in 1 .. p /\ i - k \in 1 .. Len(s) - (n + k) /\ (n + k) + (i - k) = n + i /\ k + (i - k) = i
        BY <1>4, <1>9, <3>3
      <4>2. s[n + i] = prefix[i - k]
        BY <1>7, <1>10, <4>1
      <4> QED BY <2>2, <3>1, <4>1, <4>2
    <3> QED BY <3>2, <3>3
  <2> DEFINE a == SubSeq(s, n + 1, m)
             b == sign \o prefix
  <2>5. a \in Seq(Character) /\ b \in Seq(Character) /\ Len(a) = Len(b) /\ Len(a) = k + p
    BY <2>1, <2>2, <2>3
  <2>6. \A i \in 1 .. k + p : a[i] = b[i]
    BY <2>4
  <2> HIDE DEF a, b
  <2>7. \A i \in 1 .. Len(a) : a[i] = b[i]
    BY <2>5, <2>6
  <2>8. a = b
    BY <2>5, <2>7, SameText
  <2> QED BY <2>8 DEF a, b
<1>17. m \in Nat /\ m \in 0 .. Len(s) - 1 /\ n \in 0 .. m
  <2>1. m \in Nat /\ m >= n /\ Len(s) - m > 0
    BY <1>4, <1>9, <1>11, <1>14
  <2> HIDE DEF m
  <2> QED BY <1>4, <2>1
<1>18. \A i \in 1 .. n : s[i] \in White
  BY <1>1 DEF Spans
<1> HIDE DEF m
<1>19. Parts(s, hex, n, sign, prefix, m)
  BY <1>6, <1>9, <1>15, <1>16, <1>17, <1>18 DEF Parts
<1> QED BY <1>4, <1>6, <1>9, <1>17, <1>19

LEMMA ReadsIs ==
  ASSUME NEW s \in Seq(Character), NEW hex \in BOOLEAN, NEW sign \in Signs, NEW m \in 0 .. Len(s) - 1
  PROVE Reads(s, m, sign, hex) <=>
          /\ \E n \in 0 .. m, prefix \in Leads(hex) : Parts(s, hex, n, sign, prefix, m)
          /\ NumberOf(Drop(s, m)) < ULong
<1>1. /\ Drop(s, m) \in Seq(Character) /\ Len(Drop(s, m)) = Len(s) - m
      /\ \A i \in 1 .. Len(s) - m : Drop(s, m)[i] = s[m + i]
  <2>1. m \in 0 .. Len(s)
    OBVIOUS
  <2> QED BY <2>1, DropIs
<1>2. ToSet(Drop(s, m)) \subseteq Digit <=> \A i \in m + 1 .. Len(s) : s[i] \in Digit
  <2>1. ToSet(Drop(s, m)) \subseteq Digit <=> \A i \in 1 .. Len(s) - m : Drop(s, m)[i] \in Digit
    BY <1>1, SetOf
  <2>2. ASSUME \A i \in 1 .. Len(s) - m : Drop(s, m)[i] \in Digit, NEW i \in m + 1 .. Len(s) PROVE s[i] \in Digit
    <3>1. i - m \in 1 .. Len(s) - m /\ m + (i - m) = i
      OBVIOUS
    <3> QED BY <1>1, <2>2, <3>1
  <2>3. ASSUME \A i \in m + 1 .. Len(s) : s[i] \in Digit, NEW i \in 1 .. Len(s) - m PROVE Drop(s, m)[i] \in Digit
    <3>1. m + i \in m + 1 .. Len(s)
      OBVIOUS
    <3> QED BY <1>1, <2>3, <3>1
  <2> QED BY <2>1, <2>2, <2>3
<1>3. ASSUME NEW n \in 0 .. m PROVE ToSet(Take(s, n)) \subseteq White <=> \A i \in 1 .. n : s[i] \in White
  <2>1. n \in 0 .. Len(s)
    OBVIOUS
  <2>2. Take(s, n) \in Seq(Character) /\ Len(Take(s, n)) = n /\ \A i \in 1 .. n : Take(s, n)[i] = s[i]
    BY <2>1, TakeIs
  <2>3. ToSet(Take(s, n)) \subseteq White <=> \A i \in 1 .. n : Take(s, n)[i] \in White
    BY <2>2, SetOf
  <2> QED BY <2>2, <2>3
<1>4. ASSUME NEW n \in 0 .. m, NEW prefix \in Leads(hex)
      PROVE Parts(s, hex, n, sign, prefix, m) <=>
              /\ ToSet(Take(s, n)) \subseteq White /\ SubSeq(s, n + 1, m) = sign \o prefix
              /\ ToSet(Drop(s, m)) \subseteq Digit
  BY <1>2, <1>3 DEF Parts
<1> QED BY <1>4, Zenon DEF Reads

\* The value v comes of these parts of a number.
Yields(s, hex, v, n, sign, prefix, m) ==
    /\ Parts(s, hex, n, sign, prefix, m)
    /\ ValueOf(Drop(s, m)) < ULong /\ v = Signed(sign, ValueOf(Drop(s, m)))

LEMMA PartsDigits ==
  ASSUME NEW s \in Seq(Character), NEW hex \in BOOLEAN, NEW n, NEW sign, NEW prefix, NEW m,
         Parts(s, hex, n, sign, prefix, m)
  PROVE Drop(s, m) \in Seq(Digit) /\ NumberOf(Drop(s, m)) = ValueOf(Drop(s, m))
<1>1. m \in 0 .. Len(s) /\ m \in Nat /\ Len(s) \in Nat /\ \A i \in m + 1 .. Len(s) : s[i] \in Digit
  BY DEF Parts
<1>2. /\ Drop(s, m) \in Seq(Character) /\ Len(Drop(s, m)) = Len(s) - m
      /\ \A i \in 1 .. Len(s) - m : Drop(s, m)[i] = s[m + i]
  BY <1>1, DropIs
<1>3. ASSUME NEW i \in 1 .. Len(Drop(s, m)) PROVE Drop(s, m)[i] \in Digit
  <2>1. i \in 1 .. Len(s) - m /\ m + i \in m + 1 .. Len(s)
    BY <1>1, <1>2
  <2> QED BY <1>1, <1>2, <2>1
<1>4. Drop(s, m) \in Seq(Digit)
  BY <1>2, <1>3, Restricted
<1> QED BY <1>4, ValueIsPrinted

LEMMA SaysIs ==
  ASSUME NEW s \in Seq(Character), NEW hex \in BOOLEAN, NEW v
  PROVE v \in Says(s, hex) <=>
          \E n \in Nat, m \in Nat, sign \in Signs, prefix \in Leads(hex) : Yields(s, hex, v, n, sign, prefix, m)
<1>1. v \in Says(s, hex) <=>
        \E sign \in Signs : \E m \in 0 .. Len(s) - 1 :
            Reads(s, m, sign, hex) /\ v = Signed(sign, NumberOf(Drop(s, m)))
  BY DEF Says
<1>2. ASSUME NEW sign \in Signs, NEW m \in 0 .. Len(s) - 1,
             Reads(s, m, sign, hex), v = Signed(sign, NumberOf(Drop(s, m)))
      PROVE \E n \in Nat, k \in Nat, sg \in Signs, prefix \in Leads(hex) : Yields(s, hex, v, n, sg, prefix, k)
  <2>1. PICK n \in 0 .. m, prefix \in Leads(hex) : Parts(s, hex, n, sign, prefix, m)
    BY <1>2, ReadsIs
  <2>2. NumberOf(Drop(s, m)) < ULong
    BY <1>2, ReadsIs
  <2>3. NumberOf(Drop(s, m)) = ValueOf(Drop(s, m))
    BY <2>1, PartsDigits
  <2>4. n \in Nat /\ m \in Nat
    OBVIOUS
  <2>5. Yields(s, hex, v, n, sign, prefix, m)
    BY <1>2, <2>1, <2>2, <2>3 DEF Yields
  <2> QED BY <2>4, <2>5
<1>3. ASSUME NEW n \in Nat, NEW m \in Nat, NEW sign \in Signs, NEW prefix \in Leads(hex),
             Yields(s, hex, v, n, sign, prefix, m)
      PROVE m \in 0 .. Len(s) - 1 /\ Reads(s, m, sign, hex) /\ v = Signed(sign, NumberOf(Drop(s, m)))
  <2>1. Parts(s, hex, n, sign, prefix, m) /\ ValueOf(Drop(s, m)) < ULong /\ v = Signed(sign, ValueOf(Drop(s, m)))
    BY <1>3 DEF Yields
  <2>2. m \in 0 .. Len(s) - 1 /\ n \in 0 .. m
    BY <2>1 DEF Parts
  <2>3. NumberOf(Drop(s, m)) = ValueOf(Drop(s, m))
    BY <2>1, PartsDigits
  <2> QED BY <2>1, <2>2, <2>3, ReadsIs
<1> QED BY <1>1, <1>2, <1>3, Zenon

\* What diag_parse_ulong makes of the result of strtoul.
Passes(s, hex, v) ==
    /\ s # <<>> /\ Strtoul(s, hex).range /\ Strtoul(s, hex).found /\ Strtoul(s, hex).rest = <<>>
    /\ v = Strtoul(s, hex).value

LEMMA StrtoulIs ==
  ASSUME NEW s, NEW hex
  PROVE /\ Strtoul(s, hex).found <=> Scan(s, hex).found
        /\ Strtoul(s, hex).rest = Scan(s, hex).rest
        /\ Strtoul(s, hex).range <=> Scan(s, hex).value < ULong
        /\ Strtoul(s, hex).value = IF Scan(s, hex).value >= ULong THEN ULong - 1
                                   ELSE IF Scan(s, hex).negative THEN (ULong - Scan(s, hex).value) % ULong
                                   ELSE Scan(s, hex).value
BY DEF Strtoul

LEMMA ULongIs == ULong \in Nat /\ ULong >= 1
<1>1. LongDigits \in Nat
  BY ParseAssumption, Zenon DEF ParseAssumption
<1> QED BY <1>1, PowerPositive DEF ULong

LEMMA YieldsIs ==
  ASSUME NEW s \in Seq(Character), NEW hex \in BOOLEAN, NEW v, NEW n, NEW sign, NEW prefix, NEW m,
         Parts(s, hex, n, sign, prefix, m)
  PROVE Passes(s, hex, v) <=> Yields(s, hex, v, n, sign, prefix, m)
<1> DEFINE w == ValueOf(Drop(s, m))
           r == Scan(s, hex)
<1>1. r = [found |-> TRUE, negative |-> sign = Minus, value |-> w, rest |-> <<>>]
  BY ScanReads
<1>2. w \in Nat /\ s # <<>>
  <2>1. Drop(s, m) \in Seq(Digit) /\ Len(Drop(s, m)) \in Nat
    BY PartsDigits
  <2>2. w \in 0 .. Power[Len(Drop(s, m))] - 1
    BY <2>1, ValueIsNumber
  <2>3. Len(s) # 0
    BY DEF Parts
  <2> QED BY <2>1, <2>2, <2>3, PowerPositive
<1> HIDE DEF w
<1>3. /\ r.found /\ r.rest = <<>> /\ r.value = w /\ (r.negative <=> sign = Minus)
  <2> HIDE DEF r
  <2> QED BY <1>1
<1>4. /\ Strtoul(s, hex).found /\ Strtoul(s, hex).rest = <<>>
      /\ Strtoul(s, hex).range <=> w < ULong
  BY <1>3, StrtoulIs
<1>5. ASSUME w < ULong PROVE Strtoul(s, hex).value = Signed(sign, w)
  <2>1. ~ w >= ULong
    BY <1>2, <1>5, ULongIs
  <2>2. Strtoul(s, hex).value = IF sign = Minus THEN (ULong - w) % ULong ELSE w
    BY <1>3, <2>1, StrtoulIs
  <2> QED BY <2>2, Zenon DEF Signed, Minus
<1>6. Yields(s, hex, v, n, sign, prefix, m) <=> w < ULong /\ v = Signed(sign, w)
  BY DEF Yields, w
<1> QED BY <1>2, <1>4, <1>5, <1>6 DEF Passes

LEMMA PassesIs ==
  ASSUME NEW s \in Seq(Character), NEW hex \in BOOLEAN, NEW v
  PROVE Passes(s, hex, v) <=> v \in Says(s, hex)
<1>1. ASSUME Passes(s, hex, v) PROVE v \in Says(s, hex)
  <2>1. Scan(s, hex).found /\ Scan(s, hex).rest = <<>>
    BY <1>1, StrtoulIs DEF Passes
  <2>2. PICK n \in Nat, m \in Nat, sign \in Signs, prefix \in Leads(hex) : Parts(s, hex, n, sign, prefix, m)
    BY <2>1, ScanFills
  <2>3. Yields(s, hex, v, n, sign, prefix, m)
    BY <1>1, <2>2, YieldsIs
  <2> QED BY <2>3, SaysIs
<1>2. ASSUME v \in Says(s, hex) PROVE Passes(s, hex, v)
  <2>1. PICK n \in Nat, m \in Nat, sign \in Signs, prefix \in Leads(hex) : Yields(s, hex, v, n, sign, prefix, m)
    BY <1>2, SaysIs
  <2>2. Parts(s, hex, n, sign, prefix, m)
    BY <2>1 DEF Yields
  <2> QED BY <2>1, <2>2, YieldsIs
<1> QED BY <1>1, <1>2

\* What the two parsers take from a text.
LEMMA ParsersExact ==
  ASSUME NEW s \in Seq(Character)
  PROVE /\ ParseUlong(s) = Says(s, FALSE)
        /\ ParseHexU32(s) = {v \in Says(s, TRUE) : v < U32}
<1>1. \A v : v \in ParseUlong(s) <=> Passes(s, FALSE, v)
  BY DEF ParseUlong, Passes
<1>2. \A v : v \in ParseHexU32(s) <=> Passes(s, TRUE, v) /\ v < U32
  BY DEF ParseHexU32, Passes
<1>3. FALSE \in BOOLEAN /\ TRUE \in BOOLEAN
  OBVIOUS
<1>4. \A v : v \in ParseUlong(s) <=> v \in Says(s, FALSE)
  BY <1>1, <1>3, PassesIs
<1>5. \A v : v \in ParseHexU32(s) <=> v \in Says(s, TRUE) /\ v < U32
  BY <1>2, <1>3, PassesIs
<1> QED BY <1>4, <1>5

-----------------------------------------------------------------------------
(* An address and a port.                                                  *)

LEMMA Quotient ==
  ASSUME NEW n \in Nat, NEW b \in Nat, b >= 1, NEW q \in Nat, NEW r \in Nat, r < b, n = q * b + r
  PROVE n \div b = q /\ n % b = r
OBVIOUS

LEMMA QuotientTwice ==
  ASSUME NEW n \in Nat, NEW a \in Nat, NEW b \in Nat, a >= 1, b >= 1
  PROVE (n \div a) \div b = n \div (a * b)
OBVIOUS

LEMMA AddMultiple ==
  ASSUME NEW n \in Nat, NEW b \in Nat, b >= 1, NEW k \in Nat
  PROVE (k * b + n) \div b = k + (n \div b) /\ (k * b + n) % b = n % b
<1> DEFINE q == n \div b
           r == n % b
<1>1. q \in Nat /\ r \in 0 .. b - 1 /\ n = q * b + r
  BY Division
<1> HIDE DEF q, r
<1>2. k * b + n \in Nat /\ k + q \in Nat /\ r \in Nat /\ r < b
  BY <1>1
<1>3. k * b + n = (k + q) * b + r
  BY <1>1, <1>2
<1>4. (k * b + n) \div b = k + q /\ (k * b + n) % b = r
  BY <1>2, <1>3, Quotient
<1> QED BY <1>4 DEF q, r

\* The digits of a low part are the low digits.
LEMMA LowDigit ==
  ASSUME NEW v \in Nat, NEW e \in Nat, NEW c \in Nat
  PROVE ((v % Power[e + 1 + c]) \div Power[e]) % Base = (v \div Power[e]) % Base
<1> DEFINE w == Power[e + 1 + c]
           p == Power[e]
           y == v \div w
           z == v % w
           x == Power[c]
<1>1. p \in Nat /\ p >= 1 /\ x \in Nat /\ Base \in Nat /\ Base >= 1
  BY PowerPositive, BaseIs
<1>2. w \in Nat /\ w >= 1 /\ w = (Base * p) * x
  <2>1. e + 1 \in Nat /\ e + 1 + c = (e + 1) + c /\ e + 1 + c \in Nat
    OBVIOUS
  <2>2. Power[(e + 1) + c] = Power[e + 1] * Power[c] /\ Power[e + 1] = Base * Power[e]
    BY <2>1, PowerSum, PowerIs
  <2> QED BY <2>1, <2>2, PowerPositive
<1> HIDE DEF w
<1>3. y \in Nat /\ z \in Nat /\ v = y * w + z
  <2>1. v \div w \in Nat /\ v % w \in 0 .. w - 1 /\ v = (v \div w) * w + (v % w)
    BY <1>2, Division
  <2> QED BY <1>2, <2>1
<1> HIDE DEF p, x, y, z
<1>4. y * x \in Nat /\ (y * x) * Base \in Nat /\ v = ((y * x) * Base) * p + z
  <2>1. y * ((Base * p) * x) = ((y * x) * Base) * p
    BY <1>1, <1>3
  <2> QED BY <1>1, <1>2, <1>3, <2>1
<1>5. v \div p = (y * x) * Base + (z \div p) /\ z \div p \in Nat
  <2>1. z \div p \in Nat
    BY <1>1, <1>3, Division
  <2>2. (((y * x) * Base) * p + z) \div p = (y * x) * Base + (z \div p)
    BY <1>1, <1>3, <1>4, AddMultiple, Zenon
  <2> QED BY <1>4, <2>1, <2>2, Zenon
<1>6. (v \div p) % Base = (z \div p) % Base
  BY <1>1, <1>4, <1>5, AddMultiple
<1> QED BY <1>6 DEF w, p, z

LEMMA NumberIs ==
  ASSUME NEW v \in Nat, NEW n \in Nat
  PROVE /\ Number(v, n) \in Seq(Digit) /\ Len(Number(v, n)) = n
        /\ \A i \in 1 .. n : Number(v, n)[i] = Digits[((v \div Power[n - i]) % Base) + 1]
<1>1. ASSUME NEW i \in 1 .. n PROVE Digits[((v \div Power[n - i]) % Base) + 1] \in Digit
  <2>1. n - i \in Nat
    OBVIOUS
  <2>2. v \div Power[n - i] \in Nat
    BY <2>1, PowerPositive
  <2>3. (v \div Power[n - i]) % Base \in 0 .. Base - 1
    BY <2>2, BaseIs
  <2> QED BY <2>3, DigitIs
<1>2. Number(v, n) \in [1 .. n -> Digit]
  BY <1>1 DEF Number
<1>3. Number(v, n) \in Seq(Digit) /\ Len(Number(v, n)) = n
  BY <1>2
<1>4. \A i \in 1 .. n : Number(v, n)[i] = Digits[((v \div Power[n - i]) % Base) + 1]
  BY DEF Number
<1> QED BY <1>3, <1>4

LEMMA NumberLow ==
  ASSUME NEW v \in Nat, NEW n \in Nat
  PROVE v % Power[n] \in 0 .. Power[n] - 1 /\ Number(v % Power[n], n) = Number(v, n)
<1>1. v % Power[n] \in 0 .. Power[n] - 1 /\ v % Power[n] \in Nat
  <2>1. Power[n] \in Nat /\ Power[n] >= 1
    BY PowerPositive
  <2>2. v % Power[n] \in 0 .. Power[n] - 1
    BY <2>1, Division
  <2> QED BY <2>1, <2>2
<1>2. ASSUME NEW i \in 1 .. n PROVE ((v % Power[n]) \div Power[n - i]) % Base = (v \div Power[n - i]) % Base
  <2>1. n - i \in Nat /\ i - 1 \in Nat /\ (n - i) + 1 + (i - 1) = n
    OBVIOUS
  <2>2. ((v % Power[(n - i) + 1 + (i - 1)]) \div Power[n - i]) % Base = (v \div Power[n - i]) % Base
    BY <2>1, LowDigit
  <2> QED BY <2>1, <2>2
<1>3. Number(v % Power[n], n) = Number(v, n)
  BY <1>2 DEF Number
<1> QED BY <1>1, <1>3

LEMMA NumberSplit ==
  ASSUME NEW v \in Nat, NEW m \in Nat, NEW n \in Nat
  PROVE v \div Power[n] \in Nat /\ Number(v, m + n) = Number(v \div Power[n], m) \o Number(v, n)
<1> DEFINE u == v \div Power[n]
<1>1. u \in Nat /\ Power[n] \in Nat /\ Power[n] >= 1
  BY PowerPositive, Division
<1>2. /\ Number(v, m + n) \in Seq(Digit) /\ Len(Number(v, m + n)) = m + n
      /\ \A i \in 1 .. m + n : Number(v, m + n)[i] = Digits[((v \div Power[(m + n) - i]) % Base) + 1]
  <2>1. m + n \in Nat
    OBVIOUS
  <2> QED BY <2>1, NumberIs
<1> DEFINE hi == Number(u, m)
           lo == Number(v, n)
<1>3. /\ hi \in Seq(Digit) /\ Len(hi) = m
      /\ \A i \in 1 .. m : hi[i] = Digits[((u \div Power[m - i]) % Base) + 1]
  <2> HIDE DEF u
  <2> QED BY <1>1, NumberIs
<1>4. /\ lo \in Seq(Digit) /\ Len(lo) = n
      /\ \A i \in 1 .. n : lo[i] = Digits[((v \div Power[n - i]) % Base) + 1]
  BY NumberIs
<1> HIDE DEF hi, lo
<1>5. /\ hi \o lo \in Seq(Digit) /\ Len(hi \o lo) = m + n
      /\ \A i \in 1 .. m : (hi \o lo)[i] = hi[i]
      /\ \A i \in 1 .. n : (hi \o lo)[m + i] = lo[i]
  <2>1. /\ hi \o lo \in Seq(Digit) /\ Len(hi \o lo) = Len(hi) + Len(lo)
        /\ \A i \in 1 .. Len(hi) : (hi \o lo)[i] = hi[i]
        /\ \A i \in 1 .. Len(lo) : (hi \o lo)[Len(hi) + i] = lo[i]
    <3>1. hi \in Seq(Digit) /\ lo \in Seq(Digit)
      BY <1>3, <1>4
    <3> QED BY <3>1, ConcatIs
  <2> QED BY <1>3, <1>4, <2>1
<1>6. ASSUME NEW i \in 1 .. m + n PROVE Number(v, m + n)[i] = (hi \o lo)[i]
  <2>1. CASE i <= m
    <3>1. i \in 1 .. m /\ m - i \in Nat /\ (m + n) - i = n + (m - i)
      BY <2>1
    <3>2. Power[(m + n) - i] = Power[n] * Power[m - i] /\ Power[m - i] \in Nat /\ Power[m - i] >= 1
      BY <3>1, PowerSum, PowerPositive
    <3>3. v \div Power[(m + n) - i] = u \div Power[m - i]
      <4>1. (v \div Power[n]) \div Power[m - i] = v \div (Power[n] * Power[m - i])
        BY <1>1, <3>2, QuotientTwice
      <4> QED BY <3>2, <4>1, Zenon
    <3>4. Number(v, m + n)[i] = Digits[((v \div Power[(m + n) - i]) % Base) + 1]
      BY <1>2
    <3>5. (hi \o lo)[i] = Digits[((u \div Power[m - i]) % Base) + 1]
      <4> HIDE DEF u
      <4> QED BY <1>3, <1>5, <3>1
    <3> QED BY <3>3, <3>4, <3>5, Zenon
  <2>2. CASE ~ i <= m
    <3>1. i - m \in 1 .. n /\ m + (i - m) = i /\ (m + n) - i = n - (i - m)
      BY <2>2
    <3>2. (hi \o lo)[m + (i - m)] = lo[i - m]
      BY <1>5, <3>1
    <3> QED BY <1>2, <1>4, <3>1, <3>2
  <2> QED BY <2>1, <2>2
<1>7. Len(Number(v, m + n)) = Len(hi \o lo) /\ Len(Number(v, m + n)) = m + n
  BY <1>2, <1>5
<1>8. Number(v, m + n) = hi \o lo
  BY <1>2, <1>5, <1>6, <1>7, SameText
<1> QED BY <1>1, <1>8 DEF hi, lo, u

\* Two texts that are joined alike, the second parts of one length.
Joined(s, t, p, q) == Len(t) = Len(q) /\ s \o t = p \o q => s = p /\ t = q

LEMMA ConcatSame == \A s, t, p, q \in Seq(Digit) : Joined(s, t, p, q)
<1> SUFFICES ASSUME NEW s \in Seq(Digit), NEW t \in Seq(Digit), NEW p \in Seq(Digit), NEW q \in Seq(Digit),
                    Len(t) = Len(q), s \o t = p \o q
             PROVE s = p /\ t = q
  BY DEF Joined
<1>1. /\ Len(s \o t) = Len(s) + Len(t)
      /\ \A i \in 1 .. Len(s) : (s \o t)[i] = s[i]
      /\ \A i \in 1 .. Len(t) : (s \o t)[Len(s) + i] = t[i]
  BY ConcatIs
<1>2. /\ Len(p \o q) = Len(p) + Len(q)
      /\ \A i \in 1 .. Len(p) : (p \o q)[i] = p[i]
      /\ \A i \in 1 .. Len(q) : (p \o q)[Len(p) + i] = q[i]
  BY ConcatIs
<1>3. Len(s) \in Nat /\ Len(p) \in Nat /\ Len(t) \in Nat /\ Len(s) = Len(p)
  BY <1>1, <1>2
<1>4. \A i \in 1 .. Len(s) : s[i] = p[i]
  BY <1>1, <1>2, <1>3
<1>5. \A i \in 1 .. Len(t) : t[i] = q[i]
  BY <1>1, <1>2, <1>3
<1>6. s = p
  BY <1>3, <1>4, SameText
<1>7. t = q
  BY <1>5, SameText
<1> QED BY <1>6, <1>7

LEMMA ConcatLen == \A s, t \in Seq(Digit) : s \o t \in Seq(Digit) /\ Len(s \o t) = Len(s) + Len(t)
OBVIOUS

LEMMA ByteIs == ByteDigits \in Nat /\ ByteDigits >= 1 /\ Byte = Power[ByteDigits] /\ Byte \in Nat /\ Byte >= 1
<1>1. ByteDigits \in Nat \ {0}
  BY ParseAssumption, Zenon DEF ParseAssumption
<1> QED BY <1>1, PowerPositive DEF Byte

\* The four bytes of a word are what is printed of it.
LEMMA OctetsPrinted ==
  ASSUME NEW v \in 0 .. U32 - 1
  PROVE Octets(v) \in [1 .. 4 -> 0 .. Byte - 1] /\ Printed(Octets(v)) = Number(v, 4 * ByteDigits)
<1> DEFINE b == ByteDigits
           v1 == v \div Power[b]
           v2 == v1 \div Power[b]
           v3 == v2 \div Power[b]
<1>1. b \in Nat /\ v \in Nat /\ 4 * b = 3 * b + b /\ 3 * b = 2 * b + b /\ 2 * b = b + b /\ 2 * b \in Nat /\ 3 * b \in Nat
  BY ByteIs, PowerIs DEF U32
<1> HIDE DEF b
<1>2. Power[b] \in Nat /\ Power[b] >= 1
  BY <1>1, PowerPositive
<1>3. v1 \in Nat /\ Number(v, 4 * b) = Number(v1, 3 * b) \o Number(v, b)
  <2>1. v \div Power[b] \in Nat /\ Number(v, 3 * b + b) = Number(v \div Power[b], 3 * b) \o Number(v, b)
    <3>1. v \in Nat /\ 3 * b \in Nat /\ b \in Nat
      BY <1>1
    <3> QED BY <3>1, NumberSplit
  <2> QED BY <1>1, <2>1
<1> HIDE DEF v1
<1>4. v2 \in Nat /\ Number(v1, 3 * b) = Number(v2, 2 * b) \o Number(v1, b)
  <2>1. v1 \div Power[b] \in Nat /\ Number(v1, 2 * b + b) = Number(v1 \div Power[b], 2 * b) \o Number(v1, b)
    <3>1. v1 \in Nat /\ 2 * b \in Nat /\ b \in Nat
      BY <1>1, <1>3
    <3> QED BY <3>1, NumberSplit
  <2> QED BY <1>1, <2>1
<1> HIDE DEF v2
<1>5. v3 \in Nat /\ Number(v2, 2 * b) = Number(v3, b) \o Number(v2, b)
  <2>1. v2 \div Power[b] \in Nat /\ Number(v2, b + b) = Number(v2 \div Power[b], b) \o Number(v2, b)
    <3>1. v2 \in Nat /\ b \in Nat /\ b \in Nat
      BY <1>1, <1>4
    <3> QED BY <3>1, NumberSplit
  <2> QED BY <1>1, <2>1
<1> HIDE DEF v3
<1>6. v \div Power[b * 0] = v /\ v \div Power[b * 1] = v1 /\ v \div Power[b * 2] = v2 /\ v \div Power[b * 3] = v3
  <2>1. v \div Power[b * 0] = v
    <3>1. b * 0 = 0 /\ Power[0] = 1 /\ v \div 1 = v
      BY <1>1, PowerIs
    <3> QED BY <3>1
  <2>2. v \div Power[b * 1] = v1
    <3>1. b * 1 = b
      BY <1>1
    <3> QED BY <3>1 DEF v1
  <2>3. v \div Power[b * 2] = v2
    <3>1. b * 2 = b + b /\ Power[b + b] = Power[b] * Power[b]
      <4>1. b * 2 = b + b
        BY <1>1
      <4>2. Power[b + b] = Power[b] * Power[b]
        BY <1>1, PowerSum
      <4> QED BY <4>1, <4>2
    <3>2. (v \div Power[b]) \div Power[b] = v \div (Power[b] * Power[b])
      BY <1>1, <1>2, QuotientTwice
    <3> QED BY <3>1, <3>2 DEF v1, v2
  <2>4. v \div Power[b * 3] = v3
    <3>1. b * 3 = b * 2 + b /\ b * 2 \in Nat
      BY <1>1
    <3>2. Power[b * 3] = Power[b * 2] * Power[b] /\ Power[b * 2] \in Nat /\ Power[b * 2] >= 1
      BY <1>1, <3>1, PowerSum, PowerPositive
    <3>3. (v \div Power[b * 2]) \div Power[b] = v \div (Power[b * 2] * Power[b])
      BY <1>1, <1>2, <3>2, QuotientTwice
    <3> QED BY <2>3, <3>2, <3>3 DEF v3
  <2> QED BY <2>1, <2>2, <2>3, <2>4
<1> DEFINE o == Octets(v)
<1>7. o[1] = v % Power[b] /\ o[2] = v1 % Power[b] /\ o[3] = v2 % Power[b] /\ o[4] = v3 % Power[b]
  <2>1. \A i \in 1 .. 4 : o[i] = (v \div Power[b * (i - 1)]) % Power[b]
    BY DEF Octets, Byte, b
  <2>2. 1 \in 1 .. 4 /\ 2 \in 1 .. 4 /\ 3 \in 1 .. 4 /\ 4 \in 1 .. 4 /\ 1 - 1 = 0 /\ 2 - 1 = 1 /\ 3 - 1 = 2 /\ 4 - 1 = 3
    OBVIOUS
  <2> HIDE DEF o
  <2>3. o[1] = (v \div Power[b * 0]) % Power[b] /\ o[2] = (v \div Power[b * 1]) % Power[b]
        /\ o[3] = (v \div Power[b * 2]) % Power[b] /\ o[4] = (v \div Power[b * 3]) % Power[b]
    BY <2>1, <2>2
  <2> QED BY <1>6, <2>3
<1>8. o \in [1 .. 4 -> 0 .. Byte - 1]
  <2>1. /\ v % Power[b] \in 0 .. Byte - 1 /\ v1 % Power[b] \in 0 .. Byte - 1
        /\ v2 % Power[b] \in 0 .. Byte - 1 /\ v3 % Power[b] \in 0 .. Byte - 1
    BY <1>1, <1>3, <1>4, <1>5, NumberLow DEF Byte, b
  <2>2. o = [i \in 1 .. 4 |-> o[i]]
    BY DEF Octets
  <2> HIDE DEF o
  <2>3. ASSUME NEW i \in 1 .. 4 PROVE o[i] \in 0 .. Byte - 1
    <3>1. i = 1 \/ i = 2 \/ i = 3 \/ i = 4
      OBVIOUS
    <3> QED BY <1>7, <2>1, <3>1
  <2> QED BY <2>2, <2>3
<1> HIDE DEF o
<1>9. /\ Number(o[1], b) = Number(v, b) /\ Number(o[2], b) = Number(v1, b)
      /\ Number(o[3], b) = Number(v2, b) /\ Number(o[4], b) = Number(v3, b)
  BY <1>1, <1>3, <1>4, <1>5, <1>7, NumberLow
<1>10. Printed(o) = Number(v, 4 * b)
  <2>1. Printed(o) = ((Number(o[4], b) \o Number(o[3], b)) \o Number(o[2], b)) \o Number(o[1], b)
    BY DEF Printed, b
  <2> QED BY <1>3, <1>4, <1>5, <1>9, <2>1, Zenon
<1> QED BY <1>8, <1>10 DEF o, b

\* No two addresses are printed alike.
LEMMA PrintedIs ==
  ASSUME NEW o \in [1 .. 4 -> 0 .. Byte - 1]
  PROVE Printed(o) \in Seq(Digit) /\ Len(Printed(o)) = 4 * ByteDigits
<1>1. \A i \in 1 .. 4 : o[i] \in Nat
  BY ByteIs
<1>2. \A i \in 1 .. 4 : Number(o[i], ByteDigits) \in Seq(Digit) /\ Len(Number(o[i], ByteDigits)) = ByteDigits
  BY <1>1, ByteIs, NumberIs
<1> DEFINE n(i) == Number(o[i], ByteDigits)
<1> DEFINE a == n(4) \o n(3)
           b == a \o n(2)
           c == b \o n(1)
<1>3. /\ n(1) \in Seq(Digit) /\ n(2) \in Seq(Digit) /\ n(3) \in Seq(Digit) /\ n(4) \in Seq(Digit)
      /\ Len(n(1)) = ByteDigits /\ Len(n(2)) = ByteDigits /\ Len(n(3)) = ByteDigits /\ Len(n(4)) = ByteDigits
  BY <1>2
<1>4. Printed(o) = c
  BY DEF Printed
<1> HIDE DEF n, a, b, c
<1>5. a \in Seq(Digit) /\ Len(a) = ByteDigits + ByteDigits
  BY <1>3, ConcatLen, Zenon DEF a
<1>6. b \in Seq(Digit) /\ Len(b) = (ByteDigits + ByteDigits) + ByteDigits
  BY <1>3, <1>5, ConcatLen, Zenon DEF b
<1>7. c \in Seq(Digit) /\ Len(c) = ((ByteDigits + ByteDigits) + ByteDigits) + ByteDigits
  BY <1>3, <1>6, ConcatLen, Zenon DEF c
<1> QED BY <1>4, <1>7, ByteIs

LEMMA PrintedUnique ==
  ASSUME NEW o \in [1 .. 4 -> 0 .. Byte - 1], NEW q \in [1 .. 4 -> 0 .. Byte - 1], Printed(o) = Printed(q)
  PROVE o = q
<1> DEFINE n(i) == Number(o[i], ByteDigits)
           m(i) == Number(q[i], ByteDigits)
<1>1. \A i \in 1 .. 4 : o[i] \in Nat /\ q[i] \in Nat /\ o[i] \in 0 .. Power[ByteDigits] - 1 /\ q[i] \in 0 .. Power[ByteDigits] - 1
  BY ByteIs
<1>2. \A i \in 1 .. 4 : /\ n(i) \in Seq(Digit) /\ m(i) \in Seq(Digit) /\ Len(n(i)) = Len(m(i))
                        /\ (n(i) = m(i) => o[i] = q[i])
  BY <1>1, ByteIs, NumberIs, NumberUnique
<1> DEFINE a == n(4) \o n(3)
           b == a \o n(2)
           c == m(4) \o m(3)
           d == c \o m(2)
<1>3. b \o n(1) = d \o m(1)
  BY DEF Printed
<1>4. /\ n(1) \in Seq(Digit) /\ n(2) \in Seq(Digit) /\ n(3) \in Seq(Digit) /\ n(4) \in Seq(Digit)
      /\ m(1) \in Seq(Digit) /\ m(2) \in Seq(Digit) /\ m(3) \in Seq(Digit) /\ m(4) \in Seq(Digit)
      /\ Len(n(1)) = Len(m(1)) /\ Len(n(2)) = Len(m(2)) /\ Len(n(3)) = Len(m(3)) /\ Len(n(4)) = Len(m(4))
      /\ (n(1) = m(1) => o[1] = q[1]) /\ (n(2) = m(2) => o[2] = q[2])
      /\ (n(3) = m(3) => o[3] = q[3]) /\ (n(4) = m(4) => o[4] = q[4])
  BY <1>2
<1> HIDE DEF n, m, a, b, c, d
<1>5. a \in Seq(Digit) /\ c \in Seq(Digit)
  BY <1>4, ConcatLen, Zenon DEF a, c
<1>6. b \in Seq(Digit) /\ d \in Seq(Digit)
  BY <1>4, <1>5, ConcatLen, Zenon DEF b, d
<1>7. b = d /\ n(1) = m(1)
  <2>1. Joined(b, n(1), d, m(1))
    BY <1>4, <1>6, ConcatSame, Zenon
  <2> QED BY <1>3, <1>4, <2>1, Zenon DEF Joined
<1>8. a = c /\ n(2) = m(2)
  <2>1. Joined(a, n(2), c, m(2))
    BY <1>4, <1>5, ConcatSame, Zenon
  <2> QED BY <1>4, <1>7, <2>1, Zenon DEF Joined, b, d
<1>10. n(4) = m(4) /\ n(3) = m(3)
  <2>1. Joined(n(4), n(3), m(4), m(3))
    BY <1>4, ConcatSame, Zenon
  <2> QED BY <1>4, <1>8, <2>1, Zenon DEF Joined, a, c
<1>9. \A i \in 1 .. 4 : o[i] = q[i]
  <2>1. \A i \in 1 .. 4 : i = 1 \/ i = 2 \/ i = 3 \/ i = 4
    OBVIOUS
  <2> QED BY <1>4, <1>7, <1>8, <1>10, <2>1
<1> QED BY <1>9

\* Digits, no more than an address has, are taken for their value.
LEMMA HexOfDigits ==
  ASSUME NEW ds \in Seq(Digit), Len(ds) > 0, Len(ds) <= 4 * ByteDigits
  PROVE ParseHexU32(ds) = {ValueOf(ds)} /\ ValueOf(ds) \in 0 .. U32 - 1
<1>1. ds \in Seq(Character) /\ Len(ds) \in Nat /\ \A i \in 1 .. Len(ds) : ds[i] \in Digit
  BY MarksAre
<1>2. Parts(ds, TRUE, 0, <<>>, <<>>, 0)
  <2>1. <<>> \in Signs /\ <<>> \in Leads(TRUE)
    BY Zenon DEF Signs, Leads
  <2>2. 0 \in 0 .. Len(ds) - 1 /\ 0 \in 0 .. 0 /\ 1 .. 0 = {} /\ 0 + 1 .. Len(ds) = 1 .. Len(ds)
    BY <1>1
  <2>3. SubSeq(ds, 0 + 1, 0) = <<>> \o <<>>
    <3>1. Take(ds, 0) = <<>>
      BY DropAll
    <3>2. <<>> \o <<>> = <<>>
      OBVIOUS
    <3> QED BY <3>1, <3>2 DEF Take
  <2>4. \A i \in 0 + 1 .. Len(ds) : ds[i] \in Digit
    BY <1>1, <2>2
  <2> QED BY <2>1, <2>2, <2>3, <2>4 DEF Parts
<1>3. Drop(ds, 0) = ds
  BY DropAll
<1>4. ValueOf(ds) \in Nat /\ ValueOf(ds) < U32 /\ ValueOf(ds) < ULong
  <2>1. ValueOf(ds) \in 0 .. Power[Len(ds)] - 1
    BY ValueIsNumber
  <2>2. LongDigits \in Nat /\ ByteDigits \in Nat \ {0} /\ LongDigits >= 4 * ByteDigits
    BY ParseAssumption, Zenon DEF ParseAssumption
  <2>3. 4 * ByteDigits \in Nat
    BY <2>2
  <2>4. Power[Len(ds)] <= Power[4 * ByteDigits] /\ Power[4 * ByteDigits] <= Power[LongDigits]
    BY <1>1, <2>2, <2>3, PowerGrows
  <2>5. Power[Len(ds)] \in Nat /\ Power[4 * ByteDigits] \in Nat /\ Power[LongDigits] \in Nat
    BY <1>1, <2>2, <2>3, PowerPositive
  <2> QED BY <2>1, <2>4, <2>5 DEF U32, ULong
<1>5. \A v : Yields(ds, TRUE, v, 0, <<>>, <<>>, 0) <=> v = ValueOf(ds)
  <2>1. <<>> # <<"-">>
    OBVIOUS
  <2>2. Signed(<<>>, ValueOf(ds)) = ValueOf(ds)
    BY <2>1, Zenon DEF Signed
  <2> QED BY <1>2, <1>3, <1>4, <2>2 DEF Yields
<1>6. \A v : Passes(ds, TRUE, v) <=> v = ValueOf(ds)
  <2>1. TRUE \in BOOLEAN
    OBVIOUS
  <2>2. \A v : Passes(ds, TRUE, v) <=> Yields(ds, TRUE, v, 0, <<>>, <<>>, 0)
    BY <1>1, <1>2, <2>1, YieldsIs
  <2> QED BY <1>5, <2>2
<1>7. \A v : v \in ParseHexU32(ds) <=> Passes(ds, TRUE, v) /\ v < U32
  BY DEF ParseHexU32, Passes
<1>8. ParseHexU32(ds) = {ValueOf(ds)}
  BY <1>4, <1>6, <1>7
<1>9. U32 \in Nat
  <2>1. 4 * ByteDigits \in Nat
    BY ByteIs
  <2> QED BY <2>1, PowerPositive DEF U32
<1> QED BY <1>4, <1>8, <1>9

LEMMA PrefixIs ==
  ASSUME NEW s \in Seq(Character), NEW t \in Seq(Character)
  PROVE IsPrefix(s, t) <=> Len(s) <= Len(t) /\ \A i \in 1 .. Len(s) : s[i] = t[i]
<1>1. Len(s) \in Nat /\ Len(t) \in Nat /\ Take(s, Len(s)) = s
  BY DropAll
<1>2. ASSUME Len(s) <= Len(t) PROVE Take(t, Len(s)) = s <=> \A i \in 1 .. Len(s) : s[i] = t[i]
  <2>1. Len(s) \in 0 .. Len(t)
    BY <1>1, <1>2
  <2>2. /\ Take(t, Len(s)) \in Seq(Character) /\ Len(Take(t, Len(s))) = Len(s)
        /\ \A i \in 1 .. Len(s) : Take(t, Len(s))[i] = t[i]
    BY <2>1, TakeIs
  <2>3. ASSUME \A i \in 1 .. Len(s) : s[i] = t[i] PROVE Take(t, Len(s)) = s
    <3>1. \A i \in 1 .. Len(Take(t, Len(s))) : Take(t, Len(s))[i] = s[i]
      BY <2>2, <2>3
    <3> QED BY <2>2, <3>1, SameText
  <2> QED BY <2>2, <2>3
<1>3. IsPrefix(s, t) <=> Len(s) <= Len(t) /\ Take(s, Len(s)) = Take(t, Len(s))
  BY DEF IsPrefix, Take
<1> QED BY <1>1, <1>2, <1>3

Colon == ":"

LEMMA ColonIs == Colon \in Character /\ Colon \notin Digit
<1>1. ":" \in Character
  BY MarkIs, MarksAre
<1>2. \A c \in Digit : c # ":"
  BY Signals, Zenon
<1> QED BY <1>1, <1>2, Zenon DEF Colon

LEMMA WidthIs ==
  /\ ByteDigits \in Nat /\ 4 * ByteDigits \in Nat /\ 4 * ByteDigits >= 1
  /\ PortDigits \in Nat /\ PortDigits >= 1 /\ PortDigits <= 4 * ByteDigits
<1>1. ByteDigits \in Nat \ {0} /\ PortDigits \in Nat \ {0} /\ PortDigits <= 4 * ByteDigits
  BY ParseAssumption, Zenon DEF ParseAssumption
<1> QED BY <1>1

LEMMA WrittenIs ==
  ASSUME NEW o \in [1 .. 4 -> 0 .. Byte - 1], NEW port \in Nat, NEW w \in Nat
  PROVE /\ Written(o, port, w) \in Seq(Character) /\ Len(Written(o, port, w)) = 4 * ByteDigits + 1 + w
        /\ \A i \in 1 .. 4 * ByteDigits : Written(o, port, w)[i] = Printed(o)[i]
        /\ Written(o, port, w)[4 * ByteDigits + 1] = Colon
        /\ \A i \in 1 .. w : Written(o, port, w)[4 * ByteDigits + 1 + i] = Number(port, w)[i]
<1> DEFINE b == 4 * ByteDigits
           a == Printed(o)
           c == a \o <<Colon>>
           n == Number(port, w)
           t == c \o n
<1>1. Written(o, port, w) = t
  BY Zenon DEF Written, Colon
<1>2. a \in Seq(Character) /\ Len(a) = b
  BY PrintedIs, MarksAre
<1>3. n \in Seq(Character) /\ Len(n) = w
  <2>1. n \in Seq(Digit) /\ Len(n) = w
    BY NumberIs
  <2> HIDE DEF n
  <2> QED BY <2>1, MarksAre
<1>4. <<Colon>> \in Seq(Character) /\ Len(<<Colon>>) = 1 /\ <<Colon>>[1] = Colon
  BY ColonIs, Single
<1>5. b \in Nat
  BY WidthIs
<1> HIDE DEF a, b, n
<1>6. /\ c \in Seq(Character) /\ Len(c) = b + 1
      /\ \A i \in 1 .. b : c[i] = a[i]
      /\ c[b + 1] = Colon
  <2> DEFINE e == <<Colon>>
  <2>1. e \in Seq(Character) /\ Len(e) = 1 /\ e[1] = Colon
    BY <1>4
  <2> HIDE DEF e
  <2>2. /\ a \o e \in Seq(Character) /\ Len(a \o e) = Len(a) + Len(e)
        /\ \A i \in 1 .. Len(a) : (a \o e)[i] = a[i]
        /\ \A i \in 1 .. Len(e) : (a \o e)[Len(a) + i] = e[i]
    <3>1. a \in Seq(Character) /\ e \in Seq(Character)
      BY <1>2, <2>1
    <3> QED BY <3>1, ConcatIs
  <2>3. /\ a \o e \in Seq(Character) /\ Len(a \o e) = b + 1
        /\ \A i \in 1 .. b : (a \o e)[i] = a[i]
        /\ (a \o e)[b + 1] = Colon
    <3>1. 1 \in 1 .. 1
      OBVIOUS
    <3> QED BY <1>2, <2>1, <2>2, <3>1
  <2> QED BY <2>3 DEF e
<1> HIDE DEF c
<1>7. /\ t \in Seq(Character) /\ Len(t) = (b + 1) + w
      /\ \A i \in 1 .. b + 1 : t[i] = c[i]
      /\ \A i \in 1 .. w : t[(b + 1) + i] = n[i]
  <2>1. c \in Seq(Character) /\ n \in Seq(Character)
    BY <1>3, <1>6
  <2>2. /\ c \o n \in Seq(Character) /\ Len(c \o n) = Len(c) + Len(n)
        /\ \A i \in 1 .. Len(c) : (c \o n)[i] = c[i]
        /\ \A i \in 1 .. Len(n) : (c \o n)[Len(c) + i] = n[i]
    BY <2>1, ConcatIs
  <2> QED BY <1>3, <1>6, <2>2
<1> HIDE DEF t
<1>8. /\ \A i \in 1 .. b : t[i] = a[i]
      /\ t[b + 1] = Colon
  <2>1. b + 1 \in 1 .. b + 1 /\ \A i \in 1 .. b : i \in 1 .. b + 1
    BY <1>5
  <2> QED BY <1>6, <1>7, <2>1
<1>9. (b + 1) + w = b + 1 + w /\ \A i \in 1 .. w : (b + 1) + i = b + 1 + i
  BY <1>5
<1> QED BY <1>1, <1>7, <1>8, <1>9 DEF a, b, n

LEMMA WrittenPrefix ==
  ASSUME NEW s \in Seq(Character), NEW o \in [1 .. 4 -> 0 .. Byte - 1], NEW port \in Nat, NEW w \in Nat
  PROVE IsPrefix(Written(o, port, w), s) <=>
          /\ 4 * ByteDigits + 1 + w <= Len(s)
          /\ \A i \in 1 .. 4 * ByteDigits : s[i] = Printed(o)[i]
          /\ s[4 * ByteDigits + 1] = Colon
          /\ \A i \in 1 .. w : s[4 * ByteDigits + 1 + i] = Number(port, w)[i]
<1> DEFINE b == 4 * ByteDigits
           t == Written(o, port, w)
<1>1. b \in Nat
  BY WidthIs
<1>2. /\ t \in Seq(Character) /\ Len(t) = b + 1 + w
      /\ \A i \in 1 .. b : t[i] = Printed(o)[i]
      /\ t[b + 1] = Colon
      /\ \A i \in 1 .. w : t[b + 1 + i] = Number(port, w)[i]
  BY WrittenIs
<1> HIDE DEF b, t
<1>3. IsPrefix(t, s) <=> b + 1 + w <= Len(s) /\ \A i \in 1 .. b + 1 + w : t[i] = s[i]
  BY <1>2, PrefixIs
<1>4. ASSUME \A i \in 1 .. b + 1 + w : t[i] = s[i]
      PROVE /\ \A i \in 1 .. b : s[i] = Printed(o)[i]
            /\ s[b + 1] = Colon
            /\ \A i \in 1 .. w : s[b + 1 + i] = Number(port, w)[i]
  <2>1. /\ \A i \in 1 .. b : i \in 1 .. b + 1 + w
        /\ b + 1 \in 1 .. b + 1 + w
        /\ \A i \in 1 .. w : b + 1 + i \in 1 .. b + 1 + w
    BY <1>1
  <2> QED BY <1>2, <1>4, <2>1
<1>5. ASSUME \A i \in 1 .. b : s[i] = Printed(o)[i], s[b + 1] = Colon,
             \A i \in 1 .. w : s[b + 1 + i] = Number(port, w)[i],
             NEW i \in 1 .. b + 1 + w
      PROVE t[i] = s[i]
  <2>1. CASE i \in 1 .. b
    BY <1>2, <1>5, <2>1
  <2>2. CASE i = b + 1
    BY <1>2, <1>5, <2>2
  <2>3. CASE i > b + 1
    <3>1. i - (b + 1) \in 1 .. w /\ b + 1 + (i - (b + 1)) = i
      BY <1>1, <2>3
    <3> QED BY <1>2, <1>5, <3>1
  <2> QED BY <1>1, <2>1, <2>2, <2>3
<1>6. IsPrefix(t, s) <=>
        /\ b + 1 + w <= Len(s)
        /\ \A i \in 1 .. b : s[i] = Printed(o)[i]
        /\ s[b + 1] = Colon
        /\ \A i \in 1 .. w : s[b + 1 + i] = Number(port, w)[i]
  BY <1>3, <1>4, <1>5
<1> QED BY <1>6 DEF b, t

\* Where parse_addr_port reads digits, and how many of them.
AddrLen(s) == Lesser(Span(s, Digit), 4 * ByteDigits)
PortText(s) == Drop(s, AddrLen(s) + 1)
PortLen(s) == Lesser(Span(PortText(s), Digit), PortDigits)
Passed(s) == AddrLen(s) > 0 /\ Len(s) > AddrLen(s) /\ s[AddrLen(s) + 1] = Colon /\ PortLen(s) > 0

LEMMA AddrPortIs ==
  ASSUME NEW s
  PROVE ParseAddrPort(s) = IF Passed(s)
                           THEN Ipv4HexLe(Take(s, AddrLen(s))) \X ParseHexU32(Take(PortText(s), PortLen(s)))
                           ELSE {}
BY Zenon DEF ParseAddrPort, Passed, AddrLen, PortText, PortLen, Colon

\* As many digits as there are, up to a limit.
LEMMA DigitsUpTo ==
  ASSUME NEW s \in Seq(Character), NEW n \in Nat
  PROVE LET a == Lesser(Span(s, Digit), n)
        IN  /\ a \in 0 .. Len(s) /\ a <= n /\ (a = n \/ a = Len(s) \/ s[a + 1] \notin Digit)
            /\ \A i \in 1 .. a : s[i] \in Digit
            /\ Take(s, a) \in Seq(Digit) /\ Len(Take(s, a)) = a /\ \A i \in 1 .. a : Take(s, a)[i] = s[i]
<1> DEFINE l == Span(s, Digit)
           a == Lesser(l, n)
<1>1. l \in 0 .. Len(s) /\ Spans(s, Digit, l)
  BY SpanIs
<1> HIDE DEF l
<1>2. /\ a \in 0 .. Len(s) /\ a <= n /\ (a = n \/ a = Len(s) \/ s[a + 1] \notin Digit)
      /\ \A i \in 1 .. a : s[i] \in Digit
  BY <1>1 DEF Lesser, Spans
<1> HIDE DEF a
<1>3. /\ Take(s, a) \in Seq(Character) /\ Len(Take(s, a)) = a
      /\ \A i \in 1 .. a : Take(s, a)[i] = s[i]
  BY <1>2, TakeIs
<1>4. Take(s, a) \in Seq(Digit)
  BY <1>2, <1>3, Restricted
<1> QED BY <1>2, <1>3, <1>4 DEF a, l

\* A limit that is reached, or the last of the digits.
LEMMA DigitsAre ==
  ASSUME NEW s \in Seq(Character), NEW n \in Nat, NEW w \in 0 .. Len(s), w <= n,
         \A i \in 1 .. w : s[i] \in Digit, w = n \/ w = Len(s) \/ s[w + 1] \notin Digit
  PROVE Lesser(Span(s, Digit), n) = w
<1> DEFINE l == Span(s, Digit)
<1>1. l \in 0 .. Len(s) /\ Spans(s, Digit, l)
  BY SpanIs
<1> HIDE DEF l
<1>2. ~ l < w
  <2> SUFFICES ASSUME l < w PROVE FALSE
    OBVIOUS
  <2>1. l + 1 \in 1 .. w /\ l # Len(s)
    BY <1>1
  <2> QED BY <1>1, <2>1 DEF Spans
<1>3. l > w => w = n
  <2> SUFFICES ASSUME l > w PROVE w = n
    OBVIOUS
  <2>1. w + 1 \in 1 .. l /\ w # Len(s)
    BY <1>1
  <2> QED BY <1>1, <2>1 DEF Spans
<1>4. Lesser(l, n) = w
  BY <1>1, <1>2, <1>3 DEF Lesser
<1> QED BY <1>4 DEF l

LEMMA AddressOfText ==
  ASSUME NEW s \in Seq(Character), NEW x \in ParseAddrPort(s)
  PROVE /\ x \in [1 .. 4 -> 0 .. Byte - 1] \X (0 .. Power[PortDigits] - 1)
        /\ Shows(s, x[1], x[2])
<1> DEFINE b == 4 * ByteDigits
           a == AddrLen(s)
           t == PortText(s)
           p == PortLen(s)
           addr == Take(s, a)
           digits == Take(t, p)
<1>1. Passed(s) /\ x \in Ipv4HexLe(addr) \X ParseHexU32(digits)
  <2>1. Passed(s)
    BY AddrPortIs
  <2> QED BY <2>1, AddrPortIs
<1>2. b \in Nat /\ PortDigits \in Nat /\ PortDigits >= 1 /\ PortDigits <= b
  BY WidthIs
<1> HIDE DEF b
<1>3. /\ a \in 0 .. Len(s) /\ addr \in Seq(Digit) /\ Len(addr) = a
      /\ \A i \in 1 .. a : addr[i] = s[i]
  BY <1>2, DigitsUpTo DEF AddrLen, b
<1>4. a > 0 /\ Len(s) > a /\ s[a + 1] = Colon /\ p > 0
  BY <1>1 DEF Passed
<1> HIDE DEF a, addr
<1>5. a = b
  <2>1. Ipv4HexLe(addr) # {}
    BY <1>1
  <2>2. Len(addr) = b
    BY <2>1 DEF Ipv4HexLe, b
  <2> QED BY <1>3, <2>2
<1>6. /\ t \in Seq(Character) /\ Len(t) = Len(s) - (b + 1)
      /\ \A i \in 1 .. Len(s) - (b + 1) : t[i] = s[(b + 1) + i]
  <2>1. t = Drop(s, b + 1)
    BY <1>5 DEF PortText, a
  <2>2. b + 1 \in 0 .. Len(s)
    BY <1>2, <1>3, <1>4, <1>5
  <2> HIDE DEF t
  <2> QED BY <2>1, <2>2, DropIs
<1> HIDE DEF t
<1>7. /\ p \in 0 .. Len(t) /\ p <= PortDigits /\ (p = PortDigits \/ p = Len(t) \/ t[p + 1] \notin Digit)
      /\ digits \in Seq(Digit) /\ Len(digits) = p
      /\ \A i \in 1 .. p : digits[i] = t[i]
  BY <1>2, <1>6, DigitsUpTo DEF PortLen, t
<1> HIDE DEF p, digits
<1> DEFINE v == ValueOf(addr)
           port == ValueOf(digits)
<1>8. x = <<Octets(v), port>> /\ v \in 0 .. U32 - 1
  <2>1. ParseHexU32(addr) = {v} /\ v \in 0 .. U32 - 1
    BY <1>2, <1>3, <1>4, <1>5, HexOfDigits DEF b
  <2>2. ParseHexU32(digits) = {port}
    <3>1. Len(digits) > 0 /\ Len(digits) <= 4 * ByteDigits
      BY <1>2, <1>4, <1>7 DEF b
    <3> QED BY <1>7, <3>1, HexOfDigits
  <2>3. Ipv4HexLe(addr) = {Octets(v)}
    <3>1. Len(addr) = 4 * ByteDigits
      BY <1>3, <1>5 DEF b
    <3> HIDE DEF v
    <3> QED BY <2>1, <3>1 DEF Ipv4HexLe
  <2> HIDE DEF v, port
  <2> QED BY <1>1, <2>1, <2>2, <2>3
<1>9. v \in 0 .. U32 - 1 /\ Number(v, b) = addr
  BY <1>3, <1>5, <1>8, ValueIsNumber
<1>10. port \in 0 .. Power[p] - 1 /\ Number(port, p) = digits
  BY <1>7, ValueIsNumber
<1> HIDE DEF v, port
<1>11. Octets(v) \in [1 .. 4 -> 0 .. Byte - 1] /\ Printed(Octets(v)) = addr
  BY <1>9, OctetsPrinted DEF b
<1>12. p \in Nat /\ p \in 1 .. PortDigits /\ port \in Nat /\ port < Power[p] /\ port \in 0 .. Power[PortDigits] - 1
  <2>1. p \in Nat /\ p \in 1 .. PortDigits
    BY <1>2, <1>4, <1>6, <1>7
  <2>2. Power[p] <= Power[PortDigits] /\ Power[p] \in Nat /\ Power[PortDigits] \in Nat
    BY <1>2, <2>1, PowerGrows, PowerPositive
  <2> QED BY <1>10, <2>1, <2>2
<1>13. IsPrefix(Written(Octets(v), port, p), s)
  <2>1. b + 1 + p <= Len(s)
    BY <1>2, <1>3, <1>4, <1>5, <1>6, <1>7
  <2>2. \A i \in 1 .. b : s[i] = Printed(Octets(v))[i]
    BY <1>3, <1>5, <1>11
  <2>3. s[b + 1] = Colon
    BY <1>4, <1>5
  <2>4. ASSUME NEW i \in 1 .. p PROVE s[b + 1 + i] = Number(port, p)[i]
    <3>1. i \in 1 .. Len(s) - (b + 1) /\ (b + 1) + i = b + 1 + i
      BY <1>2, <1>6, <1>7
    <3>2. t[i] = s[b + 1 + i]
      BY <1>6, <3>1
    <3> QED BY <1>7, <1>10, <3>2
  <2> QED BY <1>11, <1>12, <2>1, <2>2, <2>3, <2>4, WrittenPrefix DEF b
<1>14. p = PortDigits \/ Len(s) = b + 1 + p \/ s[b + 2 + p] \notin Digit
  <2> SUFFICES ASSUME p # Len(t), t[p + 1] \notin Digit PROVE s[b + 2 + p] \notin Digit
    <3>1. p = Len(t) => Len(s) = b + 1 + p
      BY <1>2, <1>3, <1>6
    <3> QED BY <1>7, <3>1
  <2>1. p + 1 \in 1 .. Len(s) - (b + 1) /\ (b + 1) + (p + 1) = b + 2 + p
    <3>1. b \in Nat /\ Len(s) \in Nat /\ p \in 0 .. Len(s) - (b + 1) /\ p # Len(s) - (b + 1)
      BY <1>2, <1>3, <1>6, <1>7
    <3> HIDE <1>6, <1>7
    <3> QED BY <3>1
  <2> QED BY <1>6, <2>1
<1>15. Shows(s, Octets(v), port)
  BY <1>12, <1>13, <1>14 DEF Shows, b
<1> QED BY <1>8, <1>11, <1>12, <1>15

LEMMA TextOfAddress ==
  ASSUME NEW s \in Seq(Character), NEW o \in [1 .. 4 -> 0 .. Byte - 1], NEW port \in 0 .. Power[PortDigits] - 1,
         Shows(s, o, port)
  PROVE <<o, port>> \in ParseAddrPort(s)
<1> DEFINE b == 4 * ByteDigits
           addr == Printed(o)
<1>1. b \in Nat /\ b >= 1 /\ PortDigits \in Nat /\ PortDigits >= 1 /\ PortDigits <= b /\ port \in Nat
  BY WidthIs, PowerPositive
<1>2. PICK w \in 1 .. PortDigits :
        /\ port < Power[w] /\ IsPrefix(Written(o, port, w), s)
        /\ w = PortDigits \/ Len(s) = b + 1 + w \/ s[b + 2 + w] \notin Digit
  BY DEF Shows
<1>3. w \in Nat /\ w >= 1 /\ w <= PortDigits
  BY <1>1
<1>4. /\ b + 1 + w <= Len(s)
      /\ \A i \in 1 .. b : s[i] = addr[i]
      /\ s[b + 1] = Colon
      /\ \A i \in 1 .. w : s[b + 1 + i] = Number(port, w)[i]
  BY <1>1, <1>2, <1>3, WrittenPrefix
<1>5. addr \in Seq(Digit) /\ Len(addr) = b
  BY PrintedIs
<1> HIDE DEF b, addr
<1>6. Len(s) \in Nat /\ b \in 0 .. Len(s) /\ b + 1 \in 0 .. Len(s)
  BY <1>1, <1>3, <1>4
<1>7. AddrLen(s) = b
  <2>1. \A i \in 1 .. b : s[i] \in Digit
    BY <1>4, <1>5
  <2> QED BY <1>1, <1>6, <2>1, DigitsAre DEF AddrLen, b
<1>8. Take(s, b) = addr
  <2>1. Take(s, b) \in Seq(Character) /\ Len(Take(s, b)) = b /\ \A i \in 1 .. b : Take(s, b)[i] = s[i]
    BY <1>6, TakeIs
  <2> QED BY <1>4, <1>5, <2>1, SameText
<1> DEFINE v == ValueOf(addr)
<1>9. ParseHexU32(addr) = {v} /\ v \in 0 .. U32 - 1 /\ Number(v, b) = addr
  BY <1>1, <1>5, HexOfDigits, ValueIsNumber DEF b
<1> HIDE DEF v
<1>10. Octets(v) = o
  <2>1. Octets(v) \in [1 .. 4 -> 0 .. Byte - 1] /\ Printed(Octets(v)) = Printed(o)
    BY <1>9, OctetsPrinted DEF b, addr
  <2> QED BY <2>1, PrintedUnique
<1>11. Ipv4HexLe(Take(s, AddrLen(s))) = {o}
  BY <1>5, <1>7, <1>8, <1>9, <1>10 DEF Ipv4HexLe, b
<1> DEFINE t == Drop(s, b + 1)
<1>12. /\ t \in Seq(Character) /\ Len(t) = Len(s) - (b + 1)
       /\ \A i \in 1 .. Len(s) - (b + 1) : t[i] = s[(b + 1) + i]
  BY <1>6, DropIs
<1>13. PortText(s) = t
  BY <1>7 DEF PortText
<1> HIDE DEF t
<1> DEFINE digits == Number(port, w)
<1>14. digits \in Seq(Digit) /\ Len(digits) = w /\ ValueOf(digits) = port
  <2>1. port \in 0 .. Power[w] - 1
    BY <1>1, <1>2, <1>3, PowerPositive
  <2> QED BY <1>3, <2>1, ValueIsPrinted
<1> HIDE DEF digits
<1>15. w \in 0 .. Len(t) /\ \A i \in 1 .. w : t[i] = digits[i]
  <2>1. w \in 0 .. Len(t)
    BY <1>1, <1>3, <1>4, <1>6, <1>12
  <2>2. ASSUME NEW i \in 1 .. w PROVE t[i] = digits[i]
    <3>1. i \in 1 .. Len(s) - (b + 1) /\ (b + 1) + i = b + 1 + i
      BY <1>1, <1>3, <1>4, <1>6
    <3> QED BY <1>4, <1>12, <3>1 DEF digits
  <2> QED BY <2>1, <2>2
<1>16. PortLen(s) = w
  <2>1. \A i \in 1 .. w : t[i] \in Digit
    BY <1>14, <1>15
  <2>2. w = PortDigits \/ w = Len(t) \/ t[w + 1] \notin Digit
    <3>1. Len(s) = b + 1 + w => w = Len(t)
      BY <1>1, <1>3, <1>12
    <3>2. ASSUME w # Len(t) PROVE t[w + 1] = s[b + 2 + w]
      <4>1. w + 1 \in 1 .. Len(s) - (b + 1) /\ (b + 1) + (w + 1) = b + 2 + w
        BY <1>1, <1>3, <1>6, <1>12, <1>15, <3>2
      <4> QED BY <1>12, <4>1
    <3> QED BY <1>2, <3>1, <3>2
  <2>3. Lesser(Span(t, Digit), PortDigits) = w
    BY <1>1, <1>3, <1>12, <1>15, <2>1, <2>2, DigitsAre
  <2> QED BY <1>13, <2>3 DEF PortLen
<1>17. Take(t, w) = digits
  <2>1. Take(t, w) \in Seq(Character) /\ Len(Take(t, w)) = w /\ \A i \in 1 .. w : Take(t, w)[i] = t[i]
    BY <1>12, <1>15, TakeIs
  <2> QED BY <1>14, <1>15, <2>1, SameText
<1>18. ParseHexU32(Take(PortText(s), PortLen(s))) = {port}
  <2>1. Len(digits) > 0 /\ Len(digits) <= 4 * ByteDigits
    BY <1>1, <1>3, <1>14 DEF b
  <2>2. ParseHexU32(digits) = {ValueOf(digits)}
    BY <1>14, <2>1, HexOfDigits
  <2> QED BY <1>13, <1>14, <1>16, <1>17, <2>2
<1>19. Passed(s)
  BY <1>1, <1>3, <1>4, <1>6, <1>7, <1>16 DEF Passed
<1> QED BY <1>11, <1>18, <1>19, AddrPortIs

\* What parse_addr_port takes from a field.
LEMMA AddressIs ==
  ASSUME NEW s \in Seq(Character)
  PROVE ParseAddrPort(s) =
          {a \in [1 .. 4 -> 0 .. Byte - 1] \X (0 .. Power[PortDigits] - 1) : Shows(s, a[1], a[2])}
<1> DEFINE All == [1 .. 4 -> 0 .. Byte - 1] \X (0 .. Power[PortDigits] - 1)
<1>1. \A x \in ParseAddrPort(s) : x \in All /\ Shows(s, x[1], x[2])
  BY AddressOfText
<1>2. ASSUME NEW x \in All, Shows(s, x[1], x[2]) PROVE x \in ParseAddrPort(s)
  <2>1. x[1] \in [1 .. 4 -> 0 .. Byte - 1] /\ x[2] \in 0 .. Power[PortDigits] - 1 /\ x = <<x[1], x[2]>>
    OBVIOUS
  <2>2. <<x[1], x[2]>> \in ParseAddrPort(s)
    BY <1>2, <2>1, TextOfAddress
  <2> QED BY <2>1, <2>2
<1> HIDE DEF All
<1>3. ParseAddrPort(s) = {a \in All : Shows(s, a[1], a[2])}
  BY <1>1, <1>2
<1> QED BY <1>3 DEF All

-----------------------------------------------------------------------------
(* The line of a process.                                                  *)

\* Any number that is scanned: the digits from m + 1 to q, and what follows.
Scanned(s, hex, m, q) ==
    /\ m < q /\ q <= Len(s)
    /\ \A i \in m + 1 .. q : s[i] \in Digit
    /\ q = Len(s) \/ s[q + 1] \notin Digit
    /\ Scan(s, hex).rest = Drop(s, q) /\ Scan(s, hex).value \in Nat

LEMMA ScanFinds ==
  ASSUME NEW s \in Seq(Character), NEW hex \in BOOLEAN, Scan(s, hex).found
  PROVE \E m, q \in Nat : Scanned(s, hex, m, q)
<1> DEFINE n == Span(s, White)
           body == Drop(s, n)
           l == Span(body, Plusses)
           k == Lesser(l, 1)
           sign == Take(body, k)
           tail == Drop(body, k)
           p == PrefixLen(tail, hex)
           digits == Drop(tail, p)
           z == Span(digits, Digit)
<1>1. n \in 0 .. Len(s)
  BY SpanIs
<1> HIDE DEF n
<1>2. body \in Seq(Character) /\ Len(body) = Len(s) - n
  BY <1>1, DropIs
<1> HIDE DEF body
<1>3. l \in 0 .. Len(body)
  BY <1>2, SpanIs
<1> HIDE DEF l
<1>4. /\ Len(s) \in Nat /\ n \in Nat /\ k \in Nat /\ k \in 0 .. Len(body)
      /\ n + k \in 0 .. Len(s) /\ k \in 0 .. Len(s) - n
  BY <1>1, <1>2, <1>3 DEF Lesser
<1> HIDE DEF k
<1>5. Len(sign) = k
  BY <1>2, <1>4, TakeIs
<1> HIDE DEF sign
<1>6. tail = Drop(s, n + k) /\ tail \in Seq(Character) /\ Len(tail) = Len(s) - (n + k)
  <2>1. tail = Drop(s, n + k)
    BY <1>1, <1>4, DropTwice DEF body
  <2> HIDE DEF tail
  <2> QED BY <1>4, <2>1, DropIs
<1> HIDE DEF tail
<1>7. p \in Nat /\ p <= Len(tail)
  BY <1>6 DEF PrefixLen
<1> HIDE DEF p
<1> DEFINE m == (n + k) + p
<1>8. m \in Nat /\ m \in 0 .. Len(s) /\ p \in 0 .. Len(s) - (n + k)
  BY <1>4, <1>6, <1>7
<1>9. /\ digits = Drop(s, m) /\ digits \in Seq(Character) /\ Len(digits) = Len(s) - m
      /\ \A i \in 1 .. Len(s) - m : digits[i] = s[m + i]
  <2>1. digits = Drop(s, m)
    BY <1>4, <1>6, <1>8, DropTwice
  <2> HIDE DEF digits, m
  <2> QED BY <1>8, <2>1, DropIs
<1> HIDE DEF digits, m
<1>10. z \in 0 .. Len(digits) /\ Spans(digits, Digit, z) /\ z \in Nat
  BY <1>9, SpanIs
<1> HIDE DEF z
<1>11. Scan(s, hex) = [found |-> z > 0, negative |-> sign = Minus, value |-> ValueOf(Take(digits, z)),
                       rest |-> IF z > 0 THEN Drop(digits, z) ELSE s]
  <2>1. body = Drop(s, Span(s, White)) /\ sign = Take(body, Lesser(Span(body, Plusses), 1))
    BY DEF body, n, sign, k, l
  <2>2. tail = Drop(body, Len(sign)) /\ digits = Drop(tail, PrefixLen(tail, hex)) /\ z = Span(digits, Digit)
    BY <1>5 DEF tail, p, digits, z
  <2> QED BY <2>1, <2>2, ScanIs
<1>12. z > 0
  BY <1>10, <1>11, FoundIs, Zenon
<1>13. Scan(s, hex).rest = Drop(digits, z) /\ Scan(s, hex).value = ValueOf(Take(digits, z))
  BY <1>11, <1>12
<1> DEFINE q == m + z
<1>14. q \in Nat /\ m < q /\ q <= Len(s) /\ z \in 0 .. Len(s) - m
  BY <1>4, <1>8, <1>9, <1>10, <1>12
<1>15. Drop(digits, z) = Drop(s, q)
  BY <1>8, <1>9, <1>14, DropTwice
<1>16. ASSUME NEW i \in m + 1 .. q PROVE s[i] \in Digit
  <2>1. i - m \in 1 .. z /\ i - m \in 1 .. Len(s) - m /\ m + (i - m) = i
    BY <1>8, <1>14
  <2>2. digits[i - m] \in Digit
    BY <1>10, <2>1 DEF Spans
  <2> QED BY <1>9, <2>1, <2>2
<1>17. q = Len(s) \/ s[q + 1] \notin Digit
  <2>1. CASE z = Len(digits)
    BY <1>4, <1>8, <1>9, <2>1
  <2>2. CASE z # Len(digits)
    <3>1. digits[z + 1] \notin Digit
      BY <1>10, <2>2 DEF Spans
    <3>2. z + 1 \in 1 .. Len(s) - m /\ m + (z + 1) = q + 1
      <4>1. Len(s) \in Nat /\ m \in Nat /\ z \in Nat /\ z \in 0 .. Len(s) - m /\ z # Len(s) - m
        BY <1>4, <1>8, <1>9, <1>10, <2>2
      <4> QED BY <4>1
    <3> QED BY <1>9, <3>1, <3>2
  <2> QED BY <2>1, <2>2
<1>18. ValueOf(Take(digits, z)) \in Nat
  <2> DEFINE ds == Take(digits, z)
  <2>1. ds \in Seq(Character) /\ Len(ds) = z /\ \A i \in 1 .. z : ds[i] = digits[i]
    BY <1>9, <1>10, TakeIs
  <2> HIDE DEF ds
  <2>2. \A i \in 1 .. Len(ds) : ds[i] \in Digit
    BY <1>10, <2>1 DEF Spans
  <2>3. ds \in Seq(Digit) /\ Len(ds) \in Nat
    BY <2>1, <2>2, Restricted
  <2>4. ValueOf(ds) \in 0 .. Power[Len(ds)] - 1
    BY <2>3, ValueIsNumber
  <2> QED BY <2>3, <2>4, PowerPositive DEF ds
<1> HIDE DEF q
<1>19. Scanned(s, hex, m, q)
  BY <1>13, <1>14, <1>15, <1>16, <1>17, <1>18 DEF Scanned
<1> QED BY <1>8, <1>14, <1>19

\* A blank, a digit and the end of a number.
LEMMA ScanField ==
  ASSUME NEW s \in Seq(Character), Len(s) >= 3, s[1] \in White, s[2] \in Digit, s[3] \notin Digit
  PROVE /\ Scan(s, FALSE).found /\ Scan(s, FALSE).value = ValueOf(<<s[2]>>)
        /\ Scan(s, FALSE).rest = Drop(s, 2)
<1>1. Len(s) \in Nat /\ 1 \in 0 .. Len(s) /\ 1 \in 0 .. Len(s) - 1 /\ 1 + 1 = 2
  OBVIOUS
<1>2. Span(s, White) = 1
  <2>1. s[2] \notin White
    BY Signals
  <2>2. Spans(s, White, 1)
    BY <2>1 DEF Spans
  <2> QED BY <1>1, <2>2, SpanOnly
<1> DEFINE body == Drop(s, 1)
<1>3. /\ body \in Seq(Character) /\ Len(body) = Len(s) - 1 /\ body[1] = s[2] /\ body[2] = s[3]
  <2>1. /\ body \in Seq(Character) /\ Len(body) = Len(s) - 1
        /\ \A i \in 1 .. Len(s) - 1 : body[i] = s[1 + i]
    BY <1>1, DropIs
  <2> HIDE DEF body
  <2>2. 1 \in 1 .. Len(s) - 1 /\ 2 \in 1 .. Len(s) - 1
    BY <1>1
  <2> QED BY <2>1, <2>2
<1>4. Drop(body, 1) = Drop(s, 2)
  BY <1>1, DropTwice
<1> HIDE DEF body
<1>5. Span(body, Plusses) = 0
  <2>1. body[1] \notin Plusses
    BY <1>3, Signals
  <2>2. 0 \in 0 .. Len(body) /\ Spans(body, Plusses, 0)
    BY <1>1, <1>3, <2>1 DEF Spans
  <2> QED BY <1>3, <2>2, SpanOnly
<1>6. Lesser(Span(body, Plusses), 1) = 0 /\ Take(body, 0) = <<>> /\ Drop(body, 0) = body /\ Len(<<>>) = 0
  BY <1>3, <1>5, DropAll DEF Lesser
<1>7. PrefixLen(body, FALSE) = 0
  BY DEF PrefixLen
<1>8. Span(body, Digit) = 1
  <2>1. 1 \in 0 .. Len(body) /\ Spans(body, Digit, 1)
    BY <1>1, <1>3 DEF Spans
  <2> QED BY <1>3, <2>1, SpanOnly
<1>9. Take(body, 1) = <<s[2]>>
  <2>1. 1 \in 0 .. Len(body)
    BY <1>1, <1>3
  <2> DEFINE t == Take(body, 1)
  <2>2. t \in Seq(Character) /\ Len(t) = 1 /\ \A i \in 1 .. 1 : t[i] = body[i]
    BY <1>3, <2>1, TakeIs
  <2> HIDE DEF t
  <2>3. t = <<s[2]>>
    BY <1>3, <2>2
  <2> QED BY <2>3 DEF t
<1> DEFINE hex == FALSE
           sign == Take(body, Lesser(Span(body, Plusses), 1))
           tail == Drop(body, Len(sign))
           digits == Drop(tail, PrefixLen(tail, hex))
           n == Span(digits, Digit)
           v == ValueOf(Take(digits, n))
           t == Drop(digits, n)
           r == Scan(s, hex)
<1>10. tail = body /\ digits = body /\ n = 1 /\ body = Drop(s, Span(s, White))
  BY <1>2, <1>6, <1>7, <1>8 DEF body
<1>11. r = [found |-> n > 0, negative |-> sign = Minus, value |-> v, rest |-> IF n > 0 THEN t ELSE s]
  <2> HIDE DEF hex, sign, tail, digits, n
  <2>1. /\ body = Drop(s, Span(s, White)) /\ sign = Take(body, Lesser(Span(body, Plusses), 1))
        /\ tail = Drop(body, Len(sign))
    BY <1>10 DEF sign, tail
  <2>2. digits = Drop(tail, PrefixLen(tail, hex)) /\ n = Span(digits, Digit)
    BY DEF digits, n
  <2> QED BY <2>1, <2>2, ScanIs
<1> HIDE DEF hex, sign, tail, digits, n, v, t, r
<1>12. n > 0 /\ v = ValueOf(Take(body, 1)) /\ t = Drop(body, 1)
  BY <1>10 DEF v, t
<1>13. r.found /\ r.value = v /\ r.rest = t
  BY <1>11, <1>12
<1> QED BY <1>4, <1>9, <1>12, <1>13 DEF r, hex

\* What a conversion of sscanf leaves for the next one.
Scans == [ok : BOOLEAN, rest : Seq(Character), numbers : Seq(Nat)]

LEMMA NextIs ==
  ASSUME NEW st \in Scans
  PROVE ScanNext(st) \in Scans
<1>1. st.ok \in BOOLEAN /\ st.rest \in Seq(Character) /\ st.numbers \in Seq(Nat)
  BY DEF Scans
<1> DEFINE r == Scan(st.rest, FALSE)
<1>2. CASE st.ok /\ r.found
  <2>1. FALSE \in BOOLEAN
    OBVIOUS
  <2>2. PICK m \in Nat, q \in Nat : Scanned(st.rest, FALSE, m, q)
    BY <1>1, <1>2, <2>1, ScanFinds
  <2>7. q <= Len(st.rest) /\ r.rest = Drop(st.rest, q) /\ r.value \in Nat
    BY <2>2, Zenon DEF Scanned
  <2>3. q \in 0 .. Len(st.rest)
    BY <1>1, <2>7
  <2>4. r.rest \in Seq(Character)
    BY <1>1, <2>3, <2>7, DropIs
  <2>5. Append(st.numbers, r.value) \in Seq(Nat)
    <3>1. r.value \in Nat /\ st.numbers \in Seq(Nat)
      BY <1>1, <2>7
    <3> HIDE DEF r
    <3> QED BY <3>1
  <2>6. ScanNext(st) = [ok |-> TRUE, rest |-> r.rest, numbers |-> Append(st.numbers, r.value)]
    BY <1>2, Zenon DEF ScanNext
  <2> HIDE DEF r
  <2> QED BY <2>4, <2>5, <2>6 DEF Scans
<1>3. CASE ~ (st.ok /\ r.found)
  <2>1. ScanNext(st) = [st EXCEPT !.ok = FALSE]
    BY <1>3, Zenon DEF ScanNext
  <2> QED BY <2>1 DEF Scans
<1> QED BY <1>2, <1>3

LEMMA ScanSteps ==
  ASSUME NEW s \in Seq(Character)
  PROVE \E f \in [0 .. Conversions -> Scans] :
          /\ f[0] = [ok |-> TRUE, rest |-> s, numbers |-> <<>>] /\ ScanNumbers(s) = f[Conversions]
          /\ \A i \in 0 .. Conversions - 1 : f[i + 1] = ScanNext(f[i])
<1> DEFINE first == [ok |-> TRUE, rest |-> s, numbers |-> <<>>]
           step == [p \in Nat \X Scans |-> ScanNext(p[2])]
           Rec(g) == g = [i \in 0 .. Conversions |-> IF i = 0 THEN first ELSE ScanNext(g[i - 1])]
<1>1. first \in Scans
  BY DEF Scans
<1>2. step \in [Nat \X Scans -> Scans]
  BY NextIs
<1>3. Conversions \in Nat
  <2>1. Before \in Nat
    BY ParseAssumption, Zenon DEF ParseAssumption
  <2> QED BY <2>1 DEF Conversions, Skipped
<1> HIDE DEF first
<1>4. PICK f \in [Nat -> Scans] : Iterates(f, first, step)
  <2> HIDE DEF step
  <2> QED BY <1>1, <1>2, Iteration
<1>5. f[0] = first
  BY <1>4 DEF Iterates
<1>6. ASSUME NEW n \in Nat PROVE f[n + 1] = ScanNext(f[n])
  <2>1. f[n] \in Scans /\ n + 1 \in Nat
    OBVIOUS
  <2>2. f[n + 1] = step[<<n + 1, f[n]>>]
    BY <1>4 DEF Iterates
  <2> QED BY <2>1, <2>2
<1> DEFINE v == [i \in 0 .. Conversions |-> f[i]]
<1>7. Rec(v)
  <2>1. ASSUME NEW i \in 0 .. Conversions PROVE v[i] = IF i = 0 THEN first ELSE ScanNext(v[i - 1])
    <3>1. CASE i = 0
      BY <1>5, <3>1
    <3>2. CASE i # 0
      <4>1. i - 1 \in Nat /\ i - 1 \in 0 .. Conversions /\ (i - 1) + 1 = i
        BY <1>3, <3>2
      <4>2. f[(i - 1) + 1] = ScanNext(f[i - 1])
        BY <1>6, <4>1
      <4> QED BY <3>2, <4>1, <4>2
    <3> QED BY <3>1, <3>2
  <2> QED BY <2>1
<1> DEFINE u == CHOOSE g : Rec(g)
<1>8. Rec(u)
  <2> HIDE DEF Rec, v
  <2> QED BY <1>7
<1>9. ScanNumbers(s) = u[Conversions]
  BY Zenon DEF ScanNumbers, first
<1> HIDE DEF u, v
<1>10. u[0] = first /\ \A i \in 0 .. Conversions - 1 : u[i + 1] = ScanNext(u[i])
  <2>1. \A i \in 0 .. Conversions : u[i] = IF i = 0 THEN first ELSE ScanNext(u[i - 1])
    BY <1>8
  <2>2. ASSUME NEW i \in 0 .. Conversions - 1 PROVE u[i + 1] = ScanNext(u[i])
    <3>1. i + 1 \in 0 .. Conversions /\ i + 1 # 0 /\ (i + 1) - 1 = i
      BY <1>3
    <3> QED BY <2>1, <3>1
  <2> QED BY <1>3, <2>1, <2>2
<1>11. ASSUME NEW i \in 0 .. Conversions PROVE u[i] \in Scans
  <2> DEFINE S == {k \in Nat : k <= Conversions => u[k] \in Scans}
  <2>1. 0 \in S
    BY <1>1, <1>10
  <2>2. ASSUME NEW k \in Nat, k \in S PROVE k + 1 \in S
    <3> SUFFICES ASSUME k + 1 <= Conversions PROVE u[k + 1] \in Scans
      OBVIOUS
    <3>1. k \in 0 .. Conversions - 1 /\ u[k] \in Scans
      BY <1>3, <2>2
    <3> QED BY <1>10, <3>1, NextIs
  <2>3. Nat \subseteq S
    <3> HIDE DEF S
    <3> QED BY <2>1, <2>2, SetInduction
  <2> QED BY <1>3, <2>3
<1>12. u \in [0 .. Conversions -> Scans]
  BY <1>8, <1>11
<1> QED BY <1>9, <1>10, <1>12 DEF first

LineFeed == "\n"
Blank == " "
Open == "("
Close == ")"
One == "1"
States == {"R", "S"}

LEMMA StatMarks ==
  /\ LineFeed \in Character /\ Blank \in Character /\ Open \in Character /\ Close \in Character
  /\ One \in Character /\ States \subseteq Character
  /\ One # LineFeed /\ Blank # LineFeed /\ Open # LineFeed /\ Close # LineFeed
  /\ One # Open /\ Blank # Open /\ LineFeed # Close /\ Blank # Close /\ One # Close /\ Open # Close
  /\ LineFeed \in White /\ Blank \in White
  /\ LineFeed \notin Digit /\ Blank \notin Digit /\ Open \notin Digit /\ Close \notin Digit
  /\ \A c \in States : c # LineFeed /\ c # Close
<1>1. \A c \in Marks : c \in Character
  BY MarksAre
<1>2. /\ "1" \in Character /\ "(" \in Character /\ ")" \in Character /\ " " \in Character
      /\ "\n" \in Character /\ "R" \in Character /\ "S" \in Character
  BY <1>1, MarkIs, Zenon
<1>3. \A c \in Digit : c \notin White /\ c \notin {"x", ":", "(", ")"}
  BY Signals
<1>4. " " \in White /\ "\n" \in White
  BY Zenon DEF White
<1>5. " " \notin Digit /\ "\n" \notin Digit
  BY <1>3, <1>4, Zenon
<1>6. "(" \notin Digit /\ ")" \notin Digit
  BY <1>3, Zenon
<1>7. "1" # "\n" /\ " " # "\n" /\ "(" # "\n" /\ ")" # "\n" /\ "1" # "(" /\ " " # "(" /\ "\n" # ")" /\ " " # ")"
      /\ "1" # ")" /\ "(" # ")"
  BY Zenon
<1>8. "R" # "\n" /\ "R" # ")" /\ "S" # "\n" /\ "S" # ")"
  BY Zenon
<1>9. States \subseteq Character
  BY <1>2, Zenon DEF States
<1>10. \A c \in States : c # "\n" /\ c # ")"
  BY <1>8, Zenon DEF States
<1> QED BY <1>2, <1>4, <1>5, <1>6, <1>7, <1>9, <1>10, Zenon DEF LineFeed, Blank, Open, Close, One

LEMMA Triple ==
  ASSUME NEW V, NEW a \in V, NEW b \in V, NEW c \in V
  PROVE /\ <<a, b, c>> \in Seq(V) /\ Len(<<a, b, c>>) = 3
        /\ <<a, b, c>>[1] = a /\ <<a, b, c>>[2] = b /\ <<a, b, c>>[3] = c
OBVIOUS

\* The characters of a line, by their places.
FieldText(numbers) == [i \in 1 .. 2 * Fields |-> IF i % 2 = 1 THEN Blank ELSE numbers[i \div 2]]
Lined(s, name, state, numbers) ==
    /\ s \in Seq(Character) /\ Len(s) = Len(name) + 2 * Fields + 7
    /\ s[1] = One /\ s[2] = Blank /\ s[3] = Open
    /\ \A i \in 1 .. Len(name) : s[3 + i] = name[i]
    /\ s[Len(name) + 4] = Close /\ s[Len(name) + 5] = Blank /\ s[Len(name) + 6] = state
    /\ \A i \in 1 .. 2 * Fields : s[Len(name) + 6 + i] = FieldText(numbers)[i]
    /\ s[Len(name) + 2 * Fields + 7] = LineFeed

LEMMA FieldsIs ==
  /\ Fields \in Nat /\ Fields >= 2 /\ 2 * Fields \in Nat /\ NameMax \in Nat
  /\ Conversions \in Nat /\ Conversions >= 4 /\ Conversions <= Fields
  /\ StimeAt = Conversions - 1 /\ CutimeAt = Conversions /\ 2 * Before + 11 = 2 * Conversions + 3
<1>1. Before \in Nat /\ Fields \in Nat /\ Fields >= Before + 4 /\ NameMax \in Nat
  BY ParseAssumption, Zenon DEF ParseAssumption
<1> QED BY <1>1 DEF Conversions, Skipped, StimeAt, CutimeAt, UtimeAt

LEMMA FieldTextIs ==
  ASSUME NEW numbers \in [1 .. Fields -> Digit]
  PROVE /\ FieldText(numbers) \in Seq(Character) /\ Len(FieldText(numbers)) = 2 * Fields
        /\ \A i \in 1 .. Fields : /\ FieldText(numbers)[2 * i - 1] = Blank
                                  /\ FieldText(numbers)[2 * i] = numbers[i]
<1>1. Fields \in Nat /\ 2 * Fields \in Nat
  BY FieldsIs
<1>2. ASSUME NEW i \in 1 .. 2 * Fields PROVE (IF i % 2 = 1 THEN Blank ELSE numbers[i \div 2]) \in Character
  <2>1. CASE i % 2 = 1
    BY <2>1, StatMarks
  <2>2. CASE i % 2 # 1
    <3>1. i \div 2 \in 1 .. Fields
      BY <1>1, <2>2
    <3>2. numbers[i \div 2] \in Character
      BY <3>1, MarksAre
    <3> QED BY <2>2, <3>2
  <2> QED BY <2>1, <2>2
<1>3. FieldText(numbers) \in [1 .. 2 * Fields -> Character]
  BY <1>2 DEF FieldText
<1>4. FieldText(numbers) \in Seq(Character) /\ Len(FieldText(numbers)) = 2 * Fields
  <2> DEFINE t == FieldText(numbers)
             n == 2 * Fields
  <2>1. t \in [1 .. n -> Character] /\ n \in Nat
    BY <1>1, <1>3
  <2> HIDE DEF t, n
  <2>2. t \in Seq(Character) /\ Len(t) = n
    BY <2>1
  <2> QED BY <2>2 DEF t, n
<1>5. ASSUME NEW i \in 1 .. Fields
      PROVE FieldText(numbers)[2 * i - 1] = Blank /\ FieldText(numbers)[2 * i] = numbers[i]
  <2>1. /\ 2 * i - 1 \in 1 .. 2 * Fields /\ (2 * i - 1) % 2 = 1
        /\ 2 * i \in 1 .. 2 * Fields /\ (2 * i) % 2 # 1 /\ (2 * i) \div 2 = i
    BY <1>1
  <2> QED BY <2>1 DEF FieldText
<1> QED BY <1>4, <1>5

LEMMA StatLineIs ==
  ASSUME NEW name \in Seq(Character), NEW state \in Character, NEW numbers \in [1 .. Fields -> Digit]
  PROVE Lined(StatLine(name, state, numbers), name, state, numbers)
<1> DEFINE n == FieldText(numbers)
           a == <<One, Blank, Open>>
           c == <<Close, Blank, state>>
           e == <<LineFeed>>
           s1 == a \o name
           s2 == s1 \o c
           s3 == s2 \o n
           s == s3 \o e
           l == Len(name)
           d == 2 * Fields
<1>1. StatLine(name, state, numbers) = s
  BY Zenon DEF StatLine, FieldText, One, Blank, Open, Close, LineFeed
<1>2. l \in Nat /\ d \in Nat
  BY FieldsIs
<1>3. a \in Seq(Character) /\ Len(a) = 3 /\ a[1] = One /\ a[2] = Blank /\ a[3] = Open
  <2>1. One \in Character /\ Blank \in Character /\ Open \in Character
    BY StatMarks
  <2> QED BY <2>1, Triple
<1>4. c \in Seq(Character) /\ Len(c) = 3 /\ c[1] = Close /\ c[2] = Blank /\ c[3] = state
  <2>1. Close \in Character /\ Blank \in Character
    BY StatMarks
  <2> QED BY <2>1, Triple
<1>5. e \in Seq(Character) /\ Len(e) = 1 /\ e[1] = LineFeed
  <2>1. LineFeed \in Character
    BY StatMarks
  <2> QED BY <2>1, Single
<1>6. n \in Seq(Character) /\ Len(n) = d
  BY FieldTextIs
<1> HIDE DEF a, c, e, n, d
<1>7. /\ s1 \in Seq(Character) /\ Len(s1) = Len(a) + Len(name)
      /\ \A i \in 1 .. Len(a) : s1[i] = a[i]
      /\ \A i \in 1 .. Len(name) : s1[Len(a) + i] = name[i]
  <2>1. a \in Seq(Character) /\ name \in Seq(Character)
    BY <1>3
  <2> QED BY <2>1, ConcatIs
<1> HIDE DEF s1
<1>8. /\ s2 \in Seq(Character) /\ Len(s2) = Len(s1) + Len(c)
      /\ \A i \in 1 .. Len(s1) : s2[i] = s1[i]
      /\ \A i \in 1 .. Len(c) : s2[Len(s1) + i] = c[i]
  <2>1. s1 \in Seq(Character) /\ c \in Seq(Character)
    BY <1>4, <1>7
  <2> QED BY <2>1, ConcatIs
<1> HIDE DEF s2
<1>9. /\ s3 \in Seq(Character) /\ Len(s3) = Len(s2) + Len(n)
      /\ \A i \in 1 .. Len(s2) : s3[i] = s2[i]
      /\ \A i \in 1 .. Len(n) : s3[Len(s2) + i] = n[i]
  <2>1. s2 \in Seq(Character) /\ n \in Seq(Character)
    BY <1>6, <1>8
  <2> QED BY <2>1, ConcatIs
<1> HIDE DEF s3
<1>10. /\ s \in Seq(Character) /\ Len(s) = Len(s3) + Len(e)
       /\ \A i \in 1 .. Len(s3) : s[i] = s3[i]
       /\ \A i \in 1 .. Len(e) : s[Len(s3) + i] = e[i]
  <2>1. s3 \in Seq(Character) /\ e \in Seq(Character)
    BY <1>5, <1>9
  <2> QED BY <2>1, ConcatIs
<1> HIDE DEF s
<1>11. Len(s1) = 3 + l /\ Len(s2) = l + 6 /\ Len(s3) = l + 6 + d /\ Len(s) = l + d + 7
  BY <1>2, <1>3, <1>4, <1>5, <1>6, <1>7, <1>8, <1>9, <1>10
<1>12. \A i \in 1 .. 3 : s[i] = a[i]
  <2> TAKE i \in 1 .. 3
  <2>1. i \in 1 .. 3 + l /\ i \in 1 .. l + 6 /\ i \in 1 .. l + 6 + d
    BY <1>2
  <2>2. s1[i] = a[i]
    BY <1>3, <1>7
  <2> HIDE DEF l
  <2> QED BY <1>8, <1>9, <1>10, <1>11, <2>1, <2>2
<1>13. \A i \in 1 .. l : s[3 + i] = name[i]
  <2> TAKE i \in 1 .. l
  <2>1. i \in 1 .. Len(name) /\ 3 + i \in 1 .. 3 + l /\ 3 + i \in 1 .. l + 6 /\ 3 + i \in 1 .. l + 6 + d
    BY <1>2
  <2>2. s1[3 + i] = name[i]
    BY <1>3, <1>7, <2>1
  <2> HIDE DEF l
  <2> QED BY <1>8, <1>9, <1>10, <1>11, <2>1, <2>2
<1>14. \A i \in 1 .. 3 : s[3 + l + i] = c[i]
  <2> TAKE i \in 1 .. 3
  <2>1. 3 + l + i \in 1 .. l + 6 /\ 3 + l + i \in 1 .. l + 6 + d
    BY <1>2
  <2>2. s2[3 + l + i] = c[i]
    BY <1>4, <1>8, <1>11
  <2> HIDE DEF l
  <2> QED BY <1>9, <1>10, <1>11, <2>1, <2>2
<1>15. \A i \in 1 .. d : s[l + 6 + i] = n[i]
  <2> TAKE i \in 1 .. d
  <2>1. l + 6 + i \in 1 .. l + 6 + d
    BY <1>2
  <2>2. s3[l + 6 + i] = n[i]
    BY <1>6, <1>9, <1>11
  <2> HIDE DEF l
  <2> QED BY <1>10, <1>11, <2>1, <2>2
<1>16. s[l + d + 7] = LineFeed
  <2>1. s[Len(s3) + 1] = e[1] /\ Len(s3) + 1 = l + d + 7
    BY <1>2, <1>5, <1>10, <1>11
  <2> QED BY <1>5, <2>1
<1> HIDE DEF l
<1>17. 3 + l + 1 = l + 4 /\ 3 + l + 2 = l + 5 /\ 3 + l + 3 = l + 6
  BY <1>2
<1>18. s[1] = One /\ s[2] = Blank /\ s[3] = Open /\ s[l + 4] = Close /\ s[l + 5] = Blank /\ s[l + 6] = state
  BY <1>3, <1>4, <1>12, <1>14, <1>17
<1>19. Lined(s, name, state, numbers)
  BY <1>10, <1>11, <1>13, <1>15, <1>16, <1>18 DEF Lined, l, d, n
<1> QED BY <1>1, <1>19

LEMMA TailIs ==
  ASSUME NEW V, NEW t \in Seq(V), t # <<>>
  PROVE Tail(t) \in Seq(V) /\ Len(Tail(t)) = Len(t) - 1 /\ \A i \in 1 .. Len(Tail(t)) : Tail(t)[i] = t[i + 1]
OBVIOUS

\* The first and the last place of a character.
LEMMA FirstAt ==
  ASSUME NEW V, NEW s \in Seq(V), NEW c, \E i \in 1 .. Len(s) : s[i] = c
  PROVE \E k \in 1 .. Len(s) : s[k] = c /\ \A i \in 1 .. k - 1 : s[i] # c
<1> DEFINE S == {s[i] : i \in 1 .. Len(s)} \ {c}
           n == Span(s, S)
<1>1. n \in 0 .. Len(s) /\ Spans(s, S, n)
  BY SpanIs
<1> HIDE DEF n
<1>2. \A i \in 1 .. n : s[i] # c
  BY <1>1 DEF Spans
<1>3. n # Len(s)
  BY <1>2
<1>4. n + 1 \in 1 .. Len(s) /\ s[n + 1] \notin S
  BY <1>1, <1>3 DEF Spans
<1>5. s[n + 1] = c
  BY <1>4
<1>6. (n + 1) - 1 = n
  BY <1>1
<1> QED BY <1>2, <1>4, <1>5, <1>6

LEMMA LastAt ==
  ASSUME NEW V, NEW s \in Seq(V), NEW c, \E i \in 1 .. Len(s) : s[i] = c
  PROVE \E k \in 1 .. Len(s) : s[k] = c /\ \A i \in k + 1 .. Len(s) : s[i] # c
<1> SUFFICES ASSUME \A k \in 1 .. Len(s) : s[k] = c => \E i \in k + 1 .. Len(s) : s[i] = c PROVE FALSE
  OBVIOUS
<1> DEFINE S == {n \in Nat : n <= Len(s) => \A i \in Len(s) - n + 1 .. Len(s) : s[i] # c}
<1>1. 0 \in S
  OBVIOUS
<1>2. ASSUME NEW n \in Nat, n \in S PROVE n + 1 \in S
  <2> SUFFICES ASSUME n + 1 <= Len(s), NEW i \in Len(s) - (n + 1) + 1 .. Len(s) PROVE s[i] # c
    OBVIOUS
  <2>1. \A j \in Len(s) - n + 1 .. Len(s) : s[j] # c
    BY <1>2
  <2>2. CASE i = Len(s) - n
    <3>1. i \in 1 .. Len(s) /\ i + 1 = Len(s) - n + 1
      BY <2>2
    <3> QED BY <2>1, <3>1
  <2>3. CASE i # Len(s) - n
    <3>1. i \in Len(s) - n + 1 .. Len(s)
      BY <2>3
    <3> QED BY <2>1, <3>1
  <2> QED BY <2>2, <2>3
<1>3. Nat \subseteq S
  <2> HIDE DEF S
  <2> QED BY <1>1, <1>2, SetInduction
<1>4. Len(s) \in S /\ Len(s) - Len(s) + 1 = 1
  <2>1. Len(s) \in Nat
    OBVIOUS
  <2> HIDE DEF S
  <2> QED BY <1>3, <2>1
<1> QED BY <1>4

\* The line ends behind the first line feed.
LEMMA FirstLineIs ==
  ASSUME NEW s \in Seq(Character), NEW k \in 1 .. Len(s), s[k] = LineFeed,
         \A i \in 1 .. k - 1 : s[i] # LineFeed
  PROVE FirstLine(s) = Take(s, k)
<1> DEFINE S == ToSet(s) \ {LineFeed}
<1>1. \A i \in 1 .. Len(s) : s[i] \in ToSet(s)
  BY DEF ToSet
<1>2. k - 1 \in 0 .. Len(s) /\ (k - 1) + 1 = k /\ Len(s) \in Nat /\ k \in Nat
  OBVIOUS
<1>3. Spans(s, S, k - 1)
  <2>1. ASSUME NEW i \in 1 .. k - 1 PROVE s[i] \in S
    <3>1. i \in 1 .. Len(s)
      BY <1>2
    <3> QED BY <1>1, <3>1
  <2>2. s[(k - 1) + 1] \notin S
    BY <1>2
  <2> HIDE DEF S
  <2> QED BY <2>1, <2>2 DEF Spans
<1>4. Span(s, S) = k - 1
  <2> HIDE DEF S
  <2> QED BY <1>2, <1>3, SpanOnly
<1>5. FirstLine(s) = Take(s, Lesser(Span(s, S) + 1, Len(s)))
  BY Zenon DEF FirstLine, LineFeed
<1> HIDE DEF S
<1>6. Lesser(Span(s, S) + 1, Len(s)) = k
  BY <1>2, <1>4 DEF Lesser
<1> QED BY <1>5, <1>6

\* What is stored of a line with its first open parenthesis at l and its last
\* close parenthesis at r.
StatAt(line, l, r) ==
    LET after == Drop(line, r + 1)
        scan == ScanNumbers(Tail(after))
    IN  IF r > l /\ after # <<>> /\ scan.ok
        THEN {[name |-> Take(SubSeq(line, l + 1, r - 1), Lesser(r - l - 1, NameMax)),
               state |-> after[1], ppid |-> scan.numbers[1],
               utime |-> scan.numbers[Conversions - 1], stime |-> scan.numbers[Conversions]]}
        ELSE {}

LEMMA ParseStatIs ==
  ASSUME NEW line \in Seq(Character), NEW l \in 1 .. Len(line), NEW r \in 1 .. Len(line),
         line[l] = Open, \A i \in 1 .. l - 1 : line[i] # Open,
         line[r] = Close, \A i \in r + 1 .. Len(line) : line[i] # Close
  PROVE ParseStatLine(line) = StatAt(line, l, r)
<1> DEFINE L == At(line, Open)
           R == At(line, Close)
<1>1. ParseStatLine(line) = ParseStatBetween(line, L, R)
  BY Zenon DEF ParseStatLine, Open, Close
<1>2. l \in L /\ r \in R
  BY DEF At
<1>3. \A j \in L : j \in Nat /\ l <= j
  BY DEF At
<1>4. \A j \in R : j \in Nat /\ j <= r
  BY DEF At
<1> HIDE DEF L, R
<1>5. (CHOOSE i \in L : \A j \in L : i <= j) = l
  <2> DEFINE m == CHOOSE i \in L : \A j \in L : i <= j
  <2>1. m \in L /\ \A j \in L : m <= j
    BY <1>2, <1>3
  <2> HIDE DEF m
  <2>2. m = l
    BY <1>2, <1>3, <2>1
  <2> QED BY <2>2 DEF m
<1>6. (CHOOSE i \in R : \A j \in R : j <= i) = r
  <2> DEFINE m == CHOOSE i \in R : \A j \in R : j <= i
  <2>1. m \in R /\ \A j \in R : j <= m
    BY <1>2, <1>4
  <2> HIDE DEF m
  <2>2. m = r
    BY <1>2, <1>4, <2>1
  <2> QED BY <2>2 DEF m
<1>7. ~ (L = {} \/ R = {})
  BY <1>2
<1> QED BY <1>1, <1>5, <1>6, <1>7 DEF ParseStatBetween, StatAt

LEMMA ParseStatNone ==
  ASSUME NEW line \in Seq(Character), \A i \in 1 .. Len(line) : line[i] # Close
  PROVE ParseStatLine(line) = {}
<1>1. ParseStatLine(line) = ParseStatBetween(line, At(line, Open), At(line, Close))
  BY Zenon DEF ParseStatLine, Open, Close
<1>2. At(line, Close) = {}
  BY DEF At
<1> QED BY <1>1, <1>2, Zenon DEF ParseStatBetween

LEMMA NextOk ==
  ASSUME NEW st \in Scans
  PROVE /\ st.ok /\ Scan(st.rest, FALSE).found =>
             ScanNext(st) = [ok |-> TRUE, rest |-> Scan(st.rest, FALSE).rest,
                             numbers |-> Append(st.numbers, Scan(st.rest, FALSE).value)]
        /\ ~ (st.ok /\ Scan(st.rest, FALSE).found) => ~ ScanNext(st).ok
<1>1. ASSUME ~ (st.ok /\ Scan(st.rest, FALSE).found) PROVE ~ ScanNext(st).ok
  <2>1. ScanNext(st) = [st EXCEPT !.ok = FALSE]
    BY <1>1, Zenon DEF ScanNext
  <2> QED BY <2>1 DEF Scans
<1>2. ASSUME st.ok /\ Scan(st.rest, FALSE).found
      PROVE ScanNext(st) = [ok |-> TRUE, rest |-> Scan(st.rest, FALSE).rest,
                            numbers |-> Append(st.numbers, Scan(st.rest, FALSE).value)]
  BY <1>2, Zenon DEF ScanNext
<1> QED BY <1>1, <1>2

\* Behind its i-th conversion the scan stands at q, where no digit is: each
\* took a digit, and all but the first a character in front of it.
Behind(u, i, q) ==
    \/ i = 0 /\ q = 0
    \/ q >= 2 * i - 1 /\ q < Len(u) /\ u[q + 1] \notin Digit
Stands(u, st, i) == \E q \in 0 .. Len(u) : st.rest = Drop(u, q) /\ Behind(u, i, q)

LEMMA StandsNext ==
  ASSUME NEW u \in Seq(Character), u = <<>> \/ u[Len(u)] \notin Digit,
         NEW st \in Scans, NEW i \in Nat, ScanNext(st).ok, Stands(u, st, i)
  PROVE Stands(u, ScanNext(st), i + 1)
<1>1. PICK q \in 0 .. Len(u) : st.rest = Drop(u, q) /\ Behind(u, i, q)
  BY DEF Stands
<1> DEFINE t == Drop(u, q)
<1>2. t \in Seq(Character) /\ Len(t) = Len(u) - q /\ \A j \in 1 .. Len(u) - q : t[j] = u[q + j]
  BY DropIs
<1>3. \A n \in 0 .. Len(u) - q : q + n \in 0 .. Len(u) /\ Drop(t, n) = Drop(u, q + n)
  BY DropTwice
<1>4. st.rest = t
  BY <1>1
<1> HIDE DEF t
<1> DEFINE r == Scan(t, FALSE)
<1>5. r.found /\ ScanNext(st) = [ok |-> TRUE, rest |-> r.rest, numbers |-> Append(st.numbers, r.value)]
  <2>1. /\ st.ok /\ Scan(st.rest, FALSE).found =>
             ScanNext(st) = [ok |-> TRUE, rest |-> Scan(st.rest, FALSE).rest,
                             numbers |-> Append(st.numbers, Scan(st.rest, FALSE).value)]
        /\ ~ (st.ok /\ Scan(st.rest, FALSE).found) => ~ ScanNext(st).ok
    BY NextOk
  <2> QED BY <1>4, <2>1, Zenon
<1>6. PICK m \in Nat, n \in Nat : Scanned(t, FALSE, m, n)
  <2>1. FALSE \in BOOLEAN
    OBVIOUS
  <2> QED BY <1>2, <1>5, <2>1, ScanFinds
<1>7. /\ m < n /\ n <= Len(t) /\ r.rest = Drop(t, n)
      /\ \A j \in m + 1 .. n : t[j] \in Digit
      /\ n = Len(t) \/ t[n + 1] \notin Digit
  BY <1>6, Zenon DEF Scanned
<1>8. ScanNext(st).rest = r.rest
  BY <1>5
<1> HIDE DEF r
<1> DEFINE p == q + n
<1>9. /\ Len(u) \in Nat /\ q \in Nat /\ p \in Nat /\ n \in 0 .. Len(u) - q /\ p \in 0 .. Len(u) /\ n >= 1
      /\ Len(t) \in Nat /\ n \in Nat /\ m \in Nat
  BY <1>2, <1>7
<1>10. ScanNext(st).rest = Drop(u, p)
  BY <1>3, <1>7, <1>8, <1>9
<1>11. u[p] \in Digit
  <2>1. n \in m + 1 .. n /\ n \in 1 .. Len(u) - q
    BY <1>7, <1>9
  <2> QED BY <1>2, <1>7, <2>1
<1>12. p # Len(u)
  <2>1. u # <<>>
    BY <1>9
  <2> HIDE DEF p
  <2> QED BY <1>11, <2>1
<1>13. u[p + 1] \notin Digit
  <2>1. n # Len(t)
    BY <1>2, <1>9, <1>12
  <2>2. n + 1 \in 1 .. Len(u) - q /\ q + (n + 1) = p + 1
    BY <1>9, <1>12
  <2> QED BY <1>2, <1>7, <2>1, <2>2
<1>14. p >= 2 * (i + 1) - 1
  <2>1. CASE i = 0
    BY <1>9, <2>1
  <2>2. CASE i # 0
    <3>1. q >= 2 * i - 1 /\ q < Len(u) /\ u[q + 1] \notin Digit
      BY <1>1, <2>2 DEF Behind
    <3>2. 1 \in 1 .. Len(u) - q
      BY <1>9, <3>1
    <3>3. t[1] \notin Digit
      BY <1>2, <3>1, <3>2
    <3>4. m # 0
      <4> SUFFICES ASSUME m = 0 PROVE FALSE
        OBVIOUS
      <4>1. 1 \in m + 1 .. n
        BY <1>9
      <4> QED BY <1>7, <3>3, <4>1
    <3>5. n >= 2
      BY <1>7, <1>9, <3>4
    <3> QED BY <1>9, <3>1, <3>5
  <2> QED BY <2>1, <2>2
<1>15. p < Len(u)
  BY <1>9, <1>12
<1> HIDE DEF p
<1>16. Behind(u, i + 1, p)
  BY <1>13, <1>14, <1>15 DEF Behind
<1> QED BY <1>9, <1>10, <1>16 DEF Stands

\* A text too short for the numbers that are converted is refused.
LEMMA ScanShort ==
  ASSUME NEW u \in Seq(Character), Len(u) < 2 * Conversions, u = <<>> \/ u[Len(u)] \notin Digit
  PROVE ~ ScanNumbers(u).ok
<1>1. PICK f \in [0 .. Conversions -> Scans] :
        /\ f[0] = [ok |-> TRUE, rest |-> u, numbers |-> <<>>] /\ ScanNumbers(u) = f[Conversions]
        /\ \A i \in 0 .. Conversions - 1 : f[i + 1] = ScanNext(f[i])
  BY ScanSteps
<1> DEFINE S == {i \in Nat : i <= Conversions /\ f[i].ok => Stands(u, f[i], i)}
<1>2. Conversions \in Nat /\ Conversions >= 2
  BY FieldsIs
<1>3. 0 \in S
  <2>1. f[0].rest = Drop(u, 0)
    BY <1>1, DropAll
  <2>2. 0 \in 0 .. Len(u) /\ Behind(u, 0, 0)
    BY DEF Behind
  <2> QED BY <2>1, <2>2 DEF Stands
<1>4. ASSUME NEW i \in Nat, i \in S PROVE i + 1 \in S
  <2> SUFFICES ASSUME i + 1 <= Conversions, f[i + 1].ok PROVE Stands(u, f[i + 1], i + 1)
    OBVIOUS
  <2>1. i \in 0 .. Conversions - 1 /\ i \in 0 .. Conversions
    BY <1>2
  <2>2. f[i + 1] = ScanNext(f[i]) /\ f[i] \in Scans
    BY <1>1, <2>1
  <2>3. f[i].ok
    BY <2>2, NextOk
  <2>4. Stands(u, f[i], i)
    BY <1>4, <2>1, <2>3
  <2> QED BY <2>2, <2>4, StandsNext
<1>5. Conversions \in S
  <2> HIDE DEF S
  <2> QED BY <1>2, <1>3, <1>4, SetInduction
<1> SUFFICES ASSUME f[Conversions].ok PROVE FALSE
  BY <1>1
<1>6. PICK q \in 0 .. Len(u) : Behind(u, Conversions, q)
  BY <1>2, <1>5 DEF Stands
<1> QED BY <1>2, <1>6 DEF Behind

\* The numbers of a line, one blank in front of each.
FieldsOf(u, numbers) ==
    /\ Len(u) = 2 * Fields + 1 /\ u[2 * Fields + 1] = LineFeed
    /\ \A i \in 1 .. Fields : u[2 * i - 1] = Blank /\ u[2 * i] = numbers[i]
Taken(u, st, numbers, i) ==
    /\ st.ok /\ st.rest = Drop(u, 2 * i) /\ Len(st.numbers) = i
    /\ \A j \in 1 .. i : st.numbers[j] = ValueOf(<<numbers[j]>>)

LEMMA TakenNext ==
  ASSUME NEW u \in Seq(Character), NEW numbers \in [1 .. Fields -> Digit], FieldsOf(u, numbers),
         NEW st \in Scans, NEW i \in 0 .. Fields - 1, Taken(u, st, numbers, i)
  PROVE Taken(u, ScanNext(st), numbers, i + 1)
<1>1. Fields \in Nat /\ i \in Nat /\ i + 1 \in 1 .. Fields /\ i < Fields
  BY FieldsIs
<1>2. /\ Len(u) = 2 * Fields + 1 /\ u[2 * Fields + 1] = LineFeed
      /\ \A j \in 1 .. Fields : u[2 * j - 1] = Blank /\ u[2 * j] = numbers[j]
  BY DEF FieldsOf
<1>3. u[2 * i + 1] = Blank /\ u[2 * i + 2] = numbers[i + 1]
  <2>1. 2 * (i + 1) - 1 = 2 * i + 1 /\ 2 * (i + 1) = 2 * i + 2
    BY <1>1
  <2>2. u[2 * (i + 1) - 1] = Blank /\ u[2 * (i + 1)] = numbers[i + 1]
    BY <1>1, <1>2
  <2> QED BY <2>1, <2>2
<1>4. u[2 * i + 3] \notin Digit
  <2>1. CASE i + 1 = Fields
    <3>1. 2 * i + 3 = 2 * Fields + 1
      BY <1>1, <2>1
    <3> QED BY <1>2, <3>1, StatMarks
  <2>2. CASE i + 1 # Fields
    <3>1. i + 2 \in 1 .. Fields /\ 2 * (i + 2) - 1 = 2 * i + 3
      BY <1>1, <2>2
    <3>2. u[2 * (i + 2) - 1] = Blank
      BY <1>2, <3>1
    <3> QED BY <3>1, <3>2, StatMarks
  <2> QED BY <2>1, <2>2
<1> DEFINE m == 2 * i
           t == Drop(u, m)
<1>5. m \in Nat /\ m \in 0 .. Len(u) /\ Len(u) - m >= 3 /\ Len(u) \in Nat /\ 2 \in 0 .. Len(u) - m
      /\ m + 2 = 2 * (i + 1)
  BY <1>1, <1>2
<1> HIDE DEF m
<1>6. t \in Seq(Character) /\ Len(t) = Len(u) - m /\ \A j \in 1 .. Len(u) - m : t[j] = u[m + j]
  BY <1>5, DropIs
<1>7. Drop(t, 2) = Drop(u, m + 2)
  BY <1>5, DropTwice
<1> HIDE DEF t
<1>8. t[1] = Blank /\ t[2] = numbers[i + 1] /\ t[3] \notin Digit
  <2>1. 1 \in 1 .. Len(u) - m /\ 2 \in 1 .. Len(u) - m /\ 3 \in 1 .. Len(u) - m
    BY <1>5
  <2>2. t[1] = u[m + 1] /\ t[2] = u[m + 2] /\ t[3] = u[m + 3]
    BY <1>6, <2>1
  <2> QED BY <1>3, <1>4, <2>2 DEF m
<1> DEFINE r == Scan(t, FALSE)
<1>9. r.found /\ r.value = ValueOf(<<t[2]>>) /\ r.rest = Drop(t, 2)
  <2>1. t[1] \in White /\ t[2] \in Digit /\ Len(t) >= 3
    BY <1>1, <1>5, <1>6, <1>8, StatMarks
  <2> QED BY <1>6, <1>8, <2>1, ScanField
<1>10. st.rest = t /\ st.ok /\ Len(st.numbers) = i /\ \A j \in 1 .. i : st.numbers[j] = ValueOf(<<numbers[j]>>)
  BY DEF Taken, t, m
<1>11. ScanNext(st) = [ok |-> TRUE, rest |-> r.rest, numbers |-> Append(st.numbers, r.value)]
  <2>1. st.ok /\ Scan(st.rest, FALSE).found =>
             ScanNext(st) = [ok |-> TRUE, rest |-> Scan(st.rest, FALSE).rest,
                             numbers |-> Append(st.numbers, Scan(st.rest, FALSE).value)]
    BY NextOk
  <2> QED BY <1>9, <1>10, <2>1, Zenon
<1> HIDE DEF r
<1> DEFINE ns == Append(st.numbers, r.value)
<1>12. st.numbers \in Seq(Nat)
  BY DEF Scans
<1>13. Len(ns) = i + 1 /\ \A j \in 1 .. i + 1 : ns[j] = ValueOf(<<numbers[j]>>)
  <2>1. Len(ns) = i + 1 /\ ns[i + 1] = r.value /\ \A j \in 1 .. i : ns[j] = st.numbers[j]
    <3> DEFINE a == st.numbers
               b == r.value
    <3>1. a \in Seq(Nat) /\ Len(a) = i
      BY <1>10, <1>12
    <3> HIDE DEF a, b
    <3>2. Len(Append(a, b)) = i + 1 /\ Append(a, b)[i + 1] = b /\ \A j \in 1 .. i : Append(a, b)[j] = a[j]
      BY <1>1, <3>1
    <3> QED BY <3>2 DEF a, b
  <2> HIDE DEF ns
  <2>2. r.value = ValueOf(<<numbers[i + 1]>>)
    BY <1>8, <1>9
  <2>3. ASSUME NEW j \in 1 .. i + 1 PROVE ns[j] = ValueOf(<<numbers[j]>>)
    <3>1. CASE j = i + 1
      BY <2>1, <2>2, <3>1
    <3>2. CASE j # i + 1
      <4>1. j \in 1 .. i
        BY <1>1, <3>2
      <4> QED BY <1>10, <2>1, <4>1
    <3> QED BY <3>1, <3>2
  <2> QED BY <2>1, <2>3
<1> HIDE DEF ns
<1>14. ScanNext(st).ok /\ ScanNext(st).rest = Drop(u, 2 * (i + 1)) /\ ScanNext(st).numbers = ns
  <2>1. ScanNext(st) = [ok |-> TRUE, rest |-> r.rest, numbers |-> ns]
    BY <1>11 DEF ns
  <2>2. r.rest = Drop(u, 2 * (i + 1))
    BY <1>5, <1>7, <1>9
  <2> QED BY <2>1, <2>2
<1> QED BY <1>13, <1>14 DEF Taken

LEMMA ScanLine ==
  ASSUME NEW u \in Seq(Character), NEW numbers \in [1 .. Fields -> Digit], FieldsOf(u, numbers)
  PROVE /\ ScanNumbers(u).ok
        /\ \A j \in 1 .. Conversions : ScanNumbers(u).numbers[j] = ValueOf(<<numbers[j]>>)
<1>1. PICK f \in [0 .. Conversions -> Scans] :
        /\ f[0] = [ok |-> TRUE, rest |-> u, numbers |-> <<>>] /\ ScanNumbers(u) = f[Conversions]
        /\ \A i \in 0 .. Conversions - 1 : f[i + 1] = ScanNext(f[i])
  BY ScanSteps
<1> DEFINE S == {i \in Nat : i <= Conversions => Taken(u, f[i], numbers, i)}
<1>2. Fields \in Nat /\ Conversions \in Nat /\ Conversions >= 4 /\ Conversions <= Fields
  BY FieldsIs
<1>3. 0 \in S
  <2>1. f[0].rest = Drop(u, 2 * 0) /\ f[0].ok /\ Len(f[0].numbers) = 0
    <3>1. Drop(u, 0) = u /\ 2 * 0 = 0 /\ Len(<<>>) = 0
      BY DropAll
    <3> QED BY <1>1, <3>1
  <2> QED BY <2>1 DEF Taken
<1>4. ASSUME NEW i \in Nat, i \in S PROVE i + 1 \in S
  <2> SUFFICES ASSUME i + 1 <= Conversions PROVE Taken(u, f[i + 1], numbers, i + 1)
    OBVIOUS
  <2>1. i \in 0 .. Conversions - 1 /\ i \in 0 .. Conversions /\ i \in 0 .. Fields - 1
    BY <1>2
  <2>2. f[i + 1] = ScanNext(f[i]) /\ f[i] \in Scans
    BY <1>1, <2>1
  <2>3. Taken(u, f[i], numbers, i)
    BY <1>4, <2>1
  <2> QED BY <2>1, <2>2, <2>3, TakenNext
<1>5. Conversions \in S
  <2> HIDE DEF S
  <2> QED BY <1>2, <1>3, <1>4, SetInduction
<1>6. Taken(u, ScanNumbers(u), numbers, Conversions)
  BY <1>1, <1>2, <1>5
<1> QED BY <1>6 DEF Taken

\* A name without a line feed leaves its line whole, and the line is read for
\* what it says: the name's own parentheses lie between the outer two.
LEMMA StatOfWhole ==
  ASSUME NEW name \in Seq(Character), NEW state \in States, NEW numbers \in [1 .. Fields -> Digit],
         Len(name) <= NameMax, \A i \in 1 .. Len(name) : name[i] # LineFeed
  PROVE ParseStatLine(FirstLine(StatLine(name, state, numbers))) =
          {[name |-> name, state |-> state, ppid |-> ValueOf(<<numbers[1]>>),
            utime |-> ValueOf(<<numbers[StimeAt]>>), stime |-> ValueOf(<<numbers[CutimeAt]>>)]}
<1> DEFINE s == StatLine(name, state, numbers)
           l == Len(name)
           d == 2 * Fields
<1>1. Lined(s, name, state, numbers)
  <2>1. state \in Character
    BY StatMarks
  <2> QED BY <2>1, StatLineIs
<1> HIDE DEF s
<1>2. /\ s \in Seq(Character) /\ Len(s) = l + d + 7
      /\ s[1] = One /\ s[2] = Blank /\ s[3] = Open
      /\ \A i \in 1 .. l : s[3 + i] = name[i]
      /\ s[l + 4] = Close /\ s[l + 5] = Blank /\ s[l + 6] = state
      /\ \A i \in 1 .. d : s[l + 6 + i] = FieldText(numbers)[i]
      /\ s[l + d + 7] = LineFeed
  BY <1>1 DEF Lined
<1>3. l \in Nat /\ d \in Nat /\ d >= 4 /\ Fields \in Nat /\ Fields >= 2 /\ NameMax \in Nat
  BY FieldsIs
<1>4. \A i \in 1 .. d : s[l + 6 + i] # LineFeed /\ s[l + 6 + i] # Close
  <2> TAKE i \in 1 .. d
  <2>1. FieldText(numbers)[i] = Blank \/ FieldText(numbers)[i] \in Digit
    <3>1. CASE i % 2 = 1
      BY <3>1 DEF FieldText
    <3>2. CASE i % 2 # 1
      <4>1. i \div 2 \in 1 .. Fields
        BY <1>3, <3>2
      <4> QED BY <3>2, <4>1 DEF FieldText
    <3> QED BY <3>1, <3>2
  <2> HIDE DEF d, l
  <2> QED BY <1>2, <2>1, StatMarks
<1>5. \A i \in 1 .. (l + d + 7) - 1 : s[i] # LineFeed
  <2> TAKE i \in 1 .. (l + d + 7) - 1
  <2> HIDE DEF d, l
  <2>1. CASE i \in 4 .. l + 3
    <3>1. i - 3 \in 1 .. l /\ 3 + (i - 3) = i
      BY <1>3, <2>1
    <3>2. name[i - 3] # LineFeed
      BY <3>1 DEF l
    <3>3. s[3 + (i - 3)] = name[i - 3]
      BY <1>2, <3>1
    <3> QED BY <3>1, <3>2, <3>3
  <2>2. CASE i \in l + 7 .. l + d + 6
    <3>1. i - (l + 6) \in 1 .. d /\ l + 6 + (i - (l + 6)) = i
      BY <1>3, <2>2
    <3> QED BY <1>4, <3>1
  <2>3. CASE i \in {1, 2, 3, l + 4, l + 5, l + 6}
    BY <1>2, <2>3, StatMarks
  <2>4. i \in 4 .. l + 3 \/ i \in l + 7 .. l + d + 6 \/ i \in {1, 2, 3, l + 4, l + 5, l + 6}
    BY <1>3
  <2> QED BY <2>1, <2>2, <2>3, <2>4
<1> HIDE DEF l, d
<1>6. FirstLine(s) = s
  <2>1. l + d + 7 \in 1 .. Len(s) /\ l + d + 7 = Len(s)
    BY <1>2, <1>3
  <2>2. FirstLine(s) = Take(s, l + d + 7)
    BY <1>2, <1>5, <2>1, FirstLineIs
  <2> QED BY <1>2, <2>1, <2>2, DropAll
<1>7. \A i \in (l + 4) + 1 .. Len(s) : s[i] # Close
  <2> TAKE i \in (l + 4) + 1 .. Len(s)
  <2>1. CASE i \in l + 7 .. l + d + 6
    <3>1. i - (l + 6) \in 1 .. d /\ l + 6 + (i - (l + 6)) = i
      BY <1>3, <2>1
    <3> QED BY <1>4, <3>1
  <2>2. CASE i \in {l + 5, l + 6, l + d + 7}
    BY <1>2, <2>2, StatMarks
  <2>3. i \in l + 7 .. l + d + 6 \/ i \in {l + 5, l + 6, l + d + 7}
    <3>1. i \in Int /\ i >= l + 5 /\ i <= l + d + 7
      BY <1>2, <1>3
    <3> QED BY <1>3, <3>1
  <2> QED BY <2>1, <2>2, <2>3
<1>8. ParseStatLine(s) = StatAt(s, 3, l + 4)
  <2>1. 3 \in 1 .. Len(s) /\ l + 4 \in 1 .. Len(s) /\ 3 - 1 = 2
    BY <1>2, <1>3
  <2>2. \A i \in 1 .. 3 - 1 : s[i] # Open
    <3>1. \A i \in 1 .. 2 : i = 1 \/ i = 2
      OBVIOUS
    <3> QED BY <1>2, <2>1, <3>1, StatMarks
  <2> QED BY <1>2, <1>7, <2>1, <2>2, ParseStatIs
<1> DEFINE after == Drop(s, l + 5)
           u == Tail(after)
<1>9. after \in Seq(Character) /\ Len(after) = d + 2 /\ \A i \in 1 .. d + 2 : after[i] = s[l + 5 + i]
  <2> DEFINE e == l + 5
  <2>1. e \in 0 .. Len(s) /\ Len(s) - e = d + 2
    BY <1>2, <1>3
  <2> HIDE DEF e
  <2>2. /\ Drop(s, e) \in Seq(Character) /\ Len(Drop(s, e)) = Len(s) - e
        /\ \A i \in 1 .. Len(s) - e : Drop(s, e)[i] = s[e + i]
    <3>1. s \in Seq(Character) /\ e \in 0 .. Len(s)
      BY <1>2, <2>1
    <3> QED BY <3>1, DropIs
  <2>3. after = Drop(s, e)
    BY DEF e
  <2> HIDE DEF after
  <2>4. after \in Seq(Character) /\ Len(after) = d + 2 /\ \A i \in 1 .. d + 2 : after[i] = s[e + i]
    BY <2>1, <2>2, <2>3
  <2> QED BY <2>4 DEF e
<1> HIDE DEF after
<1>10. after # <<>> /\ after[1] = state
  <2>1. 1 \in 1 .. d + 2 /\ l + 5 + 1 = l + 6
    BY <1>3
  <2> QED BY <1>2, <1>3, <1>9, <2>1
<1>11. u \in Seq(Character) /\ Len(u) = d + 1 /\ \A i \in 1 .. d + 1 : u[i] = after[i + 1]
  BY <1>3, <1>9, <1>10
<1> HIDE DEF u
<1>12. \A i \in 1 .. d + 1 : u[i] = s[l + 6 + i]
  <2> TAKE i \in 1 .. d + 1
  <2>1. i + 1 \in 1 .. d + 2 /\ l + 5 + (i + 1) = l + 6 + i
    BY <1>3
  <2> QED BY <1>9, <1>11, <2>1
<1>13. FieldsOf(u, numbers)
  <2>1. u[d + 1] = LineFeed
    <3>1. d + 1 \in 1 .. d + 1 /\ l + 6 + (d + 1) = l + d + 7
      BY <1>3
    <3> QED BY <1>2, <1>12, <3>1
  <2>2. ASSUME NEW i \in 1 .. Fields PROVE u[2 * i - 1] = Blank /\ u[2 * i] = numbers[i]
    <3>1. FieldText(numbers)[2 * i - 1] = Blank /\ FieldText(numbers)[2 * i] = numbers[i]
      BY FieldTextIs
    <3> DEFINE m == 2 * i
    <3>2. m - 1 \in 1 .. d /\ m \in 1 .. d /\ m - 1 \in 1 .. d + 1 /\ m \in 1 .. d + 1
      BY <1>3 DEF d
    <3> HIDE DEF m
    <3>3. FieldText(numbers)[m - 1] = Blank /\ FieldText(numbers)[m] = numbers[i]
      BY <3>1 DEF m
    <3>4. u[m - 1] = Blank /\ u[m] = numbers[i]
      BY <1>2, <1>12, <3>2, <3>3
    <3> QED BY <3>4 DEF m
  <2> QED BY <1>11, <2>1, <2>2 DEF FieldsOf, d
<1> DEFINE scan == ScanNumbers(u)
<1>14. scan.ok /\ \A j \in 1 .. Conversions : scan.numbers[j] = ValueOf(<<numbers[j]>>)
  BY <1>11, <1>13, ScanLine
<1> HIDE DEF scan
<1>15. Take(SubSeq(s, 3 + 1, (l + 4) - 1), Lesser((l + 4) - 3 - 1, NameMax)) = name
  <2>1. Lesser((l + 4) - 3 - 1, NameMax) = l
    BY <1>3 DEF Lesser, l
  <2> DEFINE t == SubSeq(s, 3 + 1, (l + 4) - 1)
  <2>2. t \in Seq(Character) /\ Len(t) = l /\ \A i \in 1 .. l : t[i] = s[3 + i]
    <3> DEFINE e == l + 3
    <3>1. 3 \in 0 .. Len(s) /\ e \in 3 .. Len(s) /\ e - 3 = l /\ (l + 4) - 1 = e
      BY <1>2, <1>3
    <3> HIDE DEF e
    <3>2. /\ SubSeq(s, 3 + 1, e) \in Seq(Character) /\ Len(SubSeq(s, 3 + 1, e)) = e - 3
          /\ \A i \in 1 .. e - 3 : SubSeq(s, 3 + 1, e)[i] = s[3 + i]
      BY <1>2, <3>1, PartIs
    <3> QED BY <3>1, <3>2
  <2> HIDE DEF t
  <2>3. t = name
    <3>1. Len(t) = Len(name) /\ \A i \in 1 .. Len(t) : t[i] = name[i]
      BY <1>2, <2>2 DEF l
    <3> QED BY <2>2, <3>1, SameText
  <2>4. Take(t, l) = t
    BY <2>2, DropAll
  <2> QED BY <2>1, <2>3, <2>4 DEF t
<1>16. (l + 4) + 1 = l + 5 /\ l + 4 > 3
  BY <1>3
<1>17. StatAt(s, 3, l + 4) = {[name |-> name, state |-> state, ppid |-> scan.numbers[1],
                               utime |-> scan.numbers[Conversions - 1],
                               stime |-> scan.numbers[Conversions]]}
  BY <1>10, <1>14, <1>15, <1>16, Zenon DEF StatAt, scan, u, after
<1>18. /\ 1 \in 1 .. Conversions /\ Conversions - 1 \in 1 .. Conversions /\ Conversions \in 1 .. Conversions
       /\ StimeAt = Conversions - 1 /\ CutimeAt = Conversions
  BY FieldsIs
<1>19. /\ scan.numbers[1] = ValueOf(<<numbers[1]>>) /\ scan.numbers[Conversions] = ValueOf(<<numbers[CutimeAt]>>)
       /\ scan.numbers[Conversions - 1] = ValueOf(<<numbers[StimeAt]>>)
  BY <1>14, <1>18
<1> QED BY <1>6, <1>8, <1>17, <1>19, Zenon DEF s

\* A line feed in the name cuts the line before it has its numbers.
LEMMA StatOfCut ==
  ASSUME NEW name \in Seq(Character), NEW state \in States, NEW numbers \in [1 .. Fields -> Digit],
         Len(name) < 2 * Conversions + 3, \E i \in 1 .. Len(name) : name[i] = LineFeed
  PROVE ParseStatLine(FirstLine(StatLine(name, state, numbers))) = {}
<1> DEFINE s == StatLine(name, state, numbers)
<1>1. Lined(s, name, state, numbers)
  <2>1. state \in Character
    BY StatMarks
  <2> QED BY <2>1, StatLineIs
<1> HIDE DEF s
<1>2. /\ s \in Seq(Character) /\ Len(s) = Len(name) + 2 * Fields + 7
      /\ s[1] = One /\ s[2] = Blank /\ s[3] = Open
      /\ \A i \in 1 .. Len(name) : s[3 + i] = name[i]
  BY <1>1 DEF Lined
<1>3. PICK k \in 1 .. Len(name) : name[k] = LineFeed /\ \A i \in 1 .. k - 1 : name[i] # LineFeed
  BY FirstAt
<1> DEFINE z == 3 + k
           line == Take(s, z)
<1>4. /\ Len(name) \in Nat /\ Len(s) \in Nat /\ Fields \in Nat /\ Conversions \in Nat /\ k \in Nat /\ z \in Nat
      /\ z >= 4 /\ z < 2 * Conversions + 6 /\ z < Len(s) /\ z \in 0 .. Len(s) /\ z \in 1 .. Len(s)
  BY <1>2, FieldsIs
<1>5. s[z] = LineFeed
  BY <1>2, <1>3
<1>6. \A i \in 1 .. z - 1 : s[i] # LineFeed
  <2> TAKE i \in 1 .. z - 1
  <2>1. CASE i \in {1, 2, 3}
    BY <1>2, <2>1, StatMarks
  <2>2. CASE i \notin {1, 2, 3}
    <3>1. i - 3 \in 1 .. k - 1 /\ i - 3 \in 1 .. Len(name) /\ 3 + (i - 3) = i
      BY <1>4, <2>2
    <3>2. name[i - 3] # LineFeed /\ s[3 + (i - 3)] = name[i - 3]
      BY <1>2, <1>3, <3>1
    <3> QED BY <3>1, <3>2
  <2> QED BY <2>1, <2>2
<1> HIDE DEF z
<1>7. FirstLine(s) = line
  <2>1. s \in Seq(Character) /\ z \in 1 .. Len(s)
    BY <1>2, <1>4
  <2> QED BY <1>5, <1>6, <2>1, FirstLineIs
<1>8. line \in Seq(Character) /\ Len(line) = z /\ \A i \in 1 .. z : line[i] = s[i]
  <2>1. s \in Seq(Character) /\ z \in 0 .. Len(s)
    BY <1>2, <1>4
  <2> QED BY <2>1, TakeIs
<1> HIDE DEF line
<1>9. line[1] = One /\ line[2] = Blank /\ line[3] = Open /\ line[z] = LineFeed
  <2>1. 1 \in 1 .. z /\ 2 \in 1 .. z /\ 3 \in 1 .. z /\ z \in 1 .. z
    BY <1>4
  <2> QED BY <1>2, <1>5, <1>8, <2>1
<1>10. CASE \A i \in 1 .. Len(line) : line[i] # Close
  BY <1>7, <1>8, <1>10, ParseStatNone DEF s
<1>11. CASE ~ \A i \in 1 .. Len(line) : line[i] # Close
  <2>1. PICK r \in 1 .. Len(line) : line[r] = Close /\ \A i \in r + 1 .. Len(line) : line[i] # Close
    <3>1. \E i \in 1 .. Len(line) : line[i] = Close
      BY <1>11
    <3> QED BY <1>8, <3>1, LastAt
  <2>2. r \in Nat /\ r >= 4 /\ r < z
    <3>1. r # z /\ r # 3 /\ r # 2 /\ r # 1
      BY <1>9, <2>1, StatMarks
    <3> QED BY <1>4, <1>8, <3>1
  <2>3. ParseStatLine(line) = StatAt(line, 3, r)
    <3>1. 3 \in 1 .. Len(line)
      BY <1>4, <1>8
    <3>2. \A i \in 1 .. 3 - 1 : line[i] # Open
      <4>1. \A i \in 1 .. 3 - 1 : i = 1 \/ i = 2
        OBVIOUS
      <4> QED BY <1>9, <4>1, StatMarks
    <3> QED BY <1>8, <1>9, <2>1, <3>1, <3>2, ParseStatIs
  <2> DEFINE e == r + 1
             after == Drop(line, e)
             u == Tail(after)
  <2>4. e \in 0 .. Len(line) /\ e \in Nat /\ e >= 5 /\ e <= z
    BY <1>4, <1>8, <2>2
  <2> HIDE DEF e
  <2>5. after \in Seq(Character) /\ Len(after) = z - e /\ \A i \in 1 .. z - e : after[i] = line[e + i]
    <3>1. line \in Seq(Character) /\ e \in 0 .. Len(line)
      BY <1>8, <2>4
    <3>2. /\ after \in Seq(Character) /\ Len(after) = Len(line) - e
          /\ \A i \in 1 .. Len(line) - e : after[i] = line[e + i]
      BY <3>1, DropIs
    <3> HIDE DEF after
    <3> QED BY <1>8, <3>2
  <2> HIDE DEF after
  <2>6. after = <<>> \/ ~ ScanNumbers(u).ok
    <3> SUFFICES ASSUME after # <<>> PROVE ~ ScanNumbers(u).ok
      OBVIOUS
    <3>1. u \in Seq(Character) /\ Len(u) = Len(after) - 1 /\ \A i \in 1 .. Len(u) : u[i] = after[i + 1]
      BY <2>5, TailIs
    <3> HIDE DEF u
    <3>2. Len(u) < 2 * Conversions
      BY <1>4, <2>4, <2>5, <3>1
    <3>3. u = <<>> \/ u[Len(u)] \notin Digit
      <4> SUFFICES ASSUME u # <<>> PROVE u[Len(u)] \notin Digit
        OBVIOUS
      <4>1. Len(u) \in Nat /\ Len(u) \in 1 .. Len(u)
        BY <3>1
      <4>2. u[Len(u)] = after[Len(u) + 1]
        BY <3>1, <4>1
      <4>3. Len(u) + 1 = z - e /\ z - e \in 1 .. z - e /\ e + (z - e) = z
        BY <1>4, <2>4, <2>5, <3>1, <4>1
      <4>4. after[z - e] = line[z]
        BY <2>5, <4>3
      <4> QED BY <1>9, <4>2, <4>3, <4>4, StatMarks
    <3> QED BY <3>1, <3>2, <3>3, ScanShort
  <2>7. StatAt(line, 3, r) = {}
    BY <2>6, Zenon DEF StatAt, u, after, e
  <2> QED BY <1>7, <2>3, <2>7 DEF s
<1> QED BY <1>10, <1>11

\* What is stored of a line, or nothing when its name cuts it.
LEMMA StatIs ==
  ASSUME NEW name \in Seq(Character), Len(name) <= NameMax, Len(name) < 2 * Conversions + 3,
         NEW state \in States, NEW numbers \in [1 .. Fields -> Digit]
  PROVE ParseStatLine(FirstLine(StatLine(name, state, numbers))) =
          IF LineFeed \in ToSet(name) THEN {}
          ELSE {[name |-> name, state |-> state, ppid |-> ValueOf(<<numbers[1]>>),
                 utime |-> ValueOf(<<numbers[StimeAt]>>), stime |-> ValueOf(<<numbers[CutimeAt]>>)]}
<1>1. LineFeed \in ToSet(name) <=> \E i \in 1 .. Len(name) : name[i] = LineFeed
  BY DEF ToSet
<1>2. CASE LineFeed \in ToSet(name)
  BY <1>1, <1>2, StatOfCut
<1>3. CASE LineFeed \notin ToSet(name)
  <2>1. \A i \in 1 .. Len(name) : name[i] # LineFeed
    BY <1>1, <1>3
  <2>2. ParseStatLine(FirstLine(StatLine(name, state, numbers))) =
          {[name |-> name, state |-> state, ppid |-> ValueOf(<<numbers[1]>>),
            utime |-> ValueOf(<<numbers[StimeAt]>>), stime |-> ValueOf(<<numbers[CutimeAt]>>)]}
    BY <2>1, StatOfWhole
  <2> QED BY <1>3, <2>2, Zenon
<1> QED BY <1>2, <1>3

-----------------------------------------------------------------------------
(* The texts.                                                              *)

\* Every text is made of characters of its alphabet and stays in its bound.
TextInv == kind \in DOMAIN Alphabet /\ text \in Seq(Character) /\ Len(text) <= MaxText[kind]

LEMMA TextTyped == TextSpec => []TextInv
<1>1. \A k \in DOMAIN Alphabet : MaxText[k] \in Nat
  BY ParseAssumption, Zenon DEF ParseAssumption
<1>2. ASSUME Empty PROVE TextInv
  <2>1. Len(text) = 0 /\ text \in Seq(Character)
    BY <1>2 DEF Empty
  <2>2. kind \in DOMAIN Alphabet /\ MaxText[kind] \in Nat
    BY <1>1, <1>2 DEF Empty
  <2> QED BY <2>1, <2>2 DEF TextInv
<1>3. ASSUME TextInv, [Typing]_texts PROVE TextInv'
  <2>1. CASE Typing
    <3>1. PICK c \in Alphabet[kind] : Type(c)
      BY <2>1 DEF Typing
    <3>2. c \in Typed
      BY <1>3 DEF TextInv, Typed
    <3>3. c \in Character
      BY <3>2 DEF Character
    <3>4. text' = Append(text, c) /\ kind' = kind /\ Len(text) < MaxText[kind] /\ MaxText[kind] \in Nat
      BY <1>1, <1>3, <3>1 DEF TextInv, Type
    <3>5. text \in Seq(Character)
      BY <1>3 DEF TextInv
    <3>6. text' \in Seq(Character) /\ Len(text') = Len(text) + 1 /\ Len(text) \in Nat
      BY <3>3, <3>4, <3>5
    <3>7. Len(text') <= MaxText[kind]
      BY <3>4, <3>6
    <3> QED BY <1>3, <3>4, <3>6, <3>7 DEF TextInv
  <2>2. CASE UNCHANGED texts
    BY <1>3, <2>2 DEF TextInv, texts
  <2> QED BY <1>3, <2>1, <2>2
<1> QED BY <1>2, <1>3, PTL DEF TextSpec

\* Whatever the digits, the widths and the lengths of the texts, diag_parse_ulong
\* and diag_parse_hex_u32 take exactly the texts that are numbers and fit, for
\* what they say (diag_parse.c).
THEOREM NumbersRead == TextSpec => []NumberMeans
<1>1. ASSUME TextInv PROVE NumberMeans
  <2>1. text \in Seq(Character)
    BY <1>1 DEF TextInv
  <2>2. ParseUlong(text) = Says(text, FALSE) /\ ParseHexU32(text) = {v \in Says(text, TRUE) : v < U32}
    BY <2>1, ParsersExact
  <2> QED BY <2>2, Zenon DEF NumberMeans
<1> QED BY <1>1, TextTyped, PTL

\* A field of /proc/net/tcp is taken for an address and a port exactly when it
\* begins as the kernel prints them, and for those (parse_addr_port, diag_net.c).
THEOREM AddressesRead == TextSpec => []AddressExact
<1>1. ASSUME TextInv PROVE AddressExact
  <2>1. text \in Seq(Character)
    BY <1>1 DEF TextInv
  <2> QED BY <2>1, AddressIs, Zenon DEF AddressExact
<1> QED BY <1>1, TextTyped, PTL

\* Whatever the name of a process and however many numbers stand before its times,
\* its line is read for its name, state and parent, and refused when a line feed in
\* the name cuts it; the times that are stored are the stime and the cutime of the
\* line (diag_proc_parse_stat_line, diag_proc.c).
THEOREM StatLinesRead == TextSpec => []StatExact
<1>1. ASSUME TextInv PROVE StatExact
  <2> SUFFICES ASSUME kind = "name", NEW state \in {"R", "S"}, NEW numbers \in [1 .. Fields -> Digit]
               PROVE ParseStatLine(FirstLine(StatLine(text, state, numbers))) =
                       IF LineFeed \in ToSet(text) THEN {}
                       ELSE {[name |-> text, state |-> state, ppid |-> ValueOf(<<numbers[1]>>),
                              utime |-> ValueOf(<<numbers[StimeAt]>>),
                              stime |-> ValueOf(<<numbers[CutimeAt]>>)]}
    BY Zenon DEF StatExact, LineFeed
  <2>1. text \in Seq(Character) /\ Len(text) <= MaxText["name"] /\ "name" \in DOMAIN Alphabet
    BY <1>1 DEF TextInv
  <2>2. "name" \in DOMAIN Alphabet => MaxText["name"] <= NameMax /\ MaxText["name"] < 2 * Before + 11
    BY ParseAssumption, Zenon DEF ParseAssumption
  <2>3. \A k \in DOMAIN Alphabet : MaxText[k] \in Nat
    BY ParseAssumption, Zenon DEF ParseAssumption
  <2>4. Len(text) <= NameMax /\ Len(text) < 2 * Conversions + 3
    <3>1. MaxText["name"] \in Nat /\ Len(text) \in Nat
      BY <2>1, <2>3
    <3> QED BY <2>1, <2>2, <3>1, FieldsIs
  <2>5. state \in States
    BY DEF States
  <2> QED BY <2>1, <2>4, <2>5, StatIs
<1> QED BY <1>1, TextTyped, PTL

-----------------------------------------------------------------------------
(* The command line of diagnet.                                            *)

\* Who owns the one block there may be: the parser while it builds the list,
\* the context at any other time.
Owner ==
  /\ pc = "parse" =>
       /\ wlExtra = NULL /\ wlLen = 0
       /\ Live = {arr} \ {NULL}
       /\ IF arr = NULL THEN len = 0 /\ cap = 0 ELSE len <= cap /\ heap[arr] = cap
  /\ pc \in {"options", "run", "out"} =>
       /\ Live = {wlExtra} \ {NULL}
       /\ wlLen > 0 => wlExtra # NULL /\ wlLen <= heap[wlExtra]
  /\ pc = "exited" => Live = {}
  /\ ~misuse

CliInv == TypeOK /\ Exclusive /\ Owner

\* Freeing the only block, or none, leaves no block and is no misuse.
LEMMA FreeLast ==
  ASSUME NEW p \in Pointers, Live = {p} \ {NULL}, ~misuse, Free(p)
  PROVE DOMAIN heap' = {} /\ heap' \in [DOMAIN heap' -> Nat] /\ ~misuse' /\ misuse' \in BOOLEAN
<1>1. heap' = [b \in Live \ {p} |-> heap[b]] /\ Live \ {p} = {}
  BY DEF Free
<1>2. DOMAIN heap' = {} /\ heap' \in [DOMAIN heap' -> Nat]
  BY <1>1
<1>3. p = NULL \/ p \in Live
  OBVIOUS
<1>4. misuse' = (misuse \/ (p # NULL /\ p \notin Live))
  BY DEF Free
<1>5. ~misuse' /\ misuse' \in BOOLEAN
  BY <1>3, <1>4, Zenon
<1> QED BY <1>2, <1>5

\* Growing the only block, or none, leaves one block of the new size.
LEMMA ReallocLast ==
  ASSUME NEW p \in Pointers, NEW n \in Nat, Live = {p} \ {NULL}, ~misuse, Realloc(p, n)
  PROVE /\ arr' \in Blocks /\ DOMAIN heap' = {arr'} /\ heap'[arr'] = n
        /\ heap' \in [DOMAIN heap' -> Nat] /\ ~misuse' /\ misuse' \in BOOLEAN
<1>1. PICK b \in (Blocks \ Live) \cup ({p} \ {NULL}) :
        /\ arr' = b
        /\ heap' = [c \in (Live \ {p}) \cup {b} |-> IF c = b THEN n ELSE heap[c]]
        /\ misuse' = (misuse \/ (p # NULL /\ p \notin Live))
  BY DEF Realloc
<1>2. b \in Blocks /\ (Live \ {p}) \cup {b} = {b}
  BY DEF Pointers
<1>3. DOMAIN heap' = {b} /\ heap'[b] = n /\ heap' \in [{b} -> Nat]
  BY <1>1, <1>2
<1>4. p = NULL \/ p \in Live
  OBVIOUS
<1>5. ~misuse' /\ misuse' \in BOOLEAN
  BY <1>1, <1>4, Zenon
<1> QED BY <1>1, <1>2, <1>3, <1>5

\* CliInv is inductive.
LEMMA CliInvariant == Spec => []CliInv
<1> USE CliAssumption DEF CliAssumption
<1>1. Init => CliInv
  <2> SUFFICES ASSUME Init PROVE CliInv
    OBVIOUS
  <2>1. Live = {} /\ heap \in [Live -> Nat]
    BY DEF Init, Live
  <2>2. ~misuse /\ ~stateSet /\ ~listenOnly /\ misuse \in BOOLEAN /\ stateSet \in BOOLEAN /\ listenOnly \in BOOLEAN
    BY Zenon DEF Init
  <2>3. TypeOK
    BY <2>1, <2>2 DEF Init, TypeOK, Pointers
  <2> QED BY <2>1, <2>2, <2>3 DEF Init, CliInv, Exclusive, Owner
<1>2. CliInv /\ [Next]_vars => CliInv'
  <2> SUFFICES ASSUME CliInv, [Next]_vars PROVE CliInv'
    OBVIOUS
  <2> USE DEF CliInv, filter, whitelist, parser, memory, Pointers
  <2>1. CASE PlainOption
    BY <2>1 DEF PlainOption, NextOption, TypeOK, Exclusive, Owner, Live
  <2>2. CASE BadOption
    BY <2>2 DEF BadOption, NextOption, GoOut, TypeOK, Exclusive, Owner, Live
  <2>3. CASE OptHelp
    BY <2>3 DEF OptHelp, NextOption, GoOut, TypeOK, Exclusive, Owner, Live
  <2>4. CASE OptState
    <3>1. UNCHANGED <<wlExtra, wlLen, arr, cap, len, heap, misuse>> /\ args' \in 0 .. MaxOptions
      BY <2>4 DEF OptState, NextOption, TypeOK
    <3>2. /\ stateSet' \in BOOLEAN /\ listenOnly' \in BOOLEAN /\ ~(stateSet' /\ listenOnly')
      <4>1. CASE listenOnly
        BY <2>4, <4>1 DEF OptState, TypeOK, Exclusive
      <4>2. CASE ~listenOnly
        <5>1. stateSet' = TRUE /\ listenOnly' = listenOnly
          BY <2>4, <4>2 DEF OptState
        <5>2. stateSet' \in BOOLEAN /\ listenOnly' \in BOOLEAN
          BY <5>1, Zenon DEF TypeOK
        <5> QED BY <5>1, <5>2, <4>2, Zenon
      <4> QED BY <4>1, <4>2
    <3>3. pc = "options" /\ pc' \in {"options", "out"} /\ rc' \in {0, 1, 2}
      BY <2>4 DEF OptState, NextOption, GoOut, TypeOK
    <3> QED BY <3>1, <3>2, <3>3 DEF TypeOK, Exclusive, Owner, Live
  <2>5. CASE OptListen
    <3>1. UNCHANGED <<wlExtra, wlLen, arr, cap, len, heap, misuse>> /\ args' \in 0 .. MaxOptions
      BY <2>5 DEF OptListen, NextOption, TypeOK
    <3>2. /\ stateSet' \in BOOLEAN /\ listenOnly' \in BOOLEAN /\ ~(stateSet' /\ listenOnly')
      <4>1. CASE stateSet
        BY <2>5, <4>1 DEF OptListen, TypeOK, Exclusive
      <4>2. CASE ~stateSet
        <5>1. listenOnly' = TRUE /\ stateSet' = stateSet
          BY <2>5, <4>2 DEF OptListen
        <5>2. stateSet' \in BOOLEAN /\ listenOnly' \in BOOLEAN
          BY <5>1, Zenon DEF TypeOK
        <5> QED BY <5>1, <5>2, <4>2, Zenon
      <4> QED BY <4>1, <4>2
    <3>3. pc = "options" /\ pc' \in {"options", "out"} /\ rc' \in {0, 1, 2}
      BY <2>5 DEF OptListen, NextOption, GoOut, TypeOK
    <3> QED BY <3>1, <3>2, <3>3 DEF TypeOK, Exclusive, Owner, Live
  <2>6. CASE OptWhitelist
    <3>1. DOMAIN heap' = {} /\ heap' \in [DOMAIN heap' -> Nat] /\ ~misuse' /\ misuse' \in BOOLEAN
      BY <2>6, FreeLast DEF OptWhitelist, NextOption, Owner, TypeOK
    <3>2. /\ wlExtra' = NULL /\ wlLen' = 0 /\ arr' = NULL /\ cap' = 0 /\ len' = 0
          /\ pc' = "parse" /\ args' \in 0 .. MaxOptions
          /\ UNCHANGED <<stateSet, listenOnly, rc>>
      BY <2>6 DEF OptWhitelist, NextOption, TypeOK
    <3> QED BY <3>1, <3>2 DEF TypeOK, Exclusive, Owner, Live
  <2>7. CASE BadPort
    <3>1. DOMAIN heap' = {} /\ heap' \in [DOMAIN heap' -> Nat] /\ ~misuse' /\ misuse' \in BOOLEAN
      BY <2>7, FreeLast DEF BadPort, Owner, TypeOK
    <3>2. /\ wlExtra' = NULL /\ wlLen' = 0 /\ pc' = "out" /\ rc' = 2
          /\ UNCHANGED <<args, stateSet, listenOnly, arr, cap, len>>
      BY <2>7 DEF BadPort, GoOut, Owner
    <3> QED BY <3>1, <3>2 DEF TypeOK, Exclusive, Owner, Live
  <2>8. CASE NoMemory
    <3>1. DOMAIN heap' = {} /\ heap' \in [DOMAIN heap' -> Nat] /\ ~misuse' /\ misuse' \in BOOLEAN
      BY <2>8, FreeLast DEF NoMemory, Owner, TypeOK
    <3>2. /\ wlExtra' = NULL /\ wlLen' = 0 /\ pc' = "out" /\ rc' = 2
          /\ UNCHANGED <<args, stateSet, listenOnly, arr, len>> /\ cap' \in Nat
      BY <2>8 DEF NoMemory, GoOut, Owner, TypeOK
    <3> QED BY <3>1, <3>2 DEF TypeOK, Exclusive, Owner, Live
  <2>9. CASE GoodPort
    <3>1. /\ UNCHANGED <<pc, args, stateSet, listenOnly, wlExtra, wlLen, rc>>
          /\ pc = "parse" /\ len' = len + 1 /\ len' \in 0 .. MaxPorts
      BY <2>9 DEF GoodPort, TypeOK
    <3>2. CASE len >= cap
      <4>1. cap' = (IF cap = 0 THEN FirstCap ELSE 2 * cap) /\ Realloc(arr, cap')
        BY <2>9, <3>2 DEF GoodPort
      <4>2. cap' \in Nat /\ len' <= cap'
        BY <3>1, <3>2, <4>1 DEF Owner, TypeOK
      <4>3. /\ arr' \in Blocks /\ DOMAIN heap' = {arr'} /\ heap'[arr'] = cap'
            /\ heap' \in [DOMAIN heap' -> Nat] /\ ~misuse' /\ misuse' \in BOOLEAN
        BY <3>1, <4>1, <4>2, ReallocLast DEF Owner, TypeOK
      <4> QED BY <3>1, <4>2, <4>3 DEF TypeOK, Exclusive, Owner, Live
    <3>3. CASE ~(len >= cap)
      <4>1. UNCHANGED <<arr, cap, heap, misuse>>
        BY <2>9, <3>3 DEF GoodPort
      <4> QED BY <3>1, <3>3, <4>1 DEF TypeOK, Exclusive, Owner, Live
    <3> QED BY <3>2, <3>3
  <2>10. CASE EndOfList
    <3>1. /\ wlExtra' = arr /\ wlLen' = len /\ pc = "parse" /\ pc' = "options"
          /\ UNCHANGED <<args, stateSet, listenOnly, arr, cap, len, heap, misuse, rc>>
      BY <2>10 DEF EndOfList
    <3> QED BY <3>1 DEF TypeOK, Exclusive, Owner, Live
  <2>11. CASE EndOfOptions
    BY <2>11 DEF EndOfOptions, TypeOK, Exclusive, Owner, Live
  <2>12. CASE Run
    <3>1. /\ UNCHANGED <<args, stateSet, listenOnly, wlExtra, wlLen, arr, cap, len, heap>>
          /\ pc = "run" /\ pc' = "out" /\ rc' \in {0, 1, 2}
      BY <2>12 DEF Run, GoOut
    <3>2. ~(wlLen > 0 /\ wlExtra \notin Live)
      BY <3>1 DEF Owner
    <3>4. misuse' = (misuse \/ (wlLen > 0 /\ wlExtra \notin Live))
      BY <2>12 DEF Run
    <3>3. ~misuse' /\ misuse' \in BOOLEAN
      BY <3>2, <3>4, Zenon DEF Owner
    <3> QED BY <3>1, <3>3 DEF TypeOK, Exclusive, Owner, Live
  <2>13. CASE Out
    <3>1. DOMAIN heap' = {} /\ heap' \in [DOMAIN heap' -> Nat] /\ ~misuse' /\ misuse' \in BOOLEAN
      BY <2>13, FreeLast DEF Out, Owner, TypeOK
    <3>2. pc' = "exited" /\ UNCHANGED <<args, stateSet, listenOnly, wlExtra, wlLen, arr, cap, len, rc>>
      BY <2>13 DEF Out
    <3> QED BY <3>1, <3>2 DEF TypeOK, Exclusive, Owner, Live
  <2>14. CASE UNCHANGED vars
    BY <2>14 DEF vars, TypeOK, Exclusive, Owner, Live
  <2> QED BY <2>1, <2>2, <2>3, <2>4, <2>5, <2>6, <2>7, <2>8, <2>9, <2>10, <2>11, <2>12, <2>13, <2>14 DEF Next, Exited
<1> QED BY <1>1, <1>2, PTL DEF Spec

\* Types, for any command line.
THEOREM TypeCorrect == Spec => []TypeOK
<1>1. CliInv => TypeOK
  BY DEF CliInv
<1> QED BY <1>1, CliInvariant, PTL

\* --state and --listen never reach the filters together, in whichever order
\* and however often they are given.
THEOREM StateOrListen == Spec => []Exclusive
<1>1. CliInv => Exclusive
  BY DEF CliInv
<1> QED BY <1>1, CliInvariant, PTL

\* No double free, no use after free and no leak, for any number of lists,
\* good and bad, and any failing allocation.
THEOREM MemoryCorrect == Spec => []MemorySafe
<1>1. CliInv => MemorySafe
  BY DEF CliInv, Owner, MemorySafe
<1> QED BY <1>1, CliInvariant, PTL

\* The whitelist is read and written only inside its block.
THEOREM WhitelistInBounds == Spec => []InBounds
<1>1. CliInv => InBounds
  BY DEF CliInv, Owner, InBounds, Live
<1> QED BY <1>1, CliInvariant, PTL
=============================================================================
