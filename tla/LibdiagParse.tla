---------------------------- MODULE LibdiagParse ----------------------------
(***************************************************************************)
(* The text libdiag reads: numbers (diag_parse.c), the address:port fields *)
(* of /proc/net/tcp (diag_net.c) and the line of /proc/PID/stat            *)
(* (diag_proc.c).  Each parser is an operator that returns the set of what *)
(* it stores: empty when it reports an error.  The state is a text that    *)
(* grows by one character at a time, so that every text up to a length is  *)
(* put to the parsers.                                                     *)
(***************************************************************************)
EXTENDS Integers, Sequences, SequencesExt, Functions

CONSTANTS
    Digits,      \* the digits in ascending order, as many as the base
    LongDigits,  \* digits of an unsigned long
    ByteDigits,  \* digits of a byte; an address and an unsigned int have four
    PortDigits,  \* digits of a port
    Before,      \* numbers of a stat line between ppid and utime: nine, pgrp to cmajflt
    Fields,      \* numbers of a stat line behind the state
    NameMax,     \* DIAG_NAME_MAX - 1
    Alphabet,    \* for each kind of text, its characters
    MaxText      \* bound: the lengths up to which it grows

Base == Len(Digits)
Digit == ToSet(Digits)
White == {" ", "\n"}

ASSUME ParseAssumption ==
    /\ Digits \in Seq(STRING) /\ Base >= 2 /\ IsInjective(Digits) /\ Digits[1] = "0"
    /\ Digit \cap {" ", "\n", "+", "-", "x", ":", "(", ")"} = {}
    /\ LongDigits \in Nat /\ ByteDigits \in Nat \ {0} /\ PortDigits \in Nat \ {0}
    /\ LongDigits >= 4 * ByteDigits /\ PortDigits <= 4 * ByteDigits
    /\ Before \in Nat /\ Fields \in Nat /\ Fields >= Before + 4 /\ NameMax \in Nat
    /\ \A k \in DOMAIN Alphabet : MaxText[k] \in Nat
    \* TASK_COMM_LEN: a name is too short to hold the numbers that are read.
    /\ "name" \in DOMAIN Alphabet => MaxText["name"] <= NameMax /\ MaxText["name"] < 2 * Before + 11

VARIABLES kind, text
texts == <<kind, text>>

Empty == kind \in DOMAIN Alphabet /\ text = <<>>

Type(c) == Len(text) < MaxText[kind] /\ text' = Append(text, c) /\ UNCHANGED kind

Typing == \E c \in Alphabet[kind] : Type(c)
TextSpec == Empty /\ [][Typing]_texts

-----------------------------------------------------------------------------
(* The C library.                                                          *)

Take(s, n) == SubSeq(s, 1, n)
Drop(s, n) == SubSeq(s, n + 1, Len(s))
Lesser(m, n) == IF m < n THEN m ELSE n

\* How many characters of a set s begins with.
Span(s, S) ==
    CHOOSE n \in 0 .. Len(s) :
        (\A i \in 1 .. n : s[i] \in S) /\ (n = Len(s) \/ s[n + 1] \notin S)

Power[n \in Nat] == IF n = 0 THEN 1 ELSE Base * Power[n - 1]

DigitValue(c) == CHOOSE d \in 0 .. Base - 1 : Digits[d + 1] = c
ValueOf(digits) ==
    LET value[n \in 0 .. Len(digits)] ==
            IF n = 0 THEN 0 ELSE value[n - 1] * Base + DigitValue(digits[n])
    IN  value[Len(digits)]

\* White space, a sign, after which hexadecimal digits may follow a 0x, and
\* digits; what remains of s when there are none is s.
Scan(s, hex) ==
    LET body == Drop(s, Span(s, White))
        sign == Take(body, Lesser(Span(body, {"+", "-"}), 1))
        tail == Drop(body, Len(sign))
        prefix == IF hex /\ Len(tail) > 2 /\ Take(tail, 2) = <<"0", "x">> /\ tail[3] \in Digit
                  THEN 2 ELSE 0
        digits == Drop(tail, prefix)
        n == Span(digits, Digit)
    IN  [found |-> n > 0, negative |-> sign = <<"-">>, value |-> ValueOf(Take(digits, n)),
         rest |-> IF n > 0 THEN Drop(digits, n) ELSE s]

ULong == Power[LongDigits]
Strtoul(s, hex) ==
    LET r == Scan(s, hex)
    IN  [found |-> r.found, rest |-> r.rest, range |-> r.value < ULong,
         value |-> IF r.value >= ULong THEN ULong - 1
                   ELSE IF r.negative THEN (ULong - r.value) % ULong ELSE r.value]

-----------------------------------------------------------------------------
(* diag_parse.c.                                                           *)

ParseUlong_Prefix(s) ==                    \* mutant: *end is not looked at
    LET r == Strtoul(s, FALSE)
    IN  IF s # <<>> /\ r.range /\ r.found THEN {r.value} ELSE {}
ParseUlong(s) ==
    LET r == Strtoul(s, FALSE)
    IN  IF s # <<>> /\ r.range /\ r.found /\ r.rest = <<>> THEN {r.value} ELSE {}

Byte == Power[ByteDigits]
U32 == Power[4 * ByteDigits]
ParseHexU32(s) ==
    LET r == Strtoul(s, TRUE)
    IN  IF s # <<>> /\ r.range /\ r.found /\ r.rest = <<>> /\ r.value < U32 THEN {r.value} ELSE {}

\* The number is the address as a word of a little-endian host: its lowest
\* byte is the first of the four.
Octets(v) == [i \in 1 .. 4 |-> (v \div Power[ByteDigits * (i - 1)]) % Byte]
Ipv4HexLe_AnyLength(hex) ==                \* mutant: no strlen
    {Octets(v) : v \in ParseHexU32(hex)}
Ipv4HexLe(hex) ==
    IF Len(hex) = 4 * ByteDigits THEN {Octets(v) : v \in ParseHexU32(hex)} ELSE {}

-----------------------------------------------------------------------------
(* parse_addr_port: digits up to the width of an address, a colon, digits  *)
(* up to that of a port.  What follows is not looked at.                   *)

ParseAddrPort(field) ==
    LET a == Lesser(Span(field, Digit), 4 * ByteDigits)
        port == Drop(field, a + 1)
        p == Lesser(Span(port, Digit), PortDigits)
    IN  IF a > 0 /\ Len(field) > a /\ field[a + 1] = ":" /\ p > 0
        THEN Ipv4HexLe(Take(field, a)) \X ParseHexU32(Take(port, p))
        ELSE {}

-----------------------------------------------------------------------------
(* read_file_first_line and diag_proc_parse_stat_line.                     *)

FirstLine(s) == Take(s, Lesser(Span(s, ToSet(s) \ {"\n"}) + 1, Len(s)))

\* The numbers that are converted: ppid, then ten that are skipped, one more than
\* there are before utime, and two that are stored.
Skipped == Before + 1
Conversions == 1 + Skipped + 2

\* One conversion of sscanf after another, while they succeed.
ScanNext(st) ==
    LET r == Scan(st.rest, FALSE)
    IN  IF st.ok /\ r.found THEN [ok |-> TRUE, rest |-> r.rest, numbers |-> Append(st.numbers, r.value)]
        ELSE [st EXCEPT !.ok = FALSE]
ScanNumbers(s) ==
    LET after[i \in 0 .. Conversions] ==
            IF i = 0 THEN [ok |-> TRUE, rest |-> s, numbers |-> <<>>] ELSE ScanNext(after[i - 1])
    IN  after[Conversions]

\* The name lies between the first "(" and the last ")"; a blank follows,
\* then the state.  A line does not end in ")", for the kernel goes on.
ParseStatBetween(line, L, R) ==
    IF L = {} \/ R = {} THEN {}
    ELSE LET l == CHOOSE i \in L : \A j \in L : i <= j
             r == CHOOSE i \in R : \A j \in R : j <= i
             after == Drop(line, r + 1)
             scan == ScanNumbers(Tail(after))
         IN  IF r > l /\ after # <<>> /\ scan.ok
             THEN {[name |-> Take(SubSeq(line, l + 1, r - 1), Lesser(r - l - 1, NameMax)),
                    state |-> after[1], ppid |-> scan.numbers[1],
                    utime |-> scan.numbers[Conversions - 1], stime |-> scan.numbers[Conversions]]}
             ELSE {}

At(line, c) == {i \in DOMAIN line : line[i] = c}
ParseStatLine_FirstParen(line) ==          \* mutant: strchr for both
    LET R == At(line, ")")
    IN  ParseStatBetween(line, At(line, "("), {i \in R : \A j \in R : i <= j})
ParseStatLine(line) == ParseStatBetween(line, At(line, "("), At(line, ")"))

-----------------------------------------------------------------------------
(* Properties.                                                             *)

\* The digits of v, as printf prints them with this width and leading zeros,
\* and the number that is printed so.
Number(v, width) == [i \in 1 .. width |-> Digits[((v \div Power[width - i]) % Base) + 1]]
NumberOf(ds) == CHOOSE v \in 0 .. Power[Len(ds)] - 1 : Number(v, Len(ds)) = ds

\* What a text says as a number: it is one from its first character to its
\* last, blanks and a sign in front (and 0x where hex allows it), and fits
\* into an unsigned long; a minus sign counts back from the largest.
Signs == {<<>>, <<"+">>, <<"-">>}
Leads(hex) == IF hex THEN {<<>>, <<"0", "x">>} ELSE {<<>>}
Reads(t, m, sign, hex) ==
    /\ \E n \in 0 .. m, prefix \in Leads(hex) :
          ToSet(Take(t, n)) \subseteq White /\ SubSeq(t, n + 1, m) = sign \o prefix
    /\ ToSet(Drop(t, m)) \subseteq Digit
    /\ NumberOf(Drop(t, m)) < ULong
Signed(sign, v) == IF sign = <<"-">> THEN (ULong - v) % ULong ELSE v
Says(t, hex) ==
    UNION {{Signed(sign, NumberOf(Drop(t, m))) : m \in {k \in 0 .. Len(t) - 1 : Reads(t, k, sign, hex)}} :
           sign \in Signs}

\* diag_parse_ulong takes exactly the texts that are numbers and fit, for
\* what they say, and diag_parse_hex_u32 those that also fit into 32 bits:
\* neither takes a number with something behind it, an overflow or no digit
\* for a value (libdiag/examples/test_parse.c).
NumberMeans ==
    kind = "number" =>
        /\ ParseUlong(text) = Says(text, FALSE)
        /\ ParseHexU32(text) = {v \in Says(text, TRUE) : v < U32}

\* What the kernel prints for the address with these four bytes, on a host
\* that stores a word with its lowest byte first.
Printed(octets) ==
    Number(octets[4], ByteDigits) \o Number(octets[3], ByteDigits)
        \o Number(octets[2], ByteDigits) \o Number(octets[1], ByteDigits)

\* A field is taken for an address and a port exactly when it begins as the
\* kernel prints that address, then a colon, and the port is what all its
\* leading digits say, up to the width of a port: neither a longer address
\* (/proc/net/tcp6) nor a shorter one passes.
Written(octets, port, w) == Printed(octets) \o <<":">> \o Number(port, w)
Shows(field, octets, port) ==
    \E w \in 1 .. PortDigits :
        /\ port < Power[w] /\ IsPrefix(Written(octets, port, w), field)
        /\ w = PortDigits \/ Len(field) = 4 * ByteDigits + 1 + w
           \/ field[4 * ByteDigits + 2 + w] \notin Digit
AddressExact ==
    kind = "address" =>
        ParseAddrPort(text) =
            {a \in [1 .. 4 -> 0 .. Byte - 1] \X (0 .. Power[PortDigits] - 1) : Shows(text, a[1], a[2])}

\* The line the kernel prints for a process: its name is any text, blanks,
\* parentheses and digits included.
StatLine(name, state, numbers) ==
    <<"1", " ", "(">> \o name \o <<")", " ", state>>
        \o [i \in 1 .. 2 * Fields |-> IF i % 2 = 1 THEN " " ELSE numbers[i \div 2]] \o <<"\n">>

\* Where the kernel prints the times of a process.
UtimeAt == 1 + Before + 1
StimeAt == UtimeAt + 1
CutimeAt == UtimeAt + 2

\* Whatever the name of a process, its line is read for its name, state and parent
\* or, when a line feed in the name cuts it, refused; a name never passes for the
\* fields that follow it.  The two times are not those the comment at
\* diag_proc.c:79-85 names: the stime of the line is stored as utime, and its cutime
\* as stime.
StatExact ==
    kind = "name" =>
        \A state \in {"R", "S"}, numbers \in [1 .. Fields -> Digit] :
            ParseStatLine(FirstLine(StatLine(text, state, numbers))) =
                IF "\n" \in ToSet(text) THEN {}
                ELSE {[name |-> text, state |-> state, ppid |-> ValueOf(<<numbers[1]>>),
                       utime |-> ValueOf(<<numbers[StimeAt]>>), stime |-> ValueOf(<<numbers[CutimeAt]>>)]}
=============================================================================
