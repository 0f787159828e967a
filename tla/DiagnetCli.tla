----------------------------- MODULE DiagnetCli -----------------------------
(***************************************************************************)
(* The command line of diagnet: the option loop of diagnet_main            *)
(* (diagnet.c) with diagnet_policy_parse_whitelist (diagnet_policy.c), the *)
(* run that follows, and the end.  Of the options only those that depend   *)
(* on each other or own memory have a state; the others are good or bad.   *)
(***************************************************************************)
EXTENDS Integers, FiniteSets

CONSTANTS
    Blocks,     \* addresses malloc may return
    FirstCap,   \* the first capacity of the whitelist (8 in the code)
    MaxOptions, \* bound: options of one command line
    MaxPorts    \* bound: ports of one --whitelist

NULL == "NULL"

ASSUME CliAssumption ==
    /\ NULL \notin Blocks
    /\ FirstCap \in Nat \ {0} /\ MaxOptions \in Nat /\ MaxPorts \in Nat

VARIABLES
    pc,        \* where diagnet_main is
    args,      \* options read so far
    stateSet, listenOnly,   \* ctx.filter.state_set, listen_only
    wlExtra, wlLen,         \* ctx.wl_extra, ctx.wl_extra_len
    arr, cap, len,          \* the array diagnet_policy_parse_whitelist builds
    heap,      \* the live blocks and their capacities
    misuse,    \* history: a dead block was freed, read or written
    rc         \* what diagnet_main returns

filter == <<stateSet, listenOnly>>
whitelist == <<wlExtra, wlLen>>
parser == <<arr, cap, len>>
memory == <<heap, misuse>>
vars == <<pc, args, filter, whitelist, parser, memory, rc>>

Init ==
    /\ pc = "options"
    /\ args = 0
    /\ stateSet = FALSE /\ listenOnly = FALSE
    /\ wlExtra = NULL /\ wlLen = 0
    /\ arr = NULL /\ cap = 0 /\ len = 0
    /\ heap = [b \in {} |-> 0]
    /\ misuse = FALSE
    /\ rc = 0

-----------------------------------------------------------------------------
(* malloc and free.                                                        *)

Live == DOMAIN heap

Free(p) ==
    /\ heap' = [b \in Live \ {p} |-> heap[b]]
    /\ misuse' = (misuse \/ (p # NULL /\ p \notin Live))

\* realloc of p to n elements, the block moving or not.
Realloc(p, n) ==
    \E b \in (Blocks \ Live) \cup ({p} \ {NULL}) :
        /\ arr' = b
        /\ heap' = [c \in (Live \ {p}) \cup {b} |-> IF c = b THEN n ELSE heap[c]]
        /\ misuse' = (misuse \/ (p # NULL /\ p \notin Live))

-----------------------------------------------------------------------------
(* The option loop.                                                        *)

NextOption == pc = "options" /\ args < MaxOptions /\ args' = args + 1

\* rc = code; goto out.
GoOut(code) == pc' = "out" /\ rc' = code

\* --proto, --local-port, --sort, --output and the like, with a good value.
PlainOption ==
    /\ NextOption
    /\ UNCHANGED <<pc, filter, whitelist, parser, memory, rc>>

\* An unknown option or a value that is not one; also a word after the options.
BadOption ==
    /\ NextOption
    /\ GoOut(2)
    /\ UNCHANGED <<filter, whitelist, parser, memory>>

\* --state with a state: excludes --listen before it.
OptState ==
    /\ NextOption
    /\ IF listenOnly
       THEN GoOut(2) /\ UNCHANGED filter
       ELSE stateSet' = TRUE /\ UNCHANGED <<pc, rc, listenOnly>>
    /\ UNCHANGED <<whitelist, parser, memory>>

\* --listen: excludes --state before it.
OptListen_OneWay ==                \* mutant: the exclusion is only checked at --state
    /\ NextOption
    /\ listenOnly' = TRUE
    /\ UNCHANGED <<pc, rc, stateSet, whitelist, parser, memory>>
OptListen ==
    /\ NextOption
    /\ IF stateSet
       THEN GoOut(2) /\ UNCHANGED filter
       ELSE listenOnly' = TRUE /\ UNCHANGED <<pc, rc, stateSet>>
    /\ UNCHANGED <<whitelist, parser, memory>>

\* --help prints and ends with 0.
OptHelp ==
    /\ NextOption
    /\ GoOut(0)
    /\ UNCHANGED <<filter, whitelist, parser, memory>>

\* --whitelist: the earlier list is freed, and the parser begins by clearing
\* both results.
OptWhitelist_NoReset ==            \* mutant: the results are left until the end
    /\ NextOption
    /\ Free(wlExtra)
    /\ arr' = NULL /\ cap' = 0 /\ len' = 0
    /\ pc' = "parse"
    /\ UNCHANGED <<filter, whitelist, rc>>
OptWhitelist ==
    /\ NextOption
    /\ Free(wlExtra)
    /\ wlExtra' = NULL /\ wlLen' = 0
    /\ arr' = NULL /\ cap' = 0 /\ len' = 0
    /\ pc' = "parse"
    /\ UNCHANGED <<filter, rc>>

-----------------------------------------------------------------------------
(* diagnet_policy_parse_whitelist, one token at a time.                    *)

\* Too long, or no port number: nothing is kept.
BadPort ==
    /\ pc = "parse"
    /\ Free(arr)
    /\ GoOut(2)
    /\ UNCHANGED <<args, filter, whitelist, parser>>

\* A port; the array grows when it is full.  cap is set before realloc.
GoodPort_Late ==                   \* mutant: the array grows one port late
    /\ pc = "parse" /\ len < MaxPorts
    /\ IF len > cap \/ cap = 0
       THEN /\ cap' = (IF cap = 0 THEN FirstCap ELSE 2 * cap)
            /\ Realloc(arr, cap')
       ELSE UNCHANGED <<arr, cap, memory>>
    /\ len' = len + 1
    /\ UNCHANGED <<pc, args, filter, whitelist, rc>>
GoodPort ==
    /\ pc = "parse" /\ len < MaxPorts
    /\ IF len >= cap
       THEN /\ cap' = (IF cap = 0 THEN FirstCap ELSE 2 * cap)
            /\ Realloc(arr, cap')
       ELSE UNCHANGED <<arr, cap, memory>>
    /\ len' = len + 1
    /\ UNCHANGED <<pc, args, filter, whitelist, rc>>

\* realloc fails.
NoMemory ==
    /\ pc = "parse" /\ len < MaxPorts /\ len >= cap
    /\ cap' = (IF cap = 0 THEN FirstCap ELSE 2 * cap)
    /\ Free(arr)
    /\ GoOut(2)
    /\ UNCHANGED <<args, filter, whitelist, arr, len>>

EndOfList ==
    /\ pc = "parse"
    /\ wlExtra' = arr /\ wlLen' = len
    /\ pc' = "options"
    /\ UNCHANGED <<args, filter, parser, memory, rc>>

-----------------------------------------------------------------------------
(* The run and the end.                                                    *)

EndOfOptions ==
    /\ pc = "options"
    /\ pc' = "run"
    /\ UNCHANGED <<args, filter, whitelist, parser, memory, rc>>

\* diagnet_collect_run and the report: DiagnetCollect.  The whitelist is read.
Run ==
    /\ pc = "run"
    /\ misuse' = (misuse \/ (wlLen > 0 /\ wlExtra \notin Live))
    /\ \E failed \in BOOLEAN :
        IF failed THEN GoOut(1) ELSE GoOut(0)
    /\ UNCHANGED <<args, filter, whitelist, parser, heap>>

Out ==
    /\ pc = "out"
    /\ Free(wlExtra)
    /\ pc' = "exited"
    /\ UNCHANGED <<args, filter, whitelist, parser, rc>>

Exited == pc = "exited" /\ UNCHANGED vars

Next ==
    \/ PlainOption \/ BadOption \/ OptState \/ OptListen \/ OptHelp \/ OptWhitelist
    \/ BadPort \/ GoodPort \/ NoMemory \/ EndOfList
    \/ EndOfOptions \/ Run \/ Out \/ Exited

Spec == Init /\ [][Next]_vars

-----------------------------------------------------------------------------
(* Properties.                                                             *)

Pointers == Blocks \cup {NULL}

\* Every variable has its type.
TypeOK ==
    /\ pc \in {"options", "parse", "run", "out", "exited"}
    /\ args \in 0 .. MaxOptions
    /\ stateSet \in BOOLEAN /\ listenOnly \in BOOLEAN /\ misuse \in BOOLEAN
    /\ wlExtra \in Pointers /\ arr \in Pointers
    /\ wlLen \in 0 .. MaxPorts /\ len \in 0 .. MaxPorts /\ cap \in Nat
    /\ Live \subseteq Blocks /\ heap \in [Live -> Nat]
    /\ rc \in {0, 1, 2}

\* The two ways to ask for listeners exclude each other in either order: no
\* run looks at both.
Exclusive == ~(stateSet /\ listenOnly)

\* No whitelist block is freed twice or used after it was freed, whatever the
\* order of good and bad lists and whichever reallocation fails, and none is
\* left when the program ends.
MemorySafe ==
    /\ ~misuse
    /\ pc = "exited" => Live = {}

\* The lengths never reach beyond the blocks: neither while the list is read
\* nor for diagnet_policy_is_whitelisted, which reads wl_extra[0 .. len - 1].
InBounds ==
    /\ pc = "parse" /\ len > 0 => arr \in Live /\ len <= heap[arr]
    /\ pc \in {"options", "run"} /\ wlLen > 0 => wlExtra \in Live /\ wlLen <= heap[wlExtra]
=============================================================================
