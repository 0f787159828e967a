--------------------------- MODULE DiagnetCollect ---------------------------
(***************************************************************************)
(* One run of diagnet after its options: diagnet_collect.c reads the two   *)
(* socket tables through libdiag (diag_reader.c, diag_net.c) line by line, *)
(* and diagnet_state.c, diagnet_filter.c, diagnet_policy.c and             *)
(* diagnet_analyze.c convert, filter, judge, count and keep each entry;    *)
(* diagnet_output.c reports them.                                          *)
(*                                                                         *)
(* The kernel decides what the next line is while the file is being read;  *)
(* any open, read or reallocation may fail.  Of the seven keys an entry    *)
(* may be filtered by, protocol, state and local port are kept: the other  *)
(* port and the two addresses are compared in the same way.                *)
(***************************************************************************)
EXTENDS Integers, Sequences, FiniteSets, Functions

CONSTANTS
    TcpStates,     \* the connection states that occur in the TCP table
    Rank,          \* the numbers of diagnet_state_t, which --sort state uses
    Ports,         \* local ports
    Whitelist,     \* the ports of the built-in whitelist and of --whitelist
    FirstCap,      \* the first capacity of the record array (64 in the code)
    ManyTimeWait,  \* DIAGNET_MANY_TIME_WAIT_THRESHOLD
    MaxLines       \* bound: entries of one table

States == TcpStates \cup {"NONE"}

ASSUME CollectAssumption ==
    /\ {"LISTEN", "TIME_WAIT"} \subseteq TcpStates
    /\ "NONE" \notin TcpStates
    /\ Rank \in [States -> Nat]
    /\ Ports \subseteq Nat /\ Whitelist \subseteq Ports
    /\ FirstCap \in Nat \ {0} /\ ManyTimeWait \in Nat \ {0} /\ MaxLines \in Nat

VARIABLES
    pc,        \* the table being read, or the step of main() after it
    filter,    \* ctx.filter and ctx.stats_only
    lineNo,    \* net_foreach_ctx_t.line_no of the table being read
    tcpTotal, udpTotal, stateCounts, suspicious,   \* the counters of ctx
    records,   \* ctx.records[0 .. count - 1]
    cap,       \* ctx.cap
    warned,    \* DIAGNET_WARN_MANY_TIME_WAIT is set
    printed,   \* a report has been written
    report,    \* what is in it
    rc,        \* what main() returns
    seen,      \* history: the entries the kernel has shown, converted
    ended      \* history: the tables read to their end

counters == <<tcpTotal, udpTotal, stateCounts, suspicious>>
result == <<counters, records, cap>>
output == <<printed, report>>
vars == <<pc, filter, lineNo, result, warned, output, rc, seen, ended>>

Protos == {"tcp", "udp"}

Filters ==
    [proto : Protos \cup {"all"}, state : States \cup {"any"}, ports : {Ports} \cup {{p} : p \in Ports},
     suspiciousOnly : BOOLEAN, statsOnly : BOOLEAN, sort : {"none", "state", "port"}]

Conns == [proto : Protos, state : States, port : Ports]

\* A line of a list, and a report: the lines, the total and the number of
\* entries in each state that occurs, the number of suspicious entries, the
\* warning on standard output and on standard error.
Rows == [conn : Conns, flagged : BOOLEAN]
Reports ==
    [kind : {"none", "table", "raw", "json", "stats"}, rows : Seq(Rows), total : Nat,
     states : [States -> Nat], suspicious : Nat, stdout : BOOLEAN, stderr : BOOLEAN]
NoStates == [s \in States |-> 0]

Wants(proto) == filter.proto \in {"all", proto}

Init ==
    /\ filter \in Filters
    /\ pc = "tcp"
    /\ lineNo = 0
    /\ tcpTotal = 0 /\ udpTotal = 0
    /\ stateCounts = NoStates
    /\ suspicious = 0
    /\ records = <<>>
    /\ cap = 0
    /\ warned = FALSE
    /\ printed = FALSE
    /\ report = [kind |-> "none", rows |-> <<>>, total |-> 0, states |-> NoStates,
                 suspicious |-> 0, stdout |-> FALSE, stderr |-> FALSE]
    /\ rc = 0
    /\ seen = <<>>
    /\ ended = {}

-----------------------------------------------------------------------------
(* collect_cb, for one entry.                                              *)

\* An entry of the table being read; UDP has no state machine, and the state
\* byte of its lines is dropped.
Convert_Byte(state, port) ==       \* mutant: the state byte of UDP is kept
    [proto |-> pc, state |-> state, port |-> port]
Convert(state, port) ==
    [proto |-> pc, state |-> IF pc = "udp" THEN "NONE" ELSE state, port |-> port]

FilterMatch(c) ==
    /\ Wants(c.proto)
    /\ filter.state \in {"any", c.state}
    /\ c.port \in filter.ports

Suspicious(c) == c.state = "LISTEN" /\ c.port \notin Whitelist

Accepted(c) == FilterMatch(c) /\ (filter.suspiciousOnly => Suspicious(c))

\* diagnet_analyze_account.
Account(c) ==
    /\ tcpTotal' = tcpTotal + (IF c.proto = "tcp" THEN 1 ELSE 0)
    /\ udpTotal' = udpTotal + (IF c.proto = "udp" THEN 1 ELSE 0)
    /\ stateCounts' = [stateCounts EXCEPT ![c.state] = @ + 1]
    /\ suspicious' = suspicious + (IF Suspicious(c) THEN 1 ELSE 0)

\* diagnet_records_append, with room or after the array has grown.
Append1_Full(c) ==                 \* mutant: the array grows one entry late
    /\ records' = Append(records, c)
    /\ cap' = IF Len(records) > cap THEN (IF cap = 0 THEN FirstCap ELSE 2 * cap) ELSE cap
Append1(c) ==
    /\ records' = Append(records, c)
    /\ cap' = IF Len(records) >= cap THEN (IF cap = 0 THEN FirstCap ELSE 2 * cap) ELSE cap

-----------------------------------------------------------------------------
(* diag_foreach_line over /proc/net/tcp, then over /proc/net/udp.          *)

Reading == pc \in Protos /\ Wants(pc)
NextTable == IF pc = "tcp" THEN "udp" ELSE "finish"

\* The options do not ask for this protocol.
SkipTable ==
    /\ pc \in Protos /\ ~Wants(pc)
    /\ pc' = NextTable
    /\ lineNo' = 0
    /\ UNCHANGED <<filter, result, warned, output, rc, seen, ended>>

\* fopen fails, or a read does, after any number of lines.
TableFails_Ignored ==              \* mutant: what was read before the failure is taken for all
    /\ Reading
    /\ pc' = NextTable
    /\ lineNo' = 0
    /\ UNCHANGED <<filter, result, warned, output, rc, seen, ended>>
TableFails ==
    /\ Reading
    /\ pc' = "out"
    /\ rc' = 1
    /\ UNCHANGED <<filter, lineNo, result, warned, output, seen, ended>>

EndOfTable ==
    /\ Reading
    /\ pc' = NextTable
    /\ lineNo' = 0
    /\ ended' = ended \cup {pc}
    /\ UNCHANGED <<filter, result, warned, output, rc, seen>>

\* The header, or a line that parse_net_line rejects.
SkipLine ==
    /\ Reading
    /\ lineNo <= MaxLines
    /\ lineNo' = lineNo + 1
    /\ UNCHANGED <<pc, filter, result, warned, output, rc, seen, ended>>

\* The next line is this entry.
Show(c) ==
    /\ Reading
    /\ lineNo \in 1 .. MaxLines
    /\ lineNo' = lineNo + 1
    /\ seen' = Append(seen, c)

Reject_Counted(c) ==               \* mutant: counted before --suspicious is looked at
    /\ Show(c)
    /\ ~Accepted(c)
    /\ IF FilterMatch(c) THEN Account(c) ELSE UNCHANGED counters
    /\ UNCHANGED <<pc, filter, records, cap, warned, output, rc, ended>>
Reject(c) ==
    /\ Show(c)
    /\ ~Accepted(c)
    /\ UNCHANGED <<pc, filter, result, warned, output, rc, ended>>

Keep(c) ==
    /\ Show(c)
    /\ Accepted(c)
    /\ Account(c)
    /\ IF filter.statsOnly THEN UNCHANGED <<records, cap>> ELSE Append1(c)
    /\ UNCHANGED <<pc, filter, warned, output, rc, ended>>

\* The array is full and realloc fails: counted, not kept, and the run ends.
KeepFails_GoesOn(c) ==             \* mutant: the record is lost and the run goes on
    /\ Show(c)
    /\ Accepted(c) /\ ~filter.statsOnly /\ Len(records) >= cap
    /\ Account(c)
    /\ UNCHANGED <<pc, filter, records, cap, warned, output, rc, ended>>
KeepFails(c) ==
    /\ Show(c)
    /\ Accepted(c) /\ ~filter.statsOnly /\ Len(records) >= cap
    /\ Account(c)
    /\ pc' = "out"
    /\ rc' = 1
    /\ UNCHANGED <<filter, records, cap, warned, output, ended>>

ReadLine ==
    \E state \in TcpStates, port \in Ports :
        Reject(Convert(state, port)) \/ Keep(Convert(state, port)) \/ KeepFails(Convert(state, port))

-----------------------------------------------------------------------------
(* After the tables: warnings and sort, the report, the end.               *)

\* cmp_state, cmp_lport; without --sort every order of the table is kept.
Ordered(s) ==
    \A i, j \in DOMAIN s : i < j =>
        /\ filter.sort = "state" => Rank[s[i].state] <= Rank[s[j].state]
        /\ filter.sort = "port" => s[i].port <= s[j].port

\* diagnet_records_sort: qsort leaves entries with equal keys in any order.
Sorts(s) ==
    IF filter.sort = "none" \/ Len(s) <= 1 THEN {s}
    ELSE {t \in {[i \in DOMAIN s |-> s[p[i]]] : p \in Bijection(DOMAIN s, DOMAIN s)} : Ordered(t)}

\* diagnet_policy_update_global_warnings.
ManyObserved == stateCounts["TIME_WAIT"] >= ManyTimeWait

\* Warnings, then diagnet_records_sort.
Finish ==
    /\ pc = "finish"
    /\ warned' = ManyObserved
    /\ records' \in Sorts(records)
    /\ pc' = "output"
    /\ UNCHANGED <<filter, lineNo, counters, cap, output, rc, seen, ended>>

\* The line of an entry: what it is and its flags.
Row(c) == [conn |-> c, flagged |-> Suspicious(c)]

\* diagnet_output_warnings_stderr.
OnStderr(quiet) == warned /\ ~quiet

\* What diagnet_output_table, _raw, _json or _stats prints. With --stats there
\* is no list; a format other than JSON is replaced by diagnet_output_stats.
Document(format, quiet) ==
    LET kind == IF filter.statsOnly /\ format # "json" THEN "stats" ELSE format
        sums == kind \in {"json", "stats"}
    IN  [kind |-> kind,
         rows |-> [i \in DOMAIN records |-> Row(records[i])],
         total |-> IF sums THEN tcpTotal + udpTotal ELSE 0,
         states |-> IF sums THEN stateCounts ELSE NoStates,
         suspicious |-> IF kind = "stats" THEN suspicious ELSE 0,
         stdout |-> kind = "json" /\ warned,
         stderr |-> OnStderr(quiet)]

\* --output and --quiet, which nothing has looked at before, choose the report.
Output ==
    /\ pc = "output"
    /\ printed' = TRUE
    /\ \E format \in {"table", "raw", "json"}, quiet \in BOOLEAN : report' = Document(format, quiet)
    /\ pc' = "out"
    /\ UNCHANGED <<filter, lineNo, result, warned, rc, seen, ended>>

\* free(records) and return.
Out ==
    /\ pc = "out"
    /\ pc' = "exited"
    /\ records' = <<>>
    /\ cap' = 0
    /\ UNCHANGED <<filter, lineNo, counters, warned, output, rc, seen, ended>>

Exited == pc = "exited" /\ UNCHANGED vars

Next ==
    \/ SkipTable \/ TableFails \/ EndOfTable \/ SkipLine
    \/ ReadLine
    \/ Finish \/ Output \/ Out \/ Exited

Spec == Init /\ [][Next]_vars

-----------------------------------------------------------------------------
(* Properties.                                                             *)

\* Every variable has its type, and the records fit into the array.
TypeOK ==
    /\ pc \in Protos \cup {"finish", "output", "out", "exited"}
    /\ filter \in Filters
    /\ lineNo \in 0 .. MaxLines + 1
    /\ tcpTotal \in Nat /\ udpTotal \in Nat /\ suspicious \in Nat
    /\ stateCounts \in [States -> Nat]
    /\ records \in Seq(Conns) /\ cap \in Nat /\ Len(records) <= cap
    /\ warned \in BOOLEAN /\ printed \in BOOLEAN /\ report \in Reports /\ rc \in {0, 1}
    /\ seen \in Seq(Conns) /\ ended \subseteq Protos

\* The counters of the summary agree at every entry: the state NONE counts
\* exactly the UDP entries, and no more than the listeners are suspicious.
Balanced ==
    /\ stateCounts["NONE"] = udpTotal
    /\ suspicious <= stateCounts["LISTEN"]

\* The statistics and the list tell the same story: with a list, as many
\* entries were counted as were kept, except for one that found no memory.
ListMatchesCounts ==
    ~filter.statsOnly /\ pc # "exited" =>
        (tcpTotal + udpTotal) - Len(records) \in 0 .. rc

\* diagnet keeps the promise of DiagReport: it has confirmed when each table the
\* options ask for was read to its end, so there is no partial report; a run
\* that fails has printed nothing and one that returns 0 has come to its report.
Confirmed == ended = {p \in Protos : Wants(p)}
Promise == INSTANCE DiagReport WITH
    Failures <- {1},
    phase <- IF pc = "exited" THEN "ended" ELSE IF Confirmed THEN "reporting" ELSE "measuring",
    shown <- printed,
    rc <- IF pc = "exited" THEN rc ELSE 0
ImplementsReport == Promise!Spec

\* What is printed is what the kernel showed and the options accept, each entry
\* once: a list holds these entries, in the order asked for; the sums of JSON
\* and of --stats count them, by state and by suspicion; and the warning about
\* TIME_WAIT is about them, not about the entries that the filters hide.
Wanted == {i \in DOMAIN seen : Accepted(seen[i])}
InState(s) == {i \in Wanted : seen[i].state = s}
Flagged == {i \in Wanted : Suspicious(seen[i])}
Listed == [i \in DOMAIN report.rows |-> report.rows[i].conn]
Times(s, c) == {i \in DOMAIN s : s[i] = c}

ReportExact ==
    printed =>
        /\ \A c \in Conns :
              Cardinality(Times(Listed, c)) =
                 IF filter.statsOnly THEN 0 ELSE Cardinality(Times(seen, c) \cap Wanted)
        /\ Ordered(Listed)
        /\ report.kind \in {"json", "stats"} =>
              /\ report.total = Cardinality(Wanted)
              /\ \A s \in States : report.states[s] = Cardinality(InState(s))
        /\ LET many == Cardinality(InState("TIME_WAIT")) >= ManyTimeWait
           IN  (report.kind = "json" => (report.stdout <=> many)) /\ (report.stderr => many)
        /\ report.kind = "stats" => report.suspicious = Cardinality(Flagged)
=============================================================================
