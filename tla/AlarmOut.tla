------------------------------ MODULE AlarmOut ------------------------------
(***************************************************************************)
(* alarmoutd holds outputs on for a time.  A client (alarmoutc, run by the *)
(* rules of the event daemon) connects, sends one rule and leaves; the     *)
(* daemon's only thread keeps a list of rules with the time each has left, *)
(* and learns from select() how much time has passed.                      *)
(***************************************************************************)
EXTENDS Integers, SequencesExt

CONSTANTS
    Outputs, Inputs,  \* exported GPIOs by direction
    Rules,            \* rules clients ask for: [gpio, polarity, duration]
    SecMax,           \* SEC_MAX
    MaxFds,           \* descriptors the process has for accept and fopen
    Backlog,          \* listen's argument
    MaxRequests,      \* bound: connections
    MaxSlack          \* bound: time that passes while select does not count it

ASSUME AlarmAssumption ==
    /\ Outputs \cap Inputs = {} /\ Outputs \subseteq Nat /\ Inputs \subseteq Nat
    /\ Rules \subseteq [gpio : Nat, polarity : {0, 1}, duration : 0..SecMax]
    /\ {SecMax, MaxFds, Backlog, MaxRequests, MaxSlack} \subseteq Nat

VARIABLES
    backlog,          \* connections not accepted yet, oldest first
    requests,         \* connections so far
    pc,               \* the daemon's thread: select or recv
    conn,             \* the accepted connection
    buffer,           \* the one receive buffer
    rules,            \* g_rule_head's list
    timeout, elapsed, \* select's time-out, and how much of it is over
    gpo,              \* the values of the outputs
    leaked,           \* descriptors is_gpo has not closed
    owed,             \* ghost: real time left of the longest rule taken, by output;
                      \* below 0 the output is on for longer than was asked for
    last,             \* ghost: polarity of the last rule listed, by output
    slack,            \* ghost: time select has not counted
    lost              \* ghost: outputs left on without a rule

clientVars == <<backlog, requests>>
daemonVars == <<buffer, rules, timeout, gpo, leaked>>
vars == <<backlog, requests, pc, conn, buffer, rules, timeout, elapsed, gpo,
          leaked, owed, last, slack, lost>>

ZeroRule == [gpio |-> 0, polarity |-> 0, duration |-> 0]
NoConn == [state |-> "none", rule |-> ZeroRule]

Minus(a, b) == IF a > b THEN a - b ELSE 0
Larger(a, b) == IF a > b THEN a ELSE b
Listed(list) == {list[i].gpio : i \in DOMAIN list}
----------------------------------------------------------------------------
(* The list. *)

\* get_gpio_table_timeout
Timeout(list) == Min({SecMax} \cup {list[i].duration : i \in DOMAIN list})

\* Mutants of Aged: the time is not taken off; it wears off twice as fast.
AgedNot(list, d) == list
AgedTwice(list, d) ==
    [i \in DOMAIN list |-> [list[i] EXCEPT !.duration = Minus(@, 2 * d)]]

\* update_gpio_table_time
Aged(list, d) ==
    [i \in DOMAIN list |-> [list[i] EXCEPT !.duration = Minus(@, d)]]

\* Mutant of Updated: the latest rule counts, not the longest.
UpdatedLatest(list, r) ==
    IF r.gpio \notin Listed(list) THEN Append(list, r)
    ELSE LET i == CHOOSE i \in DOMAIN list : list[i].gpio = r.gpio
         IN IF r.polarity = list[i].polarity
            THEN Append(SubSeq(list, 1, i - 1), r)
            ELSE list

\* Mutant of Updated: a rule is put behind the others without looking for one.
UpdatedAppend(list, r) == Append(list, r)

\* update_gpio_table: a longer rule of the same polarity replaces the listed one
\* and, with its next pointer, ends the list.
Updated(list, r) ==
    IF r.gpio \notin Listed(list) THEN Append(list, r)
    ELSE LET i == CHOOSE i \in DOMAIN list : list[i].gpio = r.gpio
         IN IF r.polarity = list[i].polarity /\ r.duration > list[i].duration
            THEN Append(SubSeq(list, 1, i - 1), r)
            ELSE list

Conflicts(list, r) ==
    \E i \in DOMAIN list : list[i].gpio = r.gpio /\ list[i].polarity # r.polarity

\* update_gpio: rules that are over leave the list ...
Kept(list) ==
    LET kept[i \in 0..Len(list)] ==
            IF i = 0 THEN <<>>
            ELSE IF list[i].duration > 0 THEN Append(kept[i - 1], list[i]) ELSE kept[i - 1]
    IN  kept[Len(list)]
Over(list) == Listed(list) \ Listed(Kept(list))

\* Mutant of SetBack: only the output of the first rule is set back.
SetBackFirst(values, list, fds) ==
    [g \in Outputs |->
        IF g \in Over(list) /\ list[1].gpio = g /\ fds < MaxFds
        THEN 1 - list[1].polarity
        ELSE values[g]]

\* ... and their outputs are set back, if a descriptor is left to do it.
SetBack(values, list, fds) ==
    [g \in Outputs |->
        IF g \in Over(list) /\ fds < MaxFds
        THEN 1 - (CHOOSE r \in ToSet(list) : r.gpio = g).polarity
        ELSE values[g]]

----------------------------------------------------------------------------
(* Clients, and time. *)

Connect(r) ==
    /\ requests < MaxRequests /\ Len(backlog) < Backlog
    /\ backlog' = Append(backlog, [state |-> "open", rule |-> r])
    /\ requests' = requests + 1
    /\ UNCHANGED <<pc, conn, elapsed, daemonVars, owed, last, slack, lost>>

\* A connected client sends its rule, or ends before it has.
Leave(c) == {[c EXCEPT !.state = "sent"], [state |-> "closed", rule |-> ZeroRule]}

ClientLeaves ==
    /\ \/ /\ conn.state = "open" /\ conn' \in Leave(conn)
          /\ UNCHANGED backlog
       \/ \E i \in DOMAIN backlog :
            /\ backlog[i].state = "open"
            /\ \E c \in Leave(backlog[i]) : backlog' = [backlog EXCEPT ![i] = c]
            /\ UNCHANGED conn
    /\ UNCHANGED <<requests, pc, elapsed, daemonVars, owed, last, slack, lost>>

\* Bound: the count of overdue time stops once it is more than the slack.
Overdue == -(MaxSlack + 1)

\* Only the time inside select, and not after its time-out, is counted.
Tick ==
    /\ \/ /\ pc = "select" /\ elapsed < timeout
          /\ elapsed' = elapsed + 1 /\ UNCHANGED slack
       \/ /\ pc = "recv" \/ elapsed = timeout
          /\ slack < MaxSlack
          /\ slack' = slack + 1 /\ UNCHANGED elapsed
    /\ owed' = [g \in Outputs |->
                    IF g \in Listed(rules) THEN Larger(owed[g] - 1, Overdue)
                    ELSE Minus(owed[g], 1)]
    /\ UNCHANGED <<clientVars, pc, conn, daemonVars, last, lost>>
----------------------------------------------------------------------------
(* gpio_daemon. *)

\* update_gpio on a list, and the head of the next pass.
EndPass(list, values, fds) ==
    /\ rules' = Kept(list)
    /\ gpo' = SetBack(values, list, fds)
    /\ timeout' = Timeout(rules') /\ elapsed' = 0
    /\ pc' = "select" /\ conn' = NoConn
    /\ slack' = IF rules' = <<>> THEN 0 ELSE slack

\* What the ghosts make of it: `dropped` outputs have lost their rule while on,
\* and so have those that are over and cannot be set back.
Forget(dropped, owing, list, fds) ==
    /\ lost' = dropped \cup IF fds < MaxFds THEN {} ELSE Over(list)
    /\ owed' = [g \in Outputs |-> IF g \in Over(list) THEN Larger(owing[g], 0) ELSE owing[g]]

\* Mutant of TimedOut: what select has left over, nothing, is taken off.
TimedOutRemaining ==
    /\ pc = "select" /\ elapsed = timeout /\ backlog = <<>>
    /\ EndPass(Aged(rules, 0), gpo, leaked)
    /\ Forget(lost, owed, Aged(rules, 0), leaked)
    /\ UNCHANGED <<clientVars, buffer, leaked, last>>

TimedOut ==
    /\ pc = "select" /\ elapsed = timeout /\ backlog = <<>>
    /\ EndPass(Aged(rules, timeout), gpo, leaked)
    /\ Forget(lost, owed, Aged(rules, timeout), leaked)
    /\ UNCHANGED <<clientVars, buffer, leaked, last>>

Accept ==
    /\ pc = "select" /\ backlog # <<>> /\ leaked < MaxFds
    /\ conn' = Head(backlog) /\ backlog' = Tail(backlog)
    /\ pc' = "recv"
    /\ UNCHANGED <<requests, elapsed, daemonVars, owed, last, slack, lost>>

\* No descriptor is left: the pass ends, and the time it took is forgotten.
AcceptFails ==
    /\ pc = "select" /\ backlog # <<>> /\ leaked = MaxFds
    /\ EndPass(rules, gpo, leaked)
    /\ Forget(lost, owed, rules, leaked)
    /\ UNCHANGED <<clientVars, buffer, leaked, last>>

\* recv's result is not looked at: after a client that sent nothing the buffer
\* still holds the rule before.
Received == IF conn.state = "sent" THEN conn.rule ELSE buffer

\* An output's rule: list, values and ghosts.
TakeRule(aged, r) ==
    LET list    == Updated(aged, r)
        isNew   == r.gpio \notin Listed(aged)
        owing   == IF Conflicts(aged, r) THEN owed
                   ELSE [owed EXCEPT ![r.gpio] = Larger(@, r.duration)]
        dropped == Listed(aged) \ Listed(list)
        again   == IF isNew /\ r.duration >= owed[r.gpio] THEN {r.gpio} ELSE {}
        values  == IF isNew THEN [gpo EXCEPT ![r.gpio] = r.polarity] ELSE gpo
    IN  /\ EndPass(list, values, leaked)
        /\ Forget((lost \ again) \cup dropped, owing, list, leaked)
        /\ last' = IF isNew THEN [last EXCEPT ![r.gpio] = r.polarity] ELSE last
        /\ leaked' = leaked

\* is_gpo: an input's direction file is not closed again.
Refuse(aged, r) ==
    /\ leaked' = IF r.gpio \in Inputs THEN leaked + 1 ELSE leaked
    /\ EndPass(aged, gpo, leaked')
    /\ Forget(lost, owed, aged, leaked')
    /\ UNCHANGED last

Receive ==
    /\ pc = "recv" /\ conn.state # "open"
    /\ buffer' = Received
    /\ LET aged == Aged(rules, elapsed)
       IN  IF Received.gpio \in Outputs THEN TakeRule(aged, Received)
           ELSE Refuse(aged, Received)
    /\ UNCHANGED clientVars
----------------------------------------------------------------------------
Init ==
    /\ backlog = <<>> /\ requests = 0
    /\ pc = "select" /\ conn = NoConn /\ buffer = ZeroRule
    /\ rules = <<>> /\ timeout = SecMax /\ elapsed = 0
    /\ gpo = [g \in Outputs |-> 0] /\ leaked = 0
    /\ owed = [g \in Outputs |-> 0] /\ last = [g \in Outputs |-> 1]
    /\ slack = 0 /\ lost = {}

Daemon == TimedOut \/ Accept \/ AcceptFails \/ Receive

Next == (\E r \in Rules : Connect(r)) \/ ClientLeaves \/ Tick \/ Daemon

\* Time passes, the daemon runs, and a client that has connected goes on.
Spec == Init /\ [][Next]_vars /\ WF_vars(Daemon) /\ WF_vars(Tick) /\ WF_vars(ClientLeaves)
----------------------------------------------------------------------------
(* Properties. *)

Conns == [state : {"open", "sent"}, rule : Rules] \cup [state : {"closed"}, rule : {ZeroRule}]

\* The list holds at most one rule for an output, and none for anything else.
TypeOK ==
    /\ requests \in 0..MaxRequests /\ leaked \in 0..MaxFds
    /\ Len(backlog) <= Backlog /\ ToSet(backlog) \subseteq Conns
    /\ pc \in {"select", "recv"} /\ buffer \in Rules \cup {ZeroRule}
    /\ conn \in IF pc = "recv" THEN Conns ELSE {NoConn}
    /\ ToSet(rules) \subseteq [gpio : Outputs, polarity : {0, 1}, duration : 1..SecMax]
    /\ Cardinality(Listed(rules)) = Len(rules)
    /\ timeout = Timeout(rules) /\ elapsed \in 0..timeout
    /\ gpo \in [Outputs -> {0, 1}] /\ last \in [Outputs -> {0, 1}]
    /\ owed \in [Outputs -> Overdue..SecMax] /\ slack \in 0..MaxSlack
    /\ lost \subseteq Outputs

\* An output is on while it has a rule and off once its rule has gone; and it
\* has one for as long as the longest rule that the daemon took for it, whatever
\* came in between.  Not so an output in lost: its rule was dropped from the list
\* by a longer one ahead of it, or could not be set back.
OnAsAsked ==
    \A g \in Outputs \ lost :
        /\ gpo[g] = IF g \in Listed(rules) THEN last[g] ELSE 1 - last[g]
        /\ owed[g] > 0 => g \in Listed(rules)

\* ... and no longer than that by more than the time the daemon was busy.
NotTooLong ==
    leaked < MaxFds => \A g \in Listed(rules) : owed[g] + slack >= 0

\* Every rule comes to its end, unless the daemon runs out of descriptors.
Expires ==
    \A g \in Outputs : g \in Listed(rules) ~> (g \notin Listed(rules) \/ leaked = MaxFds)

=============================================================================
