--------------------------- MODULE AlarmOutProofs ---------------------------
(***************************************************************************)
(* alarmoutd keeps its outputs on for as long as it was asked, and no      *)
(* longer, for any outputs, rules and clients: by induction along the list *)
(* for update_gpio's walk, and by an invariant that compares what is left  *)
(* in the list with the time that has really passed.                       *)
(***************************************************************************)
EXTENDS AlarmOut, FiniteSetTheorems, SequenceTheorems, WellFoundedInduction, TLAPS

\* Natural numbers have a least one.
LEMMA LeastExists ==
    ASSUME NEW T, T \subseteq Nat, T # {}
    PROVE  \E x \in T : \A y \in T : x <= y
<1> DEFINE R == OpToRel(<, Nat)
<1>1. IsWellFoundedOn(R, Nat)
  BY NatLessThanWellFounded
<1>2. PICK x \in T : \A y \in T : <<y, x>> \notin R
  <2> HIDE DEF R
  <2> QED BY <1>1, WFMin
<1>3. \A y \in T : ~(y < x)
  BY <1>2 DEF OpToRel
<1> QED BY <1>3

----------------------------------------------------------------------------
(* Lists. *)

\* A rule on its way into the list, and one in it.
Asked == [gpio : Outputs, polarity : {0, 1}, duration : 0..SecMax]
Running == [gpio : Outputs, polarity : {0, 1}, duration : 1..SecMax]

\* One rule for an output.
Distinct(list) ==
    \A i, j \in DOMAIN list : list[i].gpio = list[j].gpio => i = j

\* A step of update_gpio's walk.
Walk(list, f, i) ==
    IF i = 0 THEN <<>>
    ELSE IF list[i].duration > 0 THEN Append(f[i - 1], list[i]) ELSE f[i - 1]

\* The walk comes to the end of any list.
LEMMA WalkExists ==
    ASSUME NEW list, NEW n \in Nat
    PROVE  \E f : f = [i \in 0..n |-> Walk(list, f, i)]
<1> DEFINE T == {m \in Nat : ~ \E f : \A i \in 0..m : f[i] = Walk(list, f, i)}
<1>1. ASSUME T # {} PROVE FALSE
  <2>1. PICK m \in T : \A y \in T : m <= y
    <3>1. T \subseteq Nat
      OBVIOUS
    <3> HIDE DEF T
    <3> QED BY <1>1, <3>1, LeastExists
  <2>2. m \in Nat /\ m # 0
    <3>1. \A i \in 0..0 : [k \in 0..0 |-> <<>>][i] = Walk(list, [k \in 0..0 |-> <<>>], i)
      BY DEF Walk
    <3> QED BY <3>1
  <2>3. PICK g : \A i \in 0..(m - 1) : g[i] = Walk(list, g, i)
    BY <2>1, <2>2
  <2> DEFINE f == [i \in 0..m |-> IF i = m THEN Walk(list, g, m) ELSE g[i]]
  <2>4. ASSUME NEW i \in 0..m PROVE f[i] = Walk(list, f, i)
    <3>1. i # 0 => f[i - 1] = g[i - 1]
      BY <2>2
    <3>2. Walk(list, f, i) = Walk(list, g, i)
      BY <3>1 DEF Walk
    <3> QED BY <2>2, <2>3, <3>2
  <2> QED BY <2>1, <2>4
<1>2. PICK g : \A i \in 0..n : g[i] = Walk(list, g, i)
  BY <1>1
<1> DEFINE f == [i \in 0..n |-> g[i]]
<1>3. \A i \in 0..n : Walk(list, f, i) = Walk(list, g, i)
  BY DEF Walk
<1>4. f = [i \in 0..n |-> Walk(list, f, i)]
  BY <1>2, <1>3
<1> QED BY <1>4

\* update_gpio keeps the rules that are not over, and no others, and one for an output.
LEMMA KeptRules ==
    ASSUME NEW list \in Seq(Asked), Distinct(list)
    PROVE  /\ Kept(list) \in Seq(Running) /\ Distinct(Kept(list))
           /\ ToSet(Kept(list)) = {r \in ToSet(list) : r.duration > 0}
<1> DEFINE n == Len(list)
           f == CHOOSE f : f = [i \in 0..n |-> Walk(list, f, i)]
<1>1. n \in Nat /\ DOMAIN list = 1..n /\ \A i \in 1..n : list[i] \in Asked
  BY LenProperties, ElementOfSeq
<1>2. \A i \in 0..n : f[i] = Walk(list, f, i)
  <2>1. f = [i \in 0..n |-> Walk(list, f, i)]
    BY <1>1, WalkExists
  <2> HIDE DEF f
  <2>2. ASSUME NEW g, g = [i \in 0..n |-> Walk(list, g, i)]
        PROVE  \A i \in 0..n : g[i] = Walk(list, g, i)
    BY <2>2
  <2> QED BY <2>1, <2>2
<1>3. Kept(list) = f[n]
  BY DEF Kept, Walk
<1> HIDE DEF f
<1> DEFINE Good(i) == /\ f[i] \in Seq(Running) /\ Distinct(f[i])
                      /\ ToSet(f[i]) = {r \in {list[j] : j \in 1..i} : r.duration > 0}
           T == {i \in 0..n : ~Good(i)}
<1>4. ASSUME T # {} PROVE FALSE
  <2>1. PICK i \in T : \A j \in T : i <= j
    <3>1. T \subseteq Nat
      BY <1>1
    <3> HIDE DEF T
    <3> QED BY <1>4, <3>1, LeastExists
  <2>2. i # 0
    <3>1. f[0] = <<>>
      BY <1>1, <1>2 DEF Walk
    <3>2. Good(0)
      BY <3>1 DEF Distinct, ToSet
    <3> QED BY <3>2
  <2>3. i - 1 \in 0..n /\ i \in 1..n /\ Good(i - 1)
    <3> HIDE DEF Good
    <3> QED BY <1>1, <2>1, <2>2
  <2>4. list[i] \in Asked
    BY <1>1, <2>3
  <2> DEFINE s == f[i - 1]
  <2>5. s \in Seq(Running) /\ Distinct(s)
        /\ ToSet(s) = {r \in {list[j] : j \in 1..(i - 1)} : r.duration > 0}
    BY <2>3
  <2>6. {list[j] : j \in 1..i} = {list[j] : j \in 1..(i - 1)} \cup {list[i]}
    BY <2>3
  <2>7. f[i] = IF list[i].duration > 0 THEN Append(s, list[i]) ELSE s
    BY <1>2, <2>2, <2>3 DEF Walk
  <2>8. CASE list[i].duration > 0
    <3>1. list[i] \in Running
      BY <2>4, <2>8 DEF Asked, Running
    <3> HIDE DEF s
    <3>2. /\ Append(s, list[i]) \in Seq(Running) /\ Len(Append(s, list[i])) = Len(s) + 1
          /\ \A j \in 1..Len(s) : Append(s, list[i])[j] = s[j]
          /\ Append(s, list[i])[Len(s) + 1] = list[i]
          /\ DOMAIN s = 1..Len(s) /\ Len(s) \in Nat
      BY <2>5, <3>1, AppendProperties, LenProperties
    <3>3. DOMAIN Append(s, list[i]) = 1..(Len(s) + 1)
      BY <3>2, LenProperties
    <3>4. ToSet(Append(s, list[i])) = ToSet(s) \cup {list[i]}
      BY <3>2, <3>3 DEF ToSet
    <3>5. \A k \in DOMAIN s : s[k].gpio # list[i].gpio
      <4> TAKE k \in DOMAIN s
      <4>1. PICK j \in 1..(i - 1) : s[k] = list[j]
        BY <2>5 DEF ToSet
      <4>2. j \in DOMAIN list /\ i \in DOMAIN list /\ j # i
        BY <1>1, <2>3
      <4> QED BY <4>1, <4>2 DEF Distinct
    <3>6. Distinct(Append(s, list[i]))
      BY <2>5, <3>2, <3>3, <3>5 DEF Distinct
    <3>7. ToSet(Append(s, list[i])) = {r \in {list[j] : j \in 1..i} : r.duration > 0}
      BY <2>5, <2>6, <2>8, <3>4
    <3> QED BY <2>7, <2>8, <3>2, <3>6, <3>7
  <2>9. CASE ~(list[i].duration > 0)
    <3>1. ToSet(s) = {r \in {list[j] : j \in 1..i} : r.duration > 0}
      BY <2>5, <2>6, <2>9
    <3> QED BY <2>5, <2>7, <2>9, <3>1
  <2> QED BY <2>8, <2>9
<1>5. Good(n)
  <2> HIDE DEF Good
  <2> QED BY <1>1, <1>4
<1> QED BY <1>1, <1>3, <1>5 DEF ToSet

\* The outputs of a list are those of its rules.
LEMMA ListedRules ==
    ASSUME NEW list
    PROVE  /\ Listed(list) = {r.gpio : r \in ToSet(list)}
           /\ Distinct(list) => \A q, r \in ToSet(list) : q.gpio = r.gpio => q = r
  BY DEF Listed, ToSet, Distinct

\* update_gpio_table_time: time is taken off, and that is all.
LEMMA AgedRules ==
    ASSUME NEW list \in Seq(Running), Distinct(list), NEW d \in Nat, SecMax \in Nat
    PROVE  /\ Aged(list, d) \in Seq(Asked) /\ Distinct(Aged(list, d))
           /\ ToSet(Aged(list, d)) = {[r EXCEPT !.duration = Minus(@, d)] : r \in ToSet(list)}
           /\ Listed(Aged(list, d)) = Listed(list)
<1> DEFINE n == Len(list)
           aged == Aged(list, d)
<1>1. n \in Nat /\ DOMAIN list = 1..n /\ \A i \in 1..n : list[i] \in Running
  BY LenProperties, ElementOfSeq
<1>2. aged = [i \in 1..n |-> [list[i] EXCEPT !.duration = Minus(@, d)]]
  BY <1>1 DEF Aged
<1>3. \A i \in 1..n : aged[i] \in Asked /\ aged[i].gpio = list[i].gpio
  <2> TAKE i \in 1..n
  <2>1. list[i] \in Running
    BY <1>1
  <2>2. Minus(list[i].duration, d) \in 0..SecMax
    BY <2>1 DEF Running, Minus
  <2> QED BY <1>2, <2>1, <2>2 DEF Running, Asked
<1>4. aged \in Seq(Asked) /\ DOMAIN aged = 1..n
  <2>1. aged \in [1..n -> Asked]
    BY <1>2, <1>3
  <2> QED BY <1>1, <2>1, SeqDef
<1>5. ToSet(aged) = {[r EXCEPT !.duration = Minus(@, d)] : r \in ToSet(list)}
  BY <1>1, <1>2, <1>4 DEF ToSet
<1>6. Listed(aged) = Listed(list)
  BY <1>1, <1>3, <1>4 DEF Listed
<1>7. Distinct(aged)
  BY <1>1, <1>3, <1>4 DEF Distinct
<1> QED BY <1>4, <1>5, <1>6, <1>7

\* update_gpio_table: a rule is added, or takes the place of a shorter one of the same
\* polarity; the others stay as they are or, behind it, leave.
LEMMA UpdatedRules ==
    ASSUME NEW list \in Seq(Asked), Distinct(list), NEW r \in Asked
    PROVE  /\ Updated(list, r) \in Seq(Asked) /\ Distinct(Updated(list, r))
           /\ r.gpio \in Listed(Updated(list, r))
           /\ Listed(Updated(list, r)) \subseteq Listed(list) \cup {r.gpio}
           /\ r.gpio \notin Listed(list) => ToSet(Updated(list, r)) = ToSet(list) \cup {r}
           /\ r.gpio \in Listed(list) =>
                \A q \in ToSet(Updated(list, r)) :
                   \/ /\ q \in ToSet(list)
                      /\ q.gpio = r.gpio => q.polarity # r.polarity \/ r.duration <= q.duration
                   \/ /\ q = r
                      /\ \E o \in ToSet(list) : o.gpio = r.gpio /\ o.polarity = r.polarity
                                                /\ o.duration < r.duration
<1> DEFINE n == Len(list)
<1>1. n \in Nat /\ DOMAIN list = 1..n /\ \A i \in 1..n : list[i] \in Asked
  BY LenProperties, ElementOfSeq
<1>2. ASSUME NEW s \in Seq(Asked), NEW k \in 0..n, Len(s) = k, \A j \in 1..k : s[j] = list[j],
             \A j \in 1..k : list[j].gpio # r.gpio
      PROVE  /\ Append(s, r) \in Seq(Asked) /\ Distinct(Append(s, r))
             /\ ToSet(Append(s, r)) = {list[j] : j \in 1..k} \cup {r}
  <2>1. /\ Append(s, r) \in Seq(Asked) /\ Len(Append(s, r)) = k + 1
        /\ \A j \in 1..k : Append(s, r)[j] = list[j]
        /\ Append(s, r)[k + 1] = r
    BY <1>2, AppendProperties
  <2>2. DOMAIN Append(s, r) = 1..(k + 1)
    BY <2>1, LenProperties
  <2>3. ToSet(Append(s, r)) = {list[j] : j \in 1..k} \cup {r}
    BY <2>1, <2>2 DEF ToSet
  <2>4. Distinct(Append(s, r))
    BY <1>1, <1>2, <2>1, <2>2 DEF Distinct
  <2> QED BY <2>1, <2>3, <2>4
<1>3. CASE r.gpio \notin Listed(list)
  <2>1. \A j \in 1..n : list[j].gpio # r.gpio
    BY <1>1, <1>3 DEF Listed
  <2>2. Updated(list, r) = Append(list, r) /\ ToSet(list) = {list[j] : j \in 1..n}
    BY <1>1, <1>3 DEF Updated, ToSet
  <2>3. /\ Append(list, r) \in Seq(Asked) /\ Distinct(Append(list, r))
        /\ ToSet(Append(list, r)) = ToSet(list) \cup {r}
    BY <1>1, <1>2, <2>1, <2>2
  <2> QED BY <1>3, <2>2, <2>3, ListedRules
<1>4. CASE r.gpio \in Listed(list)
  <2> DEFINE i == CHOOSE i \in DOMAIN list : list[i].gpio = r.gpio
  <2>1. i \in 1..n /\ list[i].gpio = r.gpio
    BY <1>1, <1>4 DEF Listed
  <2>2. Updated(list, r) = IF r.polarity = list[i].polarity /\ r.duration > list[i].duration
                           THEN Append(SubSeq(list, 1, i - 1), r) ELSE list
    BY <1>4 DEF Updated
  <2> HIDE DEF i
  <2>3. \A j \in 1..n : list[j].gpio = r.gpio => j = i
    BY <1>1, <2>1 DEF Distinct
  <2>4. CASE r.polarity = list[i].polarity /\ r.duration > list[i].duration
    <3> DEFINE s == SubSeq(list, 1, i - 1)
    <3>1. s \in Seq(Asked) /\ Len(s) = i - 1 /\ \A j \in 1..(i - 1) : s[j] = list[j]
      <4>1. 1 \in Int /\ i - 1 \in Int /\ \A j \in 1..(i - 1) : list[j] \in Asked
        BY <1>1, <2>1
      <4>2. /\ s \in Seq(Asked) /\ Len(s) = IF 1 <= i - 1 THEN (i - 1) - 1 + 1 ELSE 0
            /\ \A j \in 1..((i - 1) - 1 + 1) : s[j] = list[1 + j - 1]
        BY <4>1, SubSeqProperties
      <4> HIDE DEF s
      <4> QED BY <2>1, <4>2
    <3> HIDE DEF s
    <3>2. i - 1 \in 0..n /\ \A j \in 1..(i - 1) : list[j].gpio # r.gpio
      BY <1>1, <2>1, <2>3
    <3>3. /\ Append(s, r) \in Seq(Asked) /\ Distinct(Append(s, r))
          /\ ToSet(Append(s, r)) = {list[j] : j \in 1..(i - 1)} \cup {r}
      BY <1>2, <3>1, <3>2
    <3>4. Updated(list, r) = Append(s, r)
      BY <2>2, <2>4 DEF s
    <3>5. \A j \in 1..(i - 1) : list[j] \in ToSet(list) /\ list[j].gpio # r.gpio
      BY <1>1, <3>2 DEF ToSet
    <3>6. list[i] \in ToSet(list) /\ list[i].duration < r.duration
      BY <1>1, <2>1, <2>4 DEF ToSet, Asked
    <3> QED BY <1>4, <2>1, <2>4, <3>3, <3>4, <3>5, <3>6, ListedRules, SMTT(20)
  <2>5. CASE ~(r.polarity = list[i].polarity /\ r.duration > list[i].duration)
    <3>1. ASSUME NEW q \in ToSet(list), q.gpio = r.gpio
          PROVE  q.polarity # r.polarity \/ r.duration <= q.duration
      <4>1. q = list[i]
        BY <1>1, <2>3, <3>1 DEF ToSet
      <4> QED BY <1>1, <2>1, <2>5, <4>1 DEF Asked
    <3> QED BY <1>4, <2>2, <2>5, <3>1
  <2> QED BY <2>4, <2>5
<1> QED BY <1>3, <1>4

\* get_gpio_table_timeout: as long as the shortest rule, and SEC_MAX at most.
LEMMA TimeoutBounds ==
    ASSUME NEW list \in Seq(Running), SecMax \in Nat
    PROVE  Timeout(list) \in 0..SecMax /\ \A r \in ToSet(list) : Timeout(list) <= r.duration
<1> DEFINE S == {SecMax} \cup {list[i].duration : i \in DOMAIN list}
<1>1. DOMAIN list = 1..Len(list) /\ \A i \in 1..Len(list) : list[i] \in Running
  BY LenProperties, ElementOfSeq
<1>2. S \subseteq Nat /\ SecMax \in S
  BY <1>1 DEF Running
<1>3. \A r \in ToSet(list) : r.duration \in S
  BY DEF ToSet
<1>4. Timeout(list) = CHOOSE x \in S : \A y \in S : x <= y
  BY DEF Timeout, Min
<1> HIDE DEF S
<1>5. \E x \in S : \A y \in S : x <= y
  BY <1>2, LeastExists
<1>6. Timeout(list) \in S /\ \A y \in S : Timeout(list) <= y
  BY <1>4, <1>5
<1>7. Timeout(list) \in Nat /\ Timeout(list) <= SecMax
  BY <1>2, <1>6
<1>8. \A r \in ToSet(list) : Timeout(list) <= r.duration
  BY <1>3, <1>6
<1> QED BY <1>7, <1>8

----------------------------------------------------------------------------
(* The invariant. *)

ClientInv ==
    /\ requests \in 0..MaxRequests /\ leaked \in 0..MaxFds
    /\ backlog \in Seq(Conns) /\ Len(backlog) <= Backlog
    /\ pc \in {"select", "recv"} /\ buffer \in Rules \cup {ZeroRule}
    /\ pc = "select" => conn = NoConn
    /\ pc = "recv" => conn \in Conns /\ leaked < MaxFds

ListInv ==
    /\ rules \in Seq(Running) /\ Distinct(rules)
    /\ timeout = Timeout(rules) /\ elapsed \in 0..timeout

ValueInv ==
    /\ gpo \in [Outputs -> {0, 1}] /\ last \in [Outputs -> {0, 1}]
    /\ owed \in [Outputs -> Overdue..SecMax] /\ slack \in 0..MaxSlack
    /\ lost \subseteq Outputs

\* The output shows its rule; the polarity of a rule is that of the last one listed.
ShownInv ==
    /\ \A r \in ToSet(rules) : last[r.gpio] = r.polarity
    /\ \A g \in Outputs \ lost : gpo[g] = IF g \in Listed(rules) THEN last[g] ELSE 1 - last[g]

\* What a rule has left, less what select has counted, is no less than what is owed, and
\* more by the slack at most.
LeftInv ==
    /\ \A g \in Outputs \ lost : g \notin Listed(rules) => owed[g] <= 0
    /\ \A r \in ToSet(rules) : r.gpio \notin lost => owed[r.gpio] <= r.duration - elapsed
    /\ leaked < MaxFds =>
         \A r \in ToSet(rules) : r.duration - elapsed <= owed[r.gpio] + slack

AlarmInv == ClientInv /\ ListInv /\ ValueInv /\ ShownInv /\ LeftInv

\* The constants, as numbers and sets.
LEMMA Numbers ==
    /\ SecMax \in Nat /\ MaxFds \in Nat /\ Backlog \in Nat /\ MaxRequests \in Nat
    /\ MaxSlack \in Nat /\ Overdue \in Int /\ Overdue < 0
    /\ Outputs \subseteq Nat /\ Inputs \subseteq Nat /\ Outputs \cap Inputs = {}
    /\ Rules \subseteq [gpio : Nat, polarity : {0, 1}, duration : 0..SecMax]
  BY AlarmAssumption DEF Overdue

\* A rule leaves the list when its time is over; it is the one that is set back.
LEMMA OverRules ==
    ASSUME NEW list \in Seq(Asked), Distinct(list)
    PROVE  /\ \A r \in ToSet(list) : r \in Asked
           /\ Over(list) \subseteq Outputs /\ Listed(list) \subseteq Outputs
           /\ Listed(Kept(list)) = Listed(list) \ Over(list)
           /\ \A r \in ToSet(list) : r.gpio \in Over(list) <=> r.duration = 0
           /\ \A r \in ToSet(list) : r \in ToSet(Kept(list)) <=> r.duration > 0
<1>1. DOMAIN list = 1..Len(list) /\ \A i \in 1..Len(list) : list[i] \in Asked
  BY LenProperties, ElementOfSeq
<1>2. \A r \in ToSet(list) : r \in Asked
  BY <1>1 DEF ToSet
<1>3. Listed(list) \subseteq Outputs /\ Over(list) \subseteq Outputs
  BY <1>2, ListedRules DEF Over, Asked
<1>4. ToSet(Kept(list)) = {r \in ToSet(list) : r.duration > 0}
  BY KeptRules
<1>5. Listed(Kept(list)) = {r.gpio : r \in ToSet(Kept(list))} /\ Listed(list) = {r.gpio : r \in ToSet(list)}
      /\ \A q, r \in ToSet(list) : q.gpio = r.gpio => q = r
  BY ListedRules
<1>6. Listed(Kept(list)) \subseteq Listed(list)
  BY <1>4, <1>5
<1>7. \A r \in ToSet(list) : r.gpio \in Listed(Kept(list)) <=> r.duration > 0
  BY <1>4, <1>5
<1>8. \A r \in ToSet(list) : r.duration = 0 <=> ~(r.duration > 0)
  BY <1>2, Numbers DEF Asked
<1> QED BY <1>2, <1>3, <1>4, <1>5, <1>6, <1>7, <1>8 DEF Over

\* update_gpio at the end of a pass.  What is to be shown of the list, the values and
\* what is owed holds of the rules that are kept.
LEMMA PassEnds ==
    ASSUME ValueInv,
           NEW list \in Seq(Asked), Distinct(list),
           NEW values \in [Outputs -> {0, 1}], NEW fds \in 0..MaxFds, leaked' = fds,
           NEW dropped, dropped \subseteq Outputs,
           NEW owing \in [Outputs -> Overdue..SecMax],
           EndPass(list, values, fds), Forget(dropped, owing, list, fds),
           last' \in [Outputs -> {0, 1}],
           \A r \in ToSet(list) : last'[r.gpio] = r.polarity,
           \A g \in Outputs \ dropped :
              values[g] = IF g \in Listed(list) THEN last'[g] ELSE 1 - last'[g],
           \A g \in Outputs \ dropped : g \notin Listed(list) => owing[g] <= 0,
           \A r \in ToSet(list) : r.gpio \notin dropped => owing[r.gpio] <= r.duration,
           fds < MaxFds => \A r \in ToSet(list) : r.duration <= owing[r.gpio] + slack
    PROVE  pc' = "select" /\ conn' = NoConn /\ ListInv' /\ ValueInv' /\ ShownInv' /\ LeftInv'
<1>1. /\ rules' = Kept(list) /\ gpo' = SetBack(values, list, fds)
      /\ timeout' = Timeout(rules') /\ elapsed' = 0
      /\ pc' = "select" /\ conn' = NoConn
      /\ slack' = IF rules' = <<>> THEN 0 ELSE slack
  BY DEF EndPass
<1>2. /\ lost' = dropped \cup IF fds < MaxFds THEN {} ELSE Over(list)
      /\ owed' = [g \in Outputs |-> IF g \in Over(list) THEN Larger(owing[g], 0) ELSE owing[g]]
  BY DEF Forget
<1>3. /\ \A r \in ToSet(list) : r \in Asked
      /\ Over(list) \subseteq Outputs /\ Listed(list) \subseteq Outputs
      /\ Listed(rules') = Listed(list) \ Over(list)
      /\ \A r \in ToSet(list) : r.gpio \in Over(list) <=> r.duration = 0
      /\ rules' \in Seq(Running) /\ Distinct(rules')
      /\ ToSet(rules') = {r \in ToSet(list) : r.duration > 0}
  BY <1>1, OverRules, KeptRules
<1>4. ListInv'
  <2>1. timeout' \in 0..SecMax
    BY <1>1, <1>3, Numbers, TimeoutBounds
  <2>2. elapsed' \in 0..timeout'
    BY <1>1, <2>1
  <2> QED BY <1>1, <1>3, <2>2 DEF ListInv
<1>5. \A g \in Over(list) : SetBack(values, list, fds)[g] = IF fds < MaxFds THEN 1 - last'[g] ELSE values[g]
  <2> TAKE g \in Over(list)
  <2>1. g \in Outputs /\ g \in Listed(list)
    BY <1>3 DEF Over
  <2>2. \E r \in ToSet(list) : r.gpio = g
    BY <2>1, ListedRules
  <2>3. \A r \in ToSet(list) : r.gpio = g => r.polarity = last'[g]
    OBVIOUS
  <2>4. (CHOOSE r \in ToSet(list) : r.gpio = g).polarity = last'[g]
    BY <2>2, <2>3
  <2> QED BY <2>1, <2>4 DEF SetBack
<1>6. \A g \in Outputs \ Over(list) : SetBack(values, list, fds)[g] = values[g]
  BY DEF SetBack
<1>7. ValueInv'
  <2>1. gpo' \in [Outputs -> {0, 1}]
    <3>1. gpo' = [g \in Outputs |-> SetBack(values, list, fds)[g]]
      BY <1>1 DEF SetBack
    <3>2. \A g \in Outputs : SetBack(values, list, fds)[g] \in {0, 1}
      BY <1>5, <1>6
    <3> QED BY <3>1, <3>2
  <2>2. owed' \in [Outputs -> Overdue..SecMax]
    <3>1. \A g \in Outputs : Larger(owing[g], 0) \in Overdue..SecMax
      BY Numbers DEF Larger
    <3> QED BY <1>2, <3>1
  <2>3. slack' \in 0..MaxSlack
    <3>1. slack \in 0..MaxSlack /\ 0 \in 0..MaxSlack
      BY Numbers DEF ValueInv
    <3> QED BY <1>1, <3>1
  <2>4. lost' \subseteq Outputs
    BY <1>2, <1>3
  <2> QED BY <2>1, <2>2, <2>3, <2>4 DEF ValueInv
<1>8. ShownInv'
  <2>1. \A r \in ToSet(rules') : last'[r.gpio] = r.polarity
    BY <1>3
  <2>2. \A g \in Outputs \ lost' : gpo'[g] = IF g \in Listed(rules') THEN last'[g] ELSE 1 - last'[g]
    <3> TAKE g \in Outputs \ lost'
    <3>1. g \notin dropped
      BY <1>2
    <3>2. CASE g \in Over(list)
      <4>1. fds < MaxFds
        BY <1>2, <3>2
      <4> QED BY <1>1, <1>3, <1>5, <3>2, <4>1
    <3>3. CASE g \notin Over(list)
      BY <1>1, <1>3, <1>6, <3>1, <3>3
    <3> QED BY <3>2, <3>3
  <2> QED BY <2>1, <2>2 DEF ShownInv
<1>9. \A r \in ToSet(rules') : r \in ToSet(list) /\ r \in Asked /\ r.gpio \in Outputs /\ r.gpio \notin Over(list)
                               /\ r.duration - elapsed' = r.duration /\ owed'[r.gpio] = owing[r.gpio]
                               /\ slack' = slack
  <2> TAKE r \in ToSet(rules')
  <2>1. r \in ToSet(list) /\ r \in Asked /\ r.duration > 0
    BY <1>3
  <2>2. r.gpio \in Outputs /\ r.duration \in Int /\ r.gpio \notin Over(list)
    BY <1>3, <2>1, Numbers DEF Asked
  <2>3. rules' # <<>>
    BY DEF ToSet
  <2> QED BY <1>1, <1>2, <2>1, <2>2, <2>3
<1>10. LeftInv'
  <2>1. ASSUME NEW g \in Outputs \ lost', g \notin Listed(rules') PROVE owed'[g] <= 0
    <3>1. g \notin dropped
      BY <1>2
    <3>2. CASE g \in Over(list)
      <4>1. PICK r \in ToSet(list) : r.gpio = g
        BY <3>2, ListedRules DEF Over
      <4>2. owing[g] <= 0
        BY <1>3, <3>1, <3>2, <4>1
      <4>3. owed'[g] = Larger(owing[g], 0) /\ owing[g] \in Int
        BY <1>2, <3>2, Numbers
      <4> QED BY <4>2, <4>3 DEF Larger
    <3>3. CASE g \notin Over(list)
      BY <1>2, <1>3, <2>1, <3>1, <3>3
    <3> QED BY <3>2, <3>3
  <2>2. \A r \in ToSet(rules') : r.gpio \notin lost' => owed'[r.gpio] <= r.duration - elapsed'
    BY <1>2, <1>9
  <2>3. leaked' < MaxFds => \A r \in ToSet(rules') : r.duration - elapsed' <= owed'[r.gpio] + slack'
    BY <1>9
  <2> QED BY <2>1, <2>2, <2>3 DEF LeftInv
<1> QED BY <1>1, <1>4, <1>7, <1>8, <1>10

----------------------------------------------------------------------------
(* The steps. *)

\* Once the time that is over is taken off, what is left is compared with what is owed.
LEMMA AgedLeft ==
    ASSUME AlarmInv, NEW aged, aged = Aged(rules, elapsed)
    PROVE  /\ aged \in Seq(Asked) /\ Distinct(aged) /\ Listed(aged) = Listed(rules)
           /\ \A r \in ToSet(aged) : r \in Asked /\ last[r.gpio] = r.polarity
           /\ \A r \in ToSet(aged) : r.gpio \notin lost => owed[r.gpio] <= r.duration
           /\ leaked < MaxFds => \A r \in ToSet(aged) : r.duration <= owed[r.gpio] + slack
<1>1. rules \in Seq(Running) /\ Distinct(rules) /\ elapsed \in 0..timeout /\ timeout = Timeout(rules)
  BY DEF AlarmInv, ListInv
<1>2. timeout \in 0..SecMax /\ \A r \in ToSet(rules) : timeout <= r.duration
  BY <1>1, Numbers, TimeoutBounds
<1>3. elapsed \in Nat
  BY <1>1, <1>2
<1>4. /\ aged \in Seq(Asked) /\ Distinct(aged) /\ Listed(aged) = Listed(rules)
      /\ ToSet(aged) = {[r EXCEPT !.duration = Minus(@, elapsed)] : r \in ToSet(rules)}
  BY <1>1, <1>3, Numbers, AgedRules
<1>5. \A r \in ToSet(aged) : r \in Asked
  BY <1>4, OverRules
<1>6. \A r \in ToSet(rules) : r \in Running
  BY <1>1, LenProperties, ElementOfSeq DEF ToSet
<1>7. ASSUME NEW r \in ToSet(aged)
      PROVE  \E q \in ToSet(rules) : q.gpio = r.gpio /\ q.polarity = r.polarity
                                     /\ r.duration = q.duration - elapsed
  <2>1. PICK q \in ToSet(rules) : r = [q EXCEPT !.duration = Minus(@, elapsed)]
    BY <1>4
  <2>2. q \in Running /\ elapsed <= q.duration
    BY <1>1, <1>2, <1>6 DEF Running
  <2>3. Minus(q.duration, elapsed) = q.duration - elapsed
    BY <1>3, <2>2, Numbers DEF Minus, Running
  <2> QED BY <2>1, <2>2, <2>3 DEF Running
<1> QED BY <1>4, <1>5, <1>7 DEF AlarmInv, ShownInv, LeftInv

\* Time: select counts it, or it adds to the slack.
LEMMA TickKeeps == AlarmInv /\ Tick => AlarmInv'
<1> SUFFICES ASSUME AlarmInv, Tick PROVE AlarmInv'
  OBVIOUS
<1>1. /\ UNCHANGED <<requests, backlog, pc, conn, buffer, rules, timeout, gpo, leaked, last, lost>>
      /\ owed' = [g \in Outputs |-> IF g \in Listed(rules) THEN Larger(owed[g] - 1, Overdue)
                                    ELSE Minus(owed[g], 1)]
      /\ \/ elapsed < timeout /\ elapsed' = elapsed + 1 /\ slack' = slack
         \/ slack < MaxSlack /\ slack' = slack + 1 /\ elapsed' = elapsed
  BY DEF Tick, clientVars, daemonVars
<1>2. ClientInv'
  BY <1>1 DEF AlarmInv, ClientInv
<1>3. rules \in Seq(Running) /\ timeout = Timeout(rules) /\ elapsed \in 0..timeout /\ timeout \in 0..SecMax
      /\ \A r \in ToSet(rules) : timeout <= r.duration
  BY Numbers, TimeoutBounds DEF AlarmInv, ListInv
<1>4. elapsed' \in 0..timeout /\ elapsed \in Nat /\ elapsed' \in Nat
  BY <1>1, <1>3
<1>5. ListInv'
  BY <1>1, <1>4 DEF AlarmInv, ListInv
<1>6. /\ \A g \in Outputs : owed[g] \in Overdue..SecMax /\ owed'[g] \in Overdue..SecMax
      /\ owed' \in [Outputs -> Overdue..SecMax]
  <2>1. \A g \in Outputs : owed[g] \in Overdue..SecMax
    BY DEF AlarmInv, ValueInv
  <2>2. \A g \in Outputs : Larger(owed[g] - 1, Overdue) \in Overdue..SecMax
                           /\ Minus(owed[g], 1) \in Overdue..SecMax
    BY <2>1, Numbers DEF Larger, Minus
  <2> QED BY <1>1, <2>1, <2>2
<1>7. slack' \in 0..MaxSlack /\ slack \in 0..MaxSlack
  BY <1>1, Numbers DEF AlarmInv, ValueInv
<1>8. ValueInv'
  BY <1>1, <1>6, <1>7 DEF AlarmInv, ValueInv
<1>9. ShownInv'
  BY <1>1 DEF AlarmInv, ShownInv
<1>10. \A r \in ToSet(rules) : r \in Running /\ r.gpio \in Listed(rules) /\ r.gpio \in Outputs
  <2>1. \A r \in ToSet(rules) : r \in Running
    BY <1>3, LenProperties, ElementOfSeq DEF ToSet
  <2> QED BY <2>1, ListedRules DEF Running
<1>11. LeftInv'
  <2>1. ASSUME NEW g \in Outputs \ lost, g \notin Listed(rules) PROVE owed'[g] <= 0
    <3>1. owed[g] <= 0 /\ owed[g] \in Int
      BY <1>6, <2>1, Numbers DEF AlarmInv, LeftInv
    <3>2. owed'[g] = Minus(owed[g], 1)
      BY <1>1, <2>1
    <3> QED BY <3>1, <3>2 DEF Minus
  <2>2. ASSUME NEW r \in ToSet(rules)
        PROVE  /\ r.gpio \notin lost => owed'[r.gpio] <= r.duration - elapsed'
               /\ leaked < MaxFds => r.duration - elapsed' <= owed'[r.gpio] + slack'
    <3>1. /\ r.gpio \notin lost => owed[r.gpio] <= r.duration - elapsed
          /\ leaked < MaxFds => r.duration - elapsed <= owed[r.gpio] + slack
      BY DEF AlarmInv, LeftInv
    <3>2. owed'[r.gpio] = Larger(owed[r.gpio] - 1, Overdue) /\ owed[r.gpio] \in Int
      <4>1. r.gpio \in Outputs /\ r.gpio \in Listed(rules)
        BY <1>10
      <4>2. owed[r.gpio] \in Overdue..SecMax
        BY <1>6, <4>1
      <4> QED BY <1>1, <4>1, <4>2, Numbers
    <3>3. r.duration \in Int /\ elapsed' <= r.duration /\ elapsed <= r.duration
      BY <1>3, <1>4, <1>10, Numbers DEF Running
    <3>4. owed'[r.gpio] \in Int /\ owed'[r.gpio] >= owed[r.gpio] - 1
          /\ (owed'[r.gpio] = owed[r.gpio] - 1 \/ owed'[r.gpio] < 0)
      BY <3>2, Numbers DEF Larger
    <3>5. slack \in Int /\ slack' \in Int
      BY <1>7, Numbers
    <3> QED BY <1>1, <1>4, <3>1, <3>2, <3>3, <3>4, <3>5
  <2> QED BY <1>1, <2>1, <2>2 DEF LeftInv
<1> QED BY <1>2, <1>5, <1>8, <1>9, <1>11 DEF AlarmInv

\* A client: it connects, and sends its rule or not.
LEMMA ClientKeeps ==
    ASSUME AlarmInv, (\E r \in Rules : Connect(r)) \/ ClientLeaves
    PROVE  AlarmInv'
<1>1. UNCHANGED <<pc, buffer, rules, timeout, elapsed, gpo, leaked, owed, last, slack, lost>>
  BY DEF Connect, ClientLeaves, daemonVars
<1>2. backlog \in Seq(Conns) /\ Len(backlog) \in Nat /\ DOMAIN backlog = 1..Len(backlog)
      /\ \A i \in 1..Len(backlog) : backlog[i] \in Conns
  BY LenProperties, ElementOfSeq DEF AlarmInv, ClientInv
<1>3. \A c \in Conns : c.state = "open" => Leave(c) \subseteq Conns
  BY DEF Conns, Leave
<1>4. ClientInv'
  <2>1. ASSUME NEW r \in Rules, Connect(r) PROVE ClientInv'
    <3>1. [state |-> "open", rule |-> r] \in Conns
      BY DEF Conns
    <3>2. backlog' \in Seq(Conns) /\ Len(backlog') = Len(backlog) + 1
      BY <1>2, <2>1, <3>1, AppendProperties DEF Connect
    <3> QED BY <1>1, <1>2, <2>1, <3>2, Numbers DEF Connect, AlarmInv, ClientInv
  <2>2. CASE ClientLeaves
    <3>1. CASE conn.state = "open" /\ conn' \in Leave(conn) /\ backlog' = backlog
      <4>1. pc = "recv" /\ conn \in Conns
        BY <3>1 DEF AlarmInv, ClientInv, NoConn
      <4>2. conn' \in Conns
        BY <1>3, <3>1, <4>1
      <4> QED BY <1>1, <2>2, <3>1, <4>1, <4>2 DEF ClientLeaves, AlarmInv, ClientInv
    <3>2. ASSUME NEW i \in DOMAIN backlog, backlog[i].state = "open", conn' = conn,
                 NEW c \in Leave(backlog[i]), backlog' = [backlog EXCEPT ![i] = c]
          PROVE  ClientInv'
      <4>1. c \in Conns /\ i \in 1..Len(backlog)
        BY <1>2, <1>3, <3>2
      <4>2. backlog' \in Seq(Conns) /\ Len(backlog') = Len(backlog)
        BY <1>2, <3>2, <4>1, ExceptSeq
      <4> QED BY <1>1, <2>2, <3>2, <4>2 DEF ClientLeaves, AlarmInv, ClientInv
    <3> QED BY <2>2, <3>1, <3>2 DEF ClientLeaves
  <2> QED BY <2>1, <2>2
<1> QED BY <1>1, <1>4 DEF AlarmInv, ListInv, ValueInv, ShownInv, LeftInv

\* A pass without a rule: the time-out is over, or no descriptor is left.
LEMMA IdlePassKeeps == AlarmInv /\ (TimedOut \/ AcceptFails) => AlarmInv'
<1> SUFFICES ASSUME AlarmInv, TimedOut \/ AcceptFails PROVE AlarmInv'
  OBVIOUS
<1>1. PICK list : /\ list = Aged(rules, elapsed) \/ (list = rules /\ leaked = MaxFds)
                  /\ EndPass(list, gpo, leaked) /\ Forget(lost, owed, list, leaked)
                  /\ UNCHANGED <<clientVars, buffer, leaked, last>>
  BY DEF TimedOut, AcceptFails
<1>2. /\ list \in Seq(Asked) /\ Distinct(list) /\ Listed(list) = Listed(rules)
      /\ \A r \in ToSet(list) : last[r.gpio] = r.polarity
      /\ \A r \in ToSet(list) : r.gpio \notin lost => owed[r.gpio] <= r.duration
      /\ leaked < MaxFds => \A r \in ToSet(list) : r.duration <= owed[r.gpio] + slack
  <2>1. CASE list = Aged(rules, elapsed)
    BY <2>1, AgedLeft
  <2>2. CASE list = rules /\ leaked = MaxFds
    <3>1. Running \subseteq Asked /\ rules \in Seq(Running) /\ elapsed \in Nat
      BY Numbers, TimeoutBounds DEF Running, Asked, AlarmInv, ListInv
    <3>2. rules \in Seq(Asked)
      BY <3>1, SeqMonotonic
    <3>3. \A r \in ToSet(rules) : r \in Asked /\ r.duration - elapsed <= r.duration
      <4>1. \A r \in ToSet(rules) : r \in Asked
        BY <3>2, LenProperties, ElementOfSeq DEF ToSet
      <4> QED BY <3>1, <4>1, Numbers DEF Asked
    <3>4. \A r \in ToSet(rules) : r.gpio \notin lost => owed[r.gpio] <= r.duration
      <4> SUFFICES ASSUME NEW r \in ToSet(rules), r.gpio \notin lost PROVE owed[r.gpio] <= r.duration
        OBVIOUS
      <4>1. owed[r.gpio] <= r.duration - elapsed
        BY DEF AlarmInv, LeftInv
      <4>2. r.gpio \in Outputs /\ r.duration \in Int
        BY <3>3, Numbers DEF Asked
      <4>3. owed[r.gpio] \in Int
        <5>1. owed[r.gpio] \in Overdue..SecMax
          BY <4>2 DEF AlarmInv, ValueInv
        <5> QED BY <5>1, Numbers
      <4> QED BY <3>1, <4>1, <4>2, <4>3
    <3> QED BY <2>2, <3>2, <3>4, Numbers DEF AlarmInv, ListInv, ShownInv
  <2> QED BY <1>1, <2>1, <2>2
<1>3. pc' = "select" /\ conn' = NoConn /\ ListInv' /\ ValueInv' /\ ShownInv' /\ LeftInv'
  <2>1. /\ ValueInv /\ gpo \in [Outputs -> {0, 1}] /\ leaked \in 0..MaxFds /\ leaked' = leaked
        /\ lost \subseteq Outputs /\ owed \in [Outputs -> Overdue..SecMax] /\ last' = last
        /\ last' \in [Outputs -> {0, 1}]
    BY <1>1 DEF AlarmInv, ValueInv, ClientInv
  <2>2. \A g \in Outputs \ lost :
           /\ gpo[g] = IF g \in Listed(list) THEN last'[g] ELSE 1 - last'[g]
           /\ g \notin Listed(list) => owed[g] <= 0
    BY <1>2, <2>1 DEF AlarmInv, ShownInv, LeftInv
  <2> QED BY <1>1, <1>2, <2>1, <2>2, PassEnds, SMTT(20)
<1>4. ClientInv'
  BY <1>1, <1>3 DEF AlarmInv, ClientInv, clientVars
<1> QED BY <1>3, <1>4 DEF AlarmInv

\* accept() takes the oldest connection, when a descriptor is left.
LEMMA AcceptKeeps == AlarmInv /\ Accept => AlarmInv'
<1> SUFFICES ASSUME AlarmInv, Accept PROVE AlarmInv'
  OBVIOUS
<1>1. /\ backlog # <<>> /\ leaked < MaxFds /\ conn' = Head(backlog) /\ backlog' = Tail(backlog)
      /\ pc' = "recv"
      /\ UNCHANGED <<requests, elapsed, daemonVars, owed, last, slack, lost>>
  BY DEF Accept
<1>2. Head(backlog) \in Conns /\ Tail(backlog) \in Seq(Conns) /\ Len(Tail(backlog)) = Len(backlog) - 1
      /\ Len(backlog) \in Nat
  BY <1>1, HeadTailProperties, LenProperties DEF AlarmInv, ClientInv
<1>3. ClientInv'
  BY <1>1, <1>2, Numbers DEF AlarmInv, ClientInv, daemonVars
<1> QED BY <1>1, <1>3 DEF AlarmInv, ListInv, ValueInv, ShownInv, LeftInv, daemonVars

\* A rule for an output: it is listed, replaces a shorter one, or is ignored.
LEMMA TakeRuleKeeps ==
    ASSUME AlarmInv, pc = "recv", NEW r \in Asked, TakeRule(Aged(rules, elapsed), r)
    PROVE  leaked' = leaked /\ pc' = "select" /\ conn' = NoConn
           /\ ListInv' /\ ValueInv' /\ ShownInv' /\ LeftInv'
<1> DEFINE aged    == Aged(rules, elapsed)
           list    == Updated(aged, r)
           isNew   == r.gpio \notin Listed(aged)
           owing   == IF Conflicts(aged, r) THEN owed
                      ELSE [owed EXCEPT ![r.gpio] = Larger(@, r.duration)]
           dropped == Listed(aged) \ Listed(list)
           again   == IF isNew /\ r.duration >= owed[r.gpio] THEN {r.gpio} ELSE {}
           left    == (lost \ again) \cup dropped
           values  == IF isNew THEN [gpo EXCEPT ![r.gpio] = r.polarity] ELSE gpo
<1>1. /\ EndPass(list, values, leaked) /\ Forget(left, owing, list, leaked)
      /\ last' = IF isNew THEN [last EXCEPT ![r.gpio] = r.polarity] ELSE last
      /\ leaked' = leaked
  BY DEF TakeRule
<1>2. /\ aged \in Seq(Asked) /\ Distinct(aged) /\ Listed(aged) = Listed(rules)
      /\ \A q \in ToSet(aged) : q \in Asked /\ last[q.gpio] = q.polarity
      /\ \A q \in ToSet(aged) : q.gpio \notin lost => owed[q.gpio] <= q.duration
      /\ leaked < MaxFds => \A q \in ToSet(aged) : q.duration <= owed[q.gpio] + slack
  BY AgedLeft
<1>3. /\ ValueInv /\ leaked \in 0..MaxFds
      /\ gpo \in [Outputs -> {0, 1}] /\ last \in [Outputs -> {0, 1}] /\ lost \subseteq Outputs
      /\ owed \in [Outputs -> Overdue..SecMax] /\ slack \in Nat
  BY Numbers DEF AlarmInv, ValueInv, ClientInv
<1>4. /\ r.gpio \in Outputs /\ r.polarity \in {0, 1} /\ r.duration \in 0..SecMax
      /\ r.duration \in Int /\ 0 <= r.duration /\ r.duration <= SecMax
  <2>1. r.gpio \in Outputs /\ r.polarity \in {0, 1} /\ r.duration \in 0..SecMax
    BY DEF Asked
  <2> QED BY <2>1, Numbers
<1>5. \A g \in Outputs : owed[g] \in Int /\ owed[g] \in Overdue..SecMax
  <2> TAKE g \in Outputs
  <2>1. owed[g] \in Overdue..SecMax
    BY <1>3
  <2> QED BY <2>1, Numbers
<1> HIDE DEF aged
<1>6. /\ list \in Seq(Asked) /\ Distinct(list) /\ r.gpio \in Listed(list)
      /\ Listed(list) \subseteq Listed(aged) \cup {r.gpio}
      /\ isNew => ToSet(list) = ToSet(aged) \cup {r}
      /\ ~isNew =>
           \A q \in ToSet(list) :
              \/ /\ q \in ToSet(aged)
                 /\ q.gpio = r.gpio => q.polarity # r.polarity \/ r.duration <= q.duration
              \/ /\ q = r
                 /\ \E o \in ToSet(aged) : o.gpio = r.gpio /\ o.polarity = r.polarity
                                           /\ o.duration < r.duration
  BY <1>2, UpdatedRules
<1>7. /\ \A q \in ToSet(list) : q \in Asked /\ q.gpio \in Listed(list)
      /\ \A q \in ToSet(aged) : q.gpio \in Listed(aged)
      /\ \A q, o \in ToSet(aged) : q.gpio = o.gpio => q = o
      /\ \A q, o \in ToSet(list) : q.gpio = o.gpio => q = o
      /\ Listed(aged) \subseteq Outputs
  BY <1>2, <1>6, ListedRules, OverRules
<1> HIDE DEF list
<1>8. Conflicts(aged, r) <=> \E q \in ToSet(aged) : q.gpio = r.gpio /\ q.polarity # r.polarity
  BY DEF Conflicts, ToSet
<1>9. owing \in [Outputs -> Overdue..SecMax]
      /\ (\A g \in Outputs : g # r.gpio => owing[g] = owed[g])
      /\ owing[r.gpio] = IF Conflicts(aged, r) \/ r.duration <= owed[r.gpio] THEN owed[r.gpio] ELSE r.duration
  <2>1. Larger(owed[r.gpio], r.duration) \in Overdue..SecMax
        /\ Larger(owed[r.gpio], r.duration) = IF r.duration <= owed[r.gpio] THEN owed[r.gpio] ELSE r.duration
    <3>1. /\ owed[r.gpio] \in Int /\ Overdue <= owed[r.gpio] /\ owed[r.gpio] <= SecMax
          /\ r.duration \in Int /\ SecMax \in Int /\ Overdue \in Int /\ Overdue < 0
      <4>1. owed[r.gpio] \in Overdue..SecMax
        BY <1>4, <1>5
      <4>2. SecMax \in Int /\ Overdue \in Int /\ Overdue < 0
        BY Numbers
      <4> QED BY <1>4, <4>1, <4>2
    <3> QED BY <1>4, <3>1 DEF Larger
  <2> QED BY <1>3, <1>4, <2>1
<1>10. values \in [Outputs -> {0, 1}] /\ last' \in [Outputs -> {0, 1}] /\ left \subseteq Outputs
  BY <1>1, <1>3, <1>4, <1>7
<1>11. \A q \in ToSet(list) : last'[q.gpio] = q.polarity
  <2> SUFFICES ASSUME NEW q \in ToSet(list) PROVE last'[q.gpio] = q.polarity
    OBVIOUS
  <2>1. CASE isNew
    BY <1>1, <1>2, <1>3, <1>4, <1>6, <1>7, <2>1
  <2>2. CASE ~isNew
    BY <1>1, <1>2, <1>6, <2>2
  <2> QED BY <2>1, <2>2
<1>12. \A g \in Outputs \ left : g \notin Listed(list) => g \notin Listed(aged) /\ g \notin lost /\ g # r.gpio
  BY <1>6
<1>13. \A g \in Outputs \ left : g # r.gpio \/ ~isNew => g \notin lost
  OBVIOUS
<1>14. \A g \in Outputs \ left :
          values[g] = IF g \in Listed(list) THEN last'[g] ELSE 1 - last'[g]
  <2> SUFFICES ASSUME NEW g \in Outputs \ left
               PROVE  values[g] = IF g \in Listed(list) THEN last'[g] ELSE 1 - last'[g]
    OBVIOUS
  <2>1. CASE isNew /\ g = r.gpio
    BY <1>1, <1>3, <1>4, <1>6, <2>1
  <2>2. CASE ~(isNew /\ g = r.gpio)
    <3>1. g \notin lost /\ values[g] = gpo[g] /\ last'[g] = last[g]
      BY <1>1, <1>3, <1>4, <1>13, <2>2
    <3>2. g \in Listed(list) <=> g \in Listed(rules)
      BY <1>2, <1>6, <2>2
    <3> QED BY <3>1, <3>2 DEF AlarmInv, ShownInv
  <2> QED BY <2>1, <2>2
<1>15. \A g \in Outputs \ left : g \notin Listed(list) => owing[g] <= 0
  BY <1>2, <1>9, <1>12 DEF AlarmInv, LeftInv
<1>16. ASSUME NEW q \in ToSet(list), q.gpio \notin left PROVE owing[q.gpio] <= q.duration
  <2>1. q \in Asked /\ q.gpio \in Outputs /\ q.duration \in Int /\ r.duration \in Int
    BY <1>4, <1>7, Numbers DEF Asked
  <2>2. CASE q.gpio # r.gpio
    <3>1. q \in ToSet(aged) /\ q.gpio \notin lost
      BY <1>6, <1>13, <1>16, <2>1, <2>2
    <3> QED BY <1>2, <1>9, <2>1, <2>2, <3>1
  <2>3. CASE q.gpio = r.gpio /\ isNew
    <3>1. q = r
      BY <1>6, <1>7, <2>3
    <3>2. owed[r.gpio] <= r.duration
      <4>1. CASE r.gpio \in lost
        BY <1>16, <2>3, <4>1
      <4>2. CASE r.gpio \notin lost
        <5>1. owed[r.gpio] <= 0
          BY <1>2, <1>4, <2>3, <4>2 DEF AlarmInv, LeftInv
        <5>2. owed[r.gpio] \in Int
          BY <1>4, <1>5
        <5> QED BY <1>4, <5>1, <5>2
      <4> QED BY <4>1, <4>2
    <3> QED BY <1>4, <1>5, <1>9, <2>1, <2>3, <3>1, <3>2
  <2>4. CASE q.gpio = r.gpio /\ ~isNew
    <3>1. q.gpio \notin lost
      BY <1>13, <1>16, <2>1, <2>4
    <3>2. CASE q \in ToSet(aged) /\ (q.polarity # r.polarity \/ r.duration <= q.duration)
      <4>1. owed[q.gpio] <= q.duration
        BY <1>2, <3>1, <3>2
      <4>2. Conflicts(aged, r) \/ r.duration <= q.duration
        BY <1>8, <2>4, <3>2
      <4> QED BY <1>5, <1>9, <2>1, <2>4, <4>1, <4>2
    <3>3. ASSUME q = r, NEW o \in ToSet(aged), o.gpio = r.gpio, o.polarity = r.polarity, o.duration < r.duration
          PROVE  owing[q.gpio] <= q.duration
      <4>1. owed[o.gpio] <= o.duration /\ o.duration \in Int
        BY <1>2, <2>4, <3>1, <3>3, Numbers DEF Asked
      <4> QED BY <1>5, <1>9, <2>1, <3>3, <4>1
    <3> QED BY <1>6, <2>4, <3>2, <3>3
  <2> QED BY <2>2, <2>3, <2>4
<1>17. ASSUME leaked < MaxFds, NEW q \in ToSet(list) PROVE q.duration <= owing[q.gpio] + slack
  <2>1. q \in Asked /\ q.gpio \in Outputs /\ q.duration \in Int /\ r.duration \in Int
    BY <1>4, <1>7, Numbers DEF Asked
  <2>2. owing[q.gpio] \in Int /\ owed[q.gpio] \in Int /\ owing[q.gpio] >= owed[q.gpio]
    BY <1>5, <1>9, <2>1
  <2>3. CASE q \in ToSet(aged)
    BY <1>2, <1>3, <1>17, <2>1, <2>2, <2>3
  <2>4. CASE q = r /\ q \notin ToSet(aged)
    <3>1. ~Conflicts(aged, r)
      BY <1>6, <1>7, <1>8, <2>4
    <3> QED BY <1>3, <1>5, <1>9, <2>1, <2>2, <2>4, <3>1
  <2> QED BY <1>6, <2>3, <2>4
<1> HIDE DEF isNew, owing, dropped, again, left, values
<1> QED BY <1>1, <1>3, <1>6, <1>9, <1>10, <1>11, <1>14, <1>15, <1>16, <1>17, PassEnds

\* A rule for an input, or for no exported GPIO: only a descriptor is lost.
LEMMA RefuseKeeps ==
    ASSUME AlarmInv, pc = "recv", NEW r, Refuse(Aged(rules, elapsed), r)
    PROVE  leaked' \in 0..MaxFds /\ pc' = "select" /\ conn' = NoConn
           /\ ListInv' /\ ValueInv' /\ ShownInv' /\ LeftInv'
<1> DEFINE aged == Aged(rules, elapsed)
<1>1. /\ leaked' = IF r.gpio \in Inputs THEN leaked + 1 ELSE leaked
      /\ EndPass(aged, gpo, leaked') /\ Forget(lost, owed, aged, leaked') /\ last' = last
  BY DEF Refuse
<1>2. leaked \in 0..MaxFds /\ leaked < MaxFds /\ leaked' \in 0..MaxFds
  BY <1>1, Numbers DEF AlarmInv, ClientInv
<1>3. /\ aged \in Seq(Asked) /\ Distinct(aged) /\ Listed(aged) = Listed(rules)
      /\ \A q \in ToSet(aged) : q \in Asked /\ last[q.gpio] = q.polarity
      /\ \A q \in ToSet(aged) : q.gpio \notin lost => owed[q.gpio] <= q.duration
      /\ \A q \in ToSet(aged) : q.duration <= owed[q.gpio] + slack
  BY <1>2, AgedLeft
<1>4. /\ ValueInv /\ gpo \in [Outputs -> {0, 1}] /\ lost \subseteq Outputs
      /\ owed \in [Outputs -> Overdue..SecMax] /\ last' \in [Outputs -> {0, 1}]
  BY <1>1 DEF AlarmInv, ValueInv
<1>5. /\ \A g \in Outputs \ lost : gpo[g] = IF g \in Listed(aged) THEN last'[g] ELSE 1 - last'[g]
      /\ \A g \in Outputs \ lost : g \notin Listed(aged) => owed[g] <= 0
  BY <1>1, <1>3 DEF AlarmInv, ShownInv, LeftInv
<1>6. \A q \in ToSet(aged) : last'[q.gpio] = q.polarity
  BY <1>1, <1>3
<1> HIDE DEF aged
<1> QED
  <2>1. PICK fds \in 0..MaxFds : leaked' = fds
    BY <1>2
  <2>2. EndPass(aged, gpo, fds) /\ Forget(lost, owed, aged, fds)
    BY <1>1, <2>1
  <2> QED BY <1>1, <1>2, <1>3, <1>4, <1>5, <1>6, <2>1, <2>2, PassEnds

\* recv, and what is made of what is in the buffer then.
LEMMA ReceiveKeeps == AlarmInv /\ Receive => AlarmInv'
<1> SUFFICES ASSUME AlarmInv, Receive PROVE AlarmInv'
  OBVIOUS
<1>1. /\ pc = "recv" /\ conn.state # "open" /\ buffer' = Received /\ UNCHANGED clientVars
      /\ IF Received.gpio \in Outputs THEN TakeRule(Aged(rules, elapsed), Received)
         ELSE Refuse(Aged(rules, elapsed), Received)
  BY DEF Receive
<1>2. Received \in Rules \cup {ZeroRule}
  BY <1>1 DEF Received, Conns, AlarmInv, ClientInv
<1>3. Received.gpio \in Outputs => Received \in Asked
  BY <1>2, Numbers DEF ZeroRule, Asked
<1>4. leaked' \in 0..MaxFds /\ pc' = "select" /\ conn' = NoConn
      /\ ListInv' /\ ValueInv' /\ ShownInv' /\ LeftInv'
  <2>1. CASE Received.gpio \in Outputs
    <3>1. leaked' = leaked /\ pc' = "select" /\ conn' = NoConn
          /\ ListInv' /\ ValueInv' /\ ShownInv' /\ LeftInv'
      BY <1>1, <1>3, <2>1, TakeRuleKeeps
    <3> QED BY <3>1 DEF AlarmInv, ClientInv
  <2>2. CASE Received.gpio \notin Outputs
    BY <1>1, <2>2, RefuseKeeps
  <2> QED BY <2>1, <2>2
<1>5. ClientInv'
  BY <1>1, <1>2, <1>4 DEF AlarmInv, ClientInv, clientVars
<1> QED BY <1>4, <1>5 DEF AlarmInv

----------------------------------------------------------------------------
(* The theorems. *)

\* Nothing is listed, and all outputs are off.
LEMMA AlarmInitially == Init => AlarmInv
<1> SUFFICES ASSUME Init PROVE AlarmInv
  OBVIOUS
<1>1. <<>> \in Seq(Running) /\ <<>> \in Seq(Conns) /\ Len(<<>>) = 0 /\ Distinct(<<>>)
      /\ Listed(<<>>) = {} /\ ToSet(<<>>) = {}
  BY EmptySeq DEF Distinct, Listed, ToSet
<1>2. Timeout(<<>>) = SecMax
  <2>1. {SecMax} \cup {<<>>[i].duration : i \in DOMAIN <<>>} = {SecMax}
    OBVIOUS
  <2>2. Timeout(<<>>) = CHOOSE x \in {SecMax} : \A y \in {SecMax} : x <= y
    BY <2>1 DEF Timeout, Min
  <2> QED BY <2>2, Numbers
<1>3. ClientInv
  BY <1>1, Numbers DEF Init, ClientInv
<1>4. ListInv
  BY <1>1, <1>2, Numbers DEF Init, ListInv
<1>5. ValueInv
  BY Numbers DEF Init, ValueInv
<1>6. ShownInv /\ LeftInv
  BY <1>1 DEF Init, ShownInv, LeftInv
<1> QED BY <1>3, <1>4, <1>5, <1>6 DEF AlarmInv

\* The list, what its outputs show and what is owed hold for ever, whatever clients send.
THEOREM AlarmInvariant == Spec => []AlarmInv
<1>1. ASSUME AlarmInv, [Next]_vars PROVE AlarmInv'
  <2>1. CASE UNCHANGED vars
    BY <1>1, <2>1 DEF vars, AlarmInv, ClientInv, ListInv, ValueInv, ShownInv, LeftInv
  <2> QED BY <1>1, <2>1, TickKeeps, ClientKeeps, IdlePassKeeps, AcceptKeeps, ReceiveKeeps DEF Next, Daemon
<1> QED BY <1>1, AlarmInitially, PTL DEF Spec

\* TypeOK: at most one rule is listed for an output and none for anything else, and no
\* more descriptors are lost than there are.
THEOREM TypeCorrect == Spec => []TypeOK
<1>1. ASSUME AlarmInv PROVE TypeOK
  <2> DEFINE n == Len(rules)
  <2>1. rules \in Seq(Running) /\ n \in Nat /\ DOMAIN rules = 1..n /\ \A i \in 1..n : rules[i] \in Running
    BY <1>1, LenProperties, ElementOfSeq DEF AlarmInv, ListInv
  <2>2. Cardinality(Listed(rules)) = n
    <3> DEFINE f == [i \in 1..n |-> rules[i].gpio]
    <3>1. f \in Injection(1..n, Listed(rules))
      BY <1>1, <2>1 DEF Injection, IsInjective, Listed, AlarmInv, ListInv, Distinct
    <3>2. f \in Surjection(1..n, Listed(rules))
      BY <2>1 DEF Surjection, Listed
    <3>3. ExistsBijection(1..n, Listed(rules))
      BY <3>1, <3>2 DEF ExistsBijection, Bijection
    <3> QED BY <2>1, <3>3, FS_CountingElements
  <2>3. ToSet(rules) \subseteq Running
    BY <2>1 DEF ToSet
  <2>4. ToSet(backlog) \subseteq Conns
    BY <1>1, LenProperties, ElementOfSeq DEF ToSet, AlarmInv, ClientInv
  <2>5. conn \in IF pc = "recv" THEN Conns ELSE {NoConn}
    BY <1>1 DEF AlarmInv, ClientInv
  <2> QED BY <1>1, <2>2, <2>3, <2>4, <2>5 DEF TypeOK, Running, AlarmInv, ClientInv, ListInv, ValueInv
<1> QED BY <1>1, AlarmInvariant, PTL

\* OnAsAsked: an output is on while it has a rule and off afterwards, and it has one for as
\* long as the longest rule that gpio_daemon took for it.
THEOREM OnAsAskedCorrect == Spec => []OnAsAsked
<1>1. ASSUME AlarmInv PROVE OnAsAsked
  <2> SUFFICES ASSUME NEW g \in Outputs \ lost, owed[g] > 0, g \notin Listed(rules) PROVE FALSE
    BY <1>1 DEF OnAsAsked, AlarmInv, ShownInv
  <2>1. owed[g] \in Overdue..SecMax /\ owed[g] <= 0
    BY <1>1 DEF AlarmInv, ValueInv, LeftInv
  <2> QED BY <2>1, Numbers
<1> QED BY <1>1, AlarmInvariant, PTL

\* NotTooLong: no output is on for longer than was asked by more than the time that
\* gpio_daemon was not in select.
THEOREM NotTooLongCorrect == Spec => []NotTooLong
<1>1. ASSUME AlarmInv PROVE NotTooLong
  <2> SUFFICES ASSUME leaked < MaxFds, NEW r \in ToSet(rules) PROVE owed[r.gpio] + slack >= 0
    BY ListedRules DEF NotTooLong
  <2>1. rules \in Seq(Running) /\ elapsed \in 0..timeout /\ timeout = Timeout(rules)
    BY <1>1 DEF AlarmInv, ListInv
  <2>2. timeout \in Nat /\ timeout <= r.duration
    BY <2>1, Numbers, TimeoutBounds
  <2>3. r \in Running
    BY <2>1, LenProperties, ElementOfSeq DEF ToSet
  <2>4. elapsed \in Int /\ r.duration \in Int /\ elapsed <= r.duration
    BY <2>1, <2>2, <2>3, Numbers DEF Running
  <2>5. r.duration - elapsed <= owed[r.gpio] + slack
    BY <1>1 DEF AlarmInv, LeftInv
  <2>6. owed[r.gpio] \in Int /\ slack \in Int
    <3>1. owed[r.gpio] \in Overdue..SecMax /\ slack \in 0..MaxSlack
      BY <1>1, <2>3 DEF Running, AlarmInv, ValueInv
    <3> QED BY <3>1, Numbers
  <2> QED BY <2>4, <2>5, <2>6
<1> QED BY <1>1, AlarmInvariant, PTL

=============================================================================
