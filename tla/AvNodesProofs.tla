--------------------------- MODULE AvNodesProofs ---------------------------
(***************************************************************************)
(* Proofs about AvNodes: in every state the places main() and the command  *)
(* thread have reached in their lists of calls tell which nodes run, and   *)
(* with which fields of g_conf.  Three facts carry the argument.  Every    *)
(* list of calls goes through the nodes in one order, that of Nth, so the  *)
(* states of the nodes are known by a number (Level).  What a command      *)
(* leaves undone is known by the calls left of it (CommandAt).  And a call *)
(* that is made where it belongs answers (InitCall, StartCall, StopCall,   *)
(* SetCall).  Without video control no restart brings anything up, and     *)
(* what runs is what the boot started (Spared).                            *)
(***************************************************************************)
EXTENDS AvNodes, SequenceTheorems, TLAPS

-----------------------------------------------------------------------------
(* The nodes and their order. *)

\* The nodes in the order CORE_exit stops them, which is the reverse of that of a start.
Nth == <<"ENC", "IVA", "WIN_IMAGE_PREFERENCE", "CHN", "IMAGE_PREFERENCE", "DEV", "VB">>

\* The first k nodes to be stopped.
First(k) == [i \in 1..k |-> Nth[i]]

\* Nth numbers the nodes.
LEMMA Numbering ==
    /\ Nth[1] = "ENC" /\ Nth[2] = "IVA" /\ Nth[3] = "WIN_IMAGE_PREFERENCE" /\ Nth[4] = "CHN"
    /\ Nth[5] = "IMAGE_PREFERENCE" /\ Nth[6] = "DEV" /\ Nth[7] = "VB"
    /\ DOMAIN Nth = 1..7 /\ \A i \in 1..7 : Nth[i] \in Nodes
    /\ \A n \in Nodes : \E i \in 1..7 : Nth[i] = n
    /\ \A i, j \in 1..7 : Nth[i] = Nth[j] => i = j
BY DEF Nth, Nodes

\* The next node after the first k.
LEMMA FirstAndNext ==
    ASSUME NEW k \in 0..6
    PROVE  First(k) \o <<Nth[k + 1]>> = First(k + 1)
<1> DEFINE s == First(k) \o <<Nth[k + 1]>>
<1>1. Len(First(k)) = k /\ DOMAIN First(k) = 1..k /\ \A i \in 1..k : First(k)[i] = Nth[i]
  BY DEF First
<1>2. First(k) \in Seq(Nodes)
  BY Numbering DEF First
<1>3. <<Nth[k + 1]>> \in Seq(Nodes) /\ Len(<<Nth[k + 1]>>) = 1 /\ <<Nth[k + 1]>>[1] = Nth[k + 1]
  BY Numbering
<1> HIDE DEF First
<1>4. Len(s) = k + 1 /\ s \in Seq(Nodes)
  BY <1>1, <1>2, <1>3, ConcatProperties
<1>5. \A i \in 1..(k + 1) : s[i] = IF i <= k THEN First(k)[i] ELSE <<Nth[k + 1]>>[i - k]
  BY <1>1, <1>2, <1>3, ConcatProperties
<1>6. \A i \in 1..(k + 1) : s[i] = Nth[i]
  BY <1>1, <1>3, <1>5
<1>7. s = [i \in 1..(k + 1) |-> s[i]]
  BY <1>4, LenProperties
<1> HIDE DEF s
<1> QED BY <1>6, <1>7 DEF First

\* The children of each node (the childNodes of the NODE_S tables).
LEMMA ChildOf ==
    /\ Child["VB"] = <<"DEV">> /\ Child["DEV"] = <<"IMAGE_PREFERENCE", "CHN">>
    /\ Child["IMAGE_PREFERENCE"] = <<>>
    /\ Child["CHN"] = <<"WIN_IMAGE_PREFERENCE", "IVA", "ENC">>
    /\ Child["WIN_IMAGE_PREFERENCE"] = <<>> /\ Child["IVA"] = <<>> /\ Child["ENC"] = <<>>
BY DEF Child, Nodes

\* FlattenSeq of one sequence.
LEMMA FlattenOne == ASSUME NEW a PROVE FlattenSeq(<<a>>) = a
<1> DEFINE E(g) == [i \in 1..1 |-> IF i = 1 THEN <<a>>[i] ELSE g[i - 1] \o <<a>>[i]]
           f == CHOOSE g : g = E(g)
<1>1. [i \in 1..1 |-> a] = E([i \in 1..1 |-> a])
  OBVIOUS
<1>2. f = E(f)
  <2> HIDE DEF E
  <2> QED BY <1>1
<1>3. FlattenSeq(<<a>>) = f[1]
  BY DEF FlattenSeq
<1> HIDE DEF f
<1>4. f[1] = E(f)[1]
  BY <1>2
<1> QED BY <1>3, <1>4

\* FlattenSeq of two sequences.
LEMMA FlattenTwo == ASSUME NEW a, NEW b PROVE FlattenSeq(<<a, b>>) = a \o b
<1> DEFINE cat(x, y) == x \o y
           E(g) == [i \in 1..2 |-> IF i = 1 THEN <<a, b>>[i] ELSE cat(g[i - 1], <<a, b>>[i])]
           f == CHOOSE g : g = E(g)
<1>3. FlattenSeq(<<a, b>>) = f[2]
  BY DEF FlattenSeq
<1> HIDE DEF cat
<1>1. [i \in 1..2 |-> IF i = 1 THEN a ELSE cat(a, b)] = E([i \in 1..2 |-> IF i = 1 THEN a ELSE cat(a, b)])
  OBVIOUS
<1>2. f = E(f)
  <2> HIDE DEF E
  <2> QED BY <1>1
<1> HIDE DEF f
<1>4. f[1] = E(f)[1] /\ f[2] = E(f)[2]
  BY <1>2
<1>5. f[1] = a /\ f[2] = cat(f[1], b)
  BY <1>4
<1> HIDE DEF E
<1> QED BY <1>3, <1>5 DEF cat

\* Three sequences, one after the other.
Join(a, b, c) == (a \o b) \o c

\* FlattenSeq of three sequences.
LEMMA FlattenThree == ASSUME NEW a, NEW b, NEW c PROVE FlattenSeq(<<a, b, c>>) = Join(a, b, c)
<1> DEFINE cat(x, y) == x \o y
           E(g) == [i \in 1..3 |-> IF i = 1 THEN <<a, b, c>>[i]
                                  ELSE cat(g[i - 1], <<a, b, c>>[i])]
           h == [i \in 1..3 |-> IF i = 1 THEN a
                               ELSE IF i = 2 THEN cat(a, b) ELSE cat(cat(a, b), c)]
           f == CHOOSE g : g = E(g)
<1>1. FlattenSeq(<<a, b, c>>) = f[3]
  BY DEF FlattenSeq
<1> HIDE DEF cat
<1>2. h = E(h)
  <2>1. ASSUME NEW i \in 1..3 PROVE h[i] = E(h)[i]
    <3>1. CASE i = 1
      BY <3>1
    <3>2. CASE i = 2
      BY <3>2
    <3>3. CASE i = 3
      BY <3>3
    <3> QED BY <3>1, <3>2, <3>3
  <2>2. DOMAIN h = 1..3 /\ DOMAIN E(h) = 1..3
    OBVIOUS
  <2> QED BY <2>1, <2>2
<1>3. f = E(f)
  <2> HIDE DEF E, h
  <2> QED BY <1>2
<1> HIDE DEF f
<1>4. f[1] = E(f)[1] /\ f[2] = E(f)[2] /\ f[3] = E(f)[3]
  BY <1>3
<1>5. f[1] = a /\ f[2] = cat(f[1], b) /\ f[3] = cat(f[2], c)
  BY <1>4
<1> HIDE DEF E, h
<1> QED BY <1>1, <1>5 DEF cat, Join

\* What LeaveOrder says of a node n, when g gives the order under its children.
AfterChildren(g, n) ==
    FlattenSeq([i \in DOMAIN Child[n] |-> g[Reverse(Child[n])[i]]]) \o <<n>>

\* The order under a node, spelt out for each node.
LEMMA OrderBelow ==
    ASSUME NEW g
    PROVE  /\ \A n \in {"ENC", "IVA", "WIN_IMAGE_PREFERENCE", "IMAGE_PREFERENCE"} : AfterChildren(g, n) = <<n>>
           /\ AfterChildren(g, "CHN") = Join(g["ENC"], g["IVA"], g["WIN_IMAGE_PREFERENCE"]) \o <<"CHN">>
           /\ AfterChildren(g, "DEV") = (g["CHN"] \o g["IMAGE_PREFERENCE"]) \o <<"DEV">>
           /\ AfterChildren(g, "VB") = g["DEV"] \o <<"VB">>
<1> DEFINE below(n) == [i \in DOMAIN Child[n] |-> g[Reverse(Child[n])[i]]]
<1>1. ASSUME NEW n \in {"ENC", "IVA", "WIN_IMAGE_PREFERENCE", "IMAGE_PREFERENCE"}
      PROVE  AfterChildren(g, n) = <<n>>
  <2>1. Child[n] = <<>>
    BY ChildOf
  <2>2. below(n) = <<>> /\ Len(<<>>) = 0
    BY <2>1
  <2>3. FlattenSeq(<<>>) = <<>>
    BY DEF FlattenSeq
  <2>4. <<>> \o <<n>> = <<n>>
    OBVIOUS
  <2> QED BY <2>2, <2>3, <2>4 DEF AfterChildren
<1>2. AfterChildren(g, "CHN") = Join(g["ENC"], g["IVA"], g["WIN_IMAGE_PREFERENCE"]) \o <<"CHN">>
  <2>1. Reverse(Child["CHN"]) = <<"ENC", "IVA", "WIN_IMAGE_PREFERENCE">> /\ DOMAIN Child["CHN"] = 1..3
    BY ChildOf DEF Reverse
  <2>2. below("CHN") = <<g["ENC"], g["IVA"], g["WIN_IMAGE_PREFERENCE"]>>
    BY <2>1
  <2>3. AfterChildren(g, "CHN") = FlattenSeq(below("CHN")) \o <<"CHN">>
    BY DEF AfterChildren
  <2>4. FlattenSeq(below("CHN")) = Join(g["ENC"], g["IVA"], g["WIN_IMAGE_PREFERENCE"])
    <3> HIDE DEF below
    <3> QED BY <2>2, FlattenThree
  <2> QED BY ONLY <2>4, <2>3, Zenon
<1>3. AfterChildren(g, "DEV") = (g["CHN"] \o g["IMAGE_PREFERENCE"]) \o <<"DEV">>
  <2>1. Reverse(Child["DEV"]) = <<"CHN", "IMAGE_PREFERENCE">> /\ DOMAIN Child["DEV"] = 1..2
    BY ChildOf DEF Reverse
  <2>2. below("DEV") = <<g["CHN"], g["IMAGE_PREFERENCE"]>>
    BY <2>1
  <2> QED BY <2>2, FlattenTwo DEF AfterChildren
<1>4. AfterChildren(g, "VB") = g["DEV"] \o <<"VB">>
  <2>1. Reverse(Child["VB"]) = <<"DEV">> /\ DOMAIN Child["VB"] = 1..1
    BY ChildOf DEF Reverse
  <2>2. below("VB") = <<g["DEV"]>>
    BY <2>1
  <2> QED BY <2>2, FlattenOne DEF AfterChildren
<1> QED BY <1>1, <1>2, <1>3, <1>4

\* LeaveOrder numbers the nodes as Nth does, for the three nodes it is used of.
LEMMA LeaveOrderIs ==
    /\ LeaveOrder["ENC"] = First(1) /\ LeaveOrder["CHN"] = First(4) /\ LeaveOrder["VB"] = First(7)
<1> DEFINE E(g) == [n \in Nodes |-> AfterChildren(g, n)]
           h == [n \in Nodes |-> CASE n = "CHN" -> First(4) [] n = "DEV" -> First(6)
                                   [] n = "VB" -> First(7) [] OTHER -> <<n>>]
           f == CHOOSE g : g = E(g)
<1>0. /\ First(1) = <<"ENC">> /\ First(1) \o <<"IVA">> = First(2)
      /\ First(2) \o <<"WIN_IMAGE_PREFERENCE">> = First(3)
      /\ First(3) \o <<"CHN">> = First(4) /\ First(4) \o <<"IMAGE_PREFERENCE">> = First(5)
      /\ First(5) \o <<"DEV">> = First(6) /\ First(6) \o <<"VB">> = First(7)
  <2> DEFINE cat(k, n) == First(k) \o <<n>>
  <2>1. \A k \in 0..6 : cat(k, Nth[k + 1]) = First(k + 1)
    BY FirstAndNext
  <2>2. First(1) = <<"ENC">>
    BY Numbering DEF First
  <2> HIDE DEF cat, First
  <2>3. /\ cat(1, Nth[2]) = First(2) /\ cat(2, Nth[3]) = First(3) /\ cat(3, Nth[4]) = First(4)
        /\ cat(4, Nth[5]) = First(5) /\ cat(5, Nth[6]) = First(6) /\ cat(6, Nth[7]) = First(7)
    <3> HIDE DEF Nth
    <3> QED BY <2>1
  <2>4. /\ cat(1, "IVA") = First(2) /\ cat(2, "WIN_IMAGE_PREFERENCE") = First(3)
        /\ cat(3, "CHN") = First(4) /\ cat(4, "IMAGE_PREFERENCE") = First(5)
        /\ cat(5, "DEV") = First(6) /\ cat(6, "VB") = First(7)
    BY <2>3, Numbering
  <2> QED BY <2>2, <2>4, Zenon DEF cat
<1>9. Join(<<"ENC">>, <<"IVA">>, <<"WIN_IMAGE_PREFERENCE">>) \o <<"CHN">> = First(4)
  <2> HIDE DEF First
  <2>1. Join(<<"ENC">>, <<"IVA">>, <<"WIN_IMAGE_PREFERENCE">>) = First(3)
    BY <1>0, Zenon DEF Join
  <2> QED BY <1>0, <2>1, Zenon
<1>1. h = E(h)
  <2>1. /\ h["ENC"] = <<"ENC">> /\ h["IVA"] = <<"IVA">> /\ h["WIN_IMAGE_PREFERENCE"] = <<"WIN_IMAGE_PREFERENCE">>
        /\ h["IMAGE_PREFERENCE"] = <<"IMAGE_PREFERENCE">>
        /\ h["CHN"] = First(4) /\ h["DEV"] = First(6) /\ h["VB"] = First(7) /\ DOMAIN h = Nodes
    BY DEF Nodes
  <2>3. h = [n \in Nodes |-> h[n]]
    OBVIOUS
  <2> HIDE DEF h
  <2>2. ASSUME NEW n \in Nodes PROVE h[n] = AfterChildren(h, n)
    BY <1>0, <1>9, <2>1, OrderBelow DEF Nodes
  <2> QED BY <2>2, <2>3
<1>2. f = E(f)
  <2> HIDE DEF E, h
  <2> QED BY <1>1
<1>3. LeaveOrder = [n \in Nodes |-> f[n]]
  BY DEF LeaveOrder, AfterChildren
<1> HIDE DEF f
<1>4. \A n \in Nodes : f[n] = AfterChildren(f, n)
  BY <1>2
<1>5. f["ENC"] = <<"ENC">> /\ f["IVA"] = <<"IVA">> /\ f["WIN_IMAGE_PREFERENCE"] = <<"WIN_IMAGE_PREFERENCE">>
      /\ f["IMAGE_PREFERENCE"] = <<"IMAGE_PREFERENCE">>
  BY <1>4, OrderBelow DEF Nodes
<1>6. f["CHN"] = First(4)
  BY <1>4, <1>5, <1>9, OrderBelow DEF Nodes
<1>7. f["DEV"] = First(6)
  BY <1>0, <1>4, <1>5, <1>6, OrderBelow DEF Nodes
<1>8. f["VB"] = First(7)
  BY <1>0, <1>4, <1>7, OrderBelow DEF Nodes
<1> QED BY <1>0, <1>3, <1>5, <1>6, <1>7, <1>8 DEF Nodes
-----------------------------------------------------------------------------
(* Lists of calls. *)

\* A call whose failure ends a command, and one whose failure does not.
RootCall(do, n)  == Call(do, n, TRUE)
PlainCall(do, n) == Call(do, n, FALSE)

\* What is left of list s when k calls are made.
Rest(s, k) == [i \in 1..(Len(s) - k) |-> s[k + i]]

\* Call i of a restart of node r, and the restart: the nodes below it are stopped.
RestartCall(r, i) ==
    IF i = r + 1 THEN RootCall("start", Nth[r])
    ELSE IF i = r THEN RootCall("stop", Nth[r])
    ELSE PlainCall("stop", Nth[i])

Restart(r) == [i \in 1..(r + 1) |-> RestartCall(r, i)]

\* The traversal of CORE_exit.
LeaveAll == [i \in 1..7 |-> PlainCall("stop", Nth[i])]

\* The nodes to go on from when k of them are left to init or to start.
NodesAt(k) ==
    IF k = 0 THEN <<>>
    ELSE << <<"ENC">>, <<"IVA", "ENC">>, <<"WIN_IMAGE_PREFERENCE", "IVA", "ENC">>, <<"CHN">>,
            <<"IMAGE_PREFERENCE", "CHN">>, <<"DEV">>, <<"VB">> >>[k]

\* The fields of a call.
LEMMA CallIs ==
    ASSUME NEW do, NEW n
    PROVE  /\ RootCall(do, n).do = do /\ RootCall(do, n).node = n /\ RootCall(do, n).root
           /\ PlainCall(do, n).do = do /\ PlainCall(do, n).node = n /\ ~PlainCall(do, n).root
           /\ do \in {"init", "start", "stop", "set"} /\ n \in Nodes
              => RootCall(do, n) \in CallsType /\ PlainCall(do, n) \in CallsType
BY DEF Call, RootCall, PlainCall, CallsType

\* A function on 1..n is a sequence.
LEMMA SeqFrom ==
    ASSUME NEW S, NEW n \in Nat, NEW s \in [1..n -> S]
    PROVE  s \in Seq(S) /\ Len(s) = n /\ DOMAIN s = 1..n
OBVIOUS

\* Sequences of the same elements are the same.
LEMMA SameElements ==
    ASSUME NEW S, NEW s \in Seq(S), NEW T, NEW t \in Seq(T), Len(s) = Len(t),
           \A i \in 1..Len(s) : s[i] = t[i]
    PROVE  s = t
<1>1. s = [i \in 1..Len(s) |-> s[i]] /\ t = [i \in 1..Len(t) |-> t[i]]
  BY LenProperties
<1> QED BY <1>1

\* The calls of a list of nodes.
LEMMA CallsOfTyped ==
    ASSUME NEW do \in {"init", "start", "stop", "set"}, NEW ns \in Seq(Nodes)
    PROVE  /\ CallsOf(do, ns) \in Seq(CallsType) /\ Len(CallsOf(do, ns)) = Len(ns)
           /\ \A i \in 1..Len(ns) : CallsOf(do, ns)[i] = PlainCall(do, ns[i])
<1>1. Len(ns) \in Nat /\ \A i \in 1..Len(ns) : ns[i] \in Nodes
  BY LenProperties, ElementOfSeq
<1>2. \A i \in 1..Len(ns) : PlainCall(do, ns[i]) \in CallsType
  BY <1>1, CallIs
<1>3. CallsOf(do, ns) \in [1..Len(ns) -> CallsType]
  BY <1>2 DEF CallsOf, PlainCall
<1>4. CallsOf(do, ns) \in Seq(CallsType) /\ Len(CallsOf(do, ns)) = Len(ns)
  BY <1>1, <1>3, SeqFrom
<1> QED BY <1>4 DEF CallsOf, PlainCall

\* The first call of a list, and what is left of it.
LEMMA TailOf ==
    ASSUME NEW S, NEW s \in Seq(S), Len(s) > 0
    PROVE  /\ s # <<>> /\ Head(s) = s[1] /\ Head(s) \in S /\ Tail(s) \in Seq(S)
           /\ Len(Tail(s)) = Len(s) - 1
           /\ \A i \in 1..(Len(s) - 1) : Tail(s)[i] = s[i + 1]
<1>1. s # <<>>
  BY EmptySeq
<1> QED BY <1>1, HeadTailProperties, LenProperties, ElementOfSeq

\* Making the calls of a list one by one.
LEMMA RestSteps ==
    ASSUME NEW S, NEW s \in Seq(S), NEW k \in 0..Len(s)
    PROVE  /\ Rest(s, k) \in Seq(S) /\ (Rest(s, k) = <<>> <=> k = Len(s))
           /\ k < Len(s) => Head(Rest(s, k)) = s[k + 1] /\ Tail(Rest(s, k)) = Rest(s, k + 1)
           /\ Rest(s, 0) = s
<1>1. Len(s) \in Nat /\ \A i \in 1..Len(s) : s[i] \in S
  BY LenProperties, ElementOfSeq
<1>2. ASSUME NEW j \in 0..Len(s)
      PROVE  /\ Rest(s, j) \in Seq(S) /\ Len(Rest(s, j)) = Len(s) - j
             /\ \A i \in 1..(Len(s) - j) : Rest(s, j)[i] = s[j + i]
  <2>1. \A i \in 1..(Len(s) - j) : s[j + i] \in S
    BY <1>1
  <2>2. Rest(s, j) \in [1..(Len(s) - j) -> S]
    BY <2>1 DEF Rest
  <2>3. Rest(s, j) \in Seq(S) /\ Len(Rest(s, j)) = Len(s) - j
    <3>1. Len(s) - j \in Nat
      BY <1>1
    <3> QED BY <2>2, <3>1, SeqFrom
  <2> QED BY <2>3 DEF Rest
<1>3. Rest(s, k) = <<>> <=> k = Len(s)
  BY <1>1, <1>2, EmptySeq
<1>4. ASSUME k < Len(s)
      PROVE  Head(Rest(s, k)) = s[k + 1] /\ Tail(Rest(s, k)) = Rest(s, k + 1)
  <2>1. Rest(s, k) \in Seq(S) /\ Len(Rest(s, k)) > 0 /\ Len(Rest(s, k)) = Len(s) - k
    BY <1>1, <1>2, <1>4
  <2>2. /\ Head(Rest(s, k)) = Rest(s, k)[1] /\ Tail(Rest(s, k)) \in Seq(S)
        /\ Len(Tail(Rest(s, k))) = Len(s) - (k + 1)
        /\ \A i \in 1..(Len(s) - (k + 1)) : Tail(Rest(s, k))[i] = Rest(s, k)[i + 1]
    BY <1>1, <2>1, TailOf
  <2>3. k + 1 \in 0..Len(s)
    BY <1>1, <1>4
  <2>4. Rest(s, k + 1) \in Seq(S) /\ Len(Rest(s, k + 1)) = Len(s) - (k + 1)
    BY <1>2, <2>3
  <2>5. ASSUME NEW i \in 1..(Len(s) - (k + 1)) PROVE Tail(Rest(s, k))[i] = Rest(s, k + 1)[i]
    <3>1. Tail(Rest(s, k))[i] = s[k + (i + 1)]
      BY <1>1, <1>2, <2>2
    <3>2. Rest(s, k + 1)[i] = s[(k + 1) + i]
      BY <1>2, <2>3
    <3>3. k + (i + 1) = (k + 1) + i
      OBVIOUS
    <3> QED BY <3>1, <3>2, <3>3
  <2>6. Tail(Rest(s, k)) = Rest(s, k + 1)
    BY <2>2, <2>4, <2>5, SameElements
  <2>7. Rest(s, k)[1] = s[k + 1]
    BY <1>1, <1>2, <1>4
  <2> QED BY <2>2, <2>6, <2>7
<1>5. Rest(s, 0) = s
  <2>1. Rest(s, 0) \in Seq(S) /\ Len(Rest(s, 0)) = Len(s)
        /\ \A i \in 1..Len(s) : Rest(s, 0)[i] = s[i]
    BY <1>1, <1>2
  <2> QED BY <2>1, SameElements
<1> QED BY <1>2, <1>3, <1>4, <1>5

\* The calls of a restart, and of the traversal of CORE_exit.
LEMMA RestartTyped ==
    ASSUME NEW r \in 1..7
    PROVE  /\ Restart(r) \in Seq(CallsType) /\ Len(Restart(r)) = r + 1
           /\ \A i \in 1..(r + 1) : Restart(r)[i] = RestartCall(r, i)
<1>1. ASSUME NEW i \in 1..(r + 1) PROVE RestartCall(r, i) \in CallsType
  <2>1. Nth[r] \in Nodes /\ (i # r + 1 => Nth[i] \in Nodes)
    BY Numbering
  <2> QED BY <2>1, CallIs DEF RestartCall
<1>2. Restart(r) \in [1..(r + 1) -> CallsType]
  BY <1>1 DEF Restart
<1>3. r + 1 \in Nat
  OBVIOUS
<1> QED BY <1>2, <1>3, SeqFrom DEF Restart

\* The calls of CORE_exit's traversal, one by one.
LEMMA LeaveAllTyped ==
    /\ LeaveAll \in Seq(CallsType) /\ Len(LeaveAll) = 7
    /\ \A i \in 1..7 : LeaveAll[i] = PlainCall("stop", Nth[i])
<1>1. LeaveAll \in [1..7 -> CallsType]
  BY Numbering, CallIs DEF LeaveAll
<1>2. LeaveAll \in Seq(CallsType) /\ Len(LeaveAll) = 7
  BY <1>1, SeqFrom
<1> QED BY <1>2 DEF LeaveAll

\* Nothing before or after a list.
LEMMA JoinNothing ==
    ASSUME NEW S, NEW s \in Seq(S)
    PROVE  <<>> \o s = s /\ s \o <<>> = s
BY ConcatEmptySeq

\* A node's calls and its children's.
LEMMA ChildTyped ==
    \A n \in Nodes : Child[n] \in Seq(Nodes)
<1>1. /\ <<>> \in Seq(Nodes) /\ <<"DEV">> \in Seq(Nodes)
      /\ <<"IMAGE_PREFERENCE", "CHN">> \in Seq(Nodes)
      /\ <<"WIN_IMAGE_PREFERENCE", "IVA", "ENC">> \in Seq(Nodes)
  BY DEF Nodes
<1>2. \A n \in Nodes : n \in {"VB", "DEV", "IMAGE_PREFERENCE", "CHN",
                              "WIN_IMAGE_PREFERENCE", "IVA", "ENC"}
  BY DEF Nodes
<1> QED BY <1>1, <1>2, ChildOf

\* Where init and start go on: with the children, and then with the rest of the list.
LEMMA NodesAtSteps ==
    ASSUME NEW k \in 1..7
    PROVE  /\ NodesAt(k) \in Seq(Nodes) /\ NodesAt(k - 1) \in Seq(Nodes)
           /\ Len(NodesAt(k)) > 0 /\ NodesAt(k)[1] = Nth[k]
           /\ \/ Child[Nth[k]] = <<>> /\ Tail(NodesAt(k)) = NodesAt(k - 1)
              \/ Child[Nth[k]] = NodesAt(k - 1) /\ Tail(NodesAt(k)) = <<>>
<1>0. /\ NodesAt(0) = <<>> /\ NodesAt(1) = <<"ENC">> /\ NodesAt(2) = <<"IVA", "ENC">>
      /\ NodesAt(3) = <<"WIN_IMAGE_PREFERENCE", "IVA", "ENC">> /\ NodesAt(4) = <<"CHN">>
      /\ NodesAt(5) = <<"IMAGE_PREFERENCE", "CHN">> /\ NodesAt(6) = <<"DEV">>
      /\ NodesAt(7) = <<"VB">>
  BY DEF NodesAt
<1>1. /\ <<>> \in Seq(Nodes) /\ <<"ENC">> \in Seq(Nodes) /\ <<"IVA", "ENC">> \in Seq(Nodes)
      /\ <<"WIN_IMAGE_PREFERENCE", "IVA", "ENC">> \in Seq(Nodes) /\ <<"CHN">> \in Seq(Nodes)
      /\ <<"IMAGE_PREFERENCE", "CHN">> \in Seq(Nodes) /\ <<"DEV">> \in Seq(Nodes)
      /\ <<"VB">> \in Seq(Nodes)
  BY DEF Nodes
<1>2. /\ NodesAt(k) \in Seq(Nodes) /\ NodesAt(k - 1) \in Seq(Nodes)
  <2>1. \A j \in 0..7 : NodesAt(j) \in Seq(Nodes)
    <3> TAKE j \in 0..7
    <3>1. j = 0 \/ j = 1 \/ j = 2 \/ j = 3 \/ j = 4 \/ j = 5 \/ j = 6 \/ j = 7
      OBVIOUS
    <3> QED BY <1>0, <1>1, <3>1
  <2> QED BY <2>1
<1>3. Len(NodesAt(k)) > 0 /\ NodesAt(k)[1] = Nth[k]
  <2>1. k = 1 \/ k = 2 \/ k = 3 \/ k = 4 \/ k = 5 \/ k = 6 \/ k = 7
    OBVIOUS
  <2> QED BY <1>0, <2>1, Numbering
<1>4. \/ Child[Nth[k]] = <<>> /\ Tail(NodesAt(k)) = NodesAt(k - 1)
      \/ Child[Nth[k]] = NodesAt(k - 1) /\ Tail(NodesAt(k)) = <<>>
  <2>1. /\ Tail(<<"ENC">>) = <<>> /\ Tail(<<"IVA", "ENC">>) = <<"ENC">>
        /\ Tail(<<"WIN_IMAGE_PREFERENCE", "IVA", "ENC">>) = <<"IVA", "ENC">>
        /\ Tail(<<"CHN">>) = <<>> /\ Tail(<<"IMAGE_PREFERENCE", "CHN">>) = <<"CHN">>
        /\ Tail(<<"DEV">>) = <<>> /\ Tail(<<"VB">>) = <<>>
    OBVIOUS
  <2>2. /\ Tail(NodesAt(1)) = NodesAt(0) /\ Tail(NodesAt(2)) = NodesAt(1)
        /\ Tail(NodesAt(3)) = NodesAt(2) /\ Tail(NodesAt(4)) = <<>>
        /\ Tail(NodesAt(5)) = NodesAt(4) /\ Tail(NodesAt(6)) = <<>> /\ Tail(NodesAt(7)) = <<>>
    BY <1>0, <2>1, Zenon
  <2>3. /\ Child[Nth[1]] = <<>> /\ Child[Nth[2]] = <<>> /\ Child[Nth[3]] = <<>>
        /\ Child[Nth[4]] = NodesAt(3) /\ Child[Nth[5]] = <<>>
        /\ Child[Nth[6]] = NodesAt(5) /\ Child[Nth[7]] = NodesAt(6)
    BY <1>0, Numbering, ChildOf, Zenon
  <2>4. \/ (k = 1 /\ k - 1 = 0) \/ (k = 2 /\ k - 1 = 1) \/ (k = 3 /\ k - 1 = 2)
        \/ (k = 4 /\ k - 1 = 3) \/ (k = 5 /\ k - 1 = 4) \/ (k = 6 /\ k - 1 = 5)
        \/ (k = 7 /\ k - 1 = 6)
    OBVIOUS
  <2> QED BY <2>2, <2>3, <2>4, Zenon
<1> QED BY <1>2, <1>3, <1>4

\* Where a traversal's list of inits or starts goes on: one node less is left.
LEMMA CallsAtSteps ==
    ASSUME NEW k \in 1..7, NEW do \in {"init", "start"}
    PROVE  /\ CallsOf(do, NodesAt(k)) \in Seq(CallsType) /\ CallsOf(do, NodesAt(k)) # <<>>
           /\ Head(CallsOf(do, NodesAt(k))) = PlainCall(do, Nth[k])
           /\ CallsOf(do, Child[Nth[k]]) \o Tail(CallsOf(do, NodesAt(k)))
              = CallsOf(do, NodesAt(k - 1))
           /\ Child[Nth[k]] = <<>>
              => Tail(CallsOf(do, NodesAt(k))) = CallsOf(do, NodesAt(k - 1))
<1> DEFINE ns == NodesAt(k)
           s == CallsOf(do, ns)
<1>1. ns \in Seq(Nodes) /\ Len(ns) > 0 /\ ns[1] = Nth[k] /\ NodesAt(k - 1) \in Seq(Nodes)
  BY NodesAtSteps
<1>2. s \in Seq(CallsType) /\ Len(s) = Len(ns)
      /\ \A i \in 1..Len(ns) : s[i] = PlainCall(do, ns[i])
  BY <1>1, CallsOfTyped
<1>3. s # <<>> /\ Head(s) = s[1] /\ Tail(s) \in Seq(CallsType) /\ Len(Tail(s)) = Len(s) - 1
      /\ \A i \in 1..(Len(s) - 1) : Tail(s)[i] = s[i + 1]
  <2> HIDE DEF s, ns
  <2> QED BY <1>1, <1>2, TailOf
<1>4. Head(s) = PlainCall(do, Nth[k])
  <2> HIDE DEF s, ns
  <2>1. Len(ns) \in Nat
    BY <1>1, LenProperties
  <2> QED BY <1>1, <1>2, <1>3, <2>1
<1>5. Tail(s) = CallsOf(do, Tail(ns))
  <2> HIDE DEF s, ns
  <2>1. /\ Tail(ns) \in Seq(Nodes) /\ Len(Tail(ns)) = Len(ns) - 1
        /\ \A i \in 1..(Len(ns) - 1) : Tail(ns)[i] = ns[i + 1]
    BY <1>1, TailOf
  <2> DEFINE ts == Tail(ns)
  <2>5. /\ CallsOf(do, ts) \in Seq(CallsType) /\ Len(CallsOf(do, ts)) = Len(ns) - 1
        /\ \A i \in 1..(Len(ns) - 1) : CallsOf(do, ts)[i] = PlainCall(do, ts[i])
    <3>1. ts \in Seq(Nodes) /\ Len(ts) = Len(ns) - 1
      BY <2>1
    <3> HIDE DEF ts
    <3>2. /\ CallsOf(do, ts) \in Seq(CallsType) /\ Len(CallsOf(do, ts)) = Len(ts)
          /\ \A i \in 1..Len(ts) : CallsOf(do, ts)[i] = PlainCall(do, ts[i])
      BY <3>1, CallsOfTyped
    <3> QED BY <3>1, <3>2
  <2>2. /\ CallsOf(do, Tail(ns)) \in Seq(CallsType) /\ Len(CallsOf(do, Tail(ns))) = Len(ns) - 1
        /\ \A i \in 1..(Len(ns) - 1) : CallsOf(do, Tail(ns))[i] = PlainCall(do, ns[i + 1])
    BY <2>1, <2>5
  <2>3. Len(ns) \in Nat
    BY <1>1, LenProperties
  <2>4. \A i \in 1..(Len(ns) - 1) : Tail(s)[i] = CallsOf(do, Tail(ns))[i]
    BY <1>2, <1>3, <2>2, <2>3
  <2> QED BY <1>2, <1>3, <2>2, <2>4, SameElements
<1>6. CallsOf(do, <<>>) = <<>> /\ CallsOf(do, NodesAt(k - 1)) \in Seq(CallsType)
  <2>1. CallsOf(do, <<>>) = <<>>
    BY DEF CallsOf
  <2> QED BY <1>1, <2>1, CallsOfTyped
<1>7. CallsOf(do, Child[Nth[k]]) \o Tail(s) = CallsOf(do, NodesAt(k - 1))
      /\ (Child[Nth[k]] = <<>> => Tail(s) = CallsOf(do, NodesAt(k - 1)))
  <2>1. CASE Child[Nth[k]] = <<>> /\ Tail(ns) = NodesAt(k - 1)
    BY <1>5, <1>6, <2>1, JoinNothing
  <2>2. CASE Child[Nth[k]] = NodesAt(k - 1) /\ Tail(ns) = <<>>
    BY <1>5, <1>6, <2>2, JoinNothing
  <2> QED BY <2>1, <2>2, NodesAtSteps
<1> QED BY <1>2, <1>3, <1>4, <1>7

\* The first nodes to be stopped, as a list.
LEMMA FirstTyped ==
    ASSUME NEW k \in 0..7
    PROVE  /\ First(k) \in Seq(Nodes) /\ Len(First(k)) = k
           /\ \A i \in 1..k : First(k)[i] = Nth[i]
<1>1. First(k) \in [1..k -> Nodes] /\ k \in Nat
  BY Numbering DEF First
<1>2. First(k) \in Seq(Nodes) /\ Len(First(k)) = k
  BY <1>1, SeqFrom
<1> QED BY <1>2 DEF First

\* NODES_execRestart of one of the three nodes that are ever restarted.
LEMMA RestartCalls ==
    ASSUME NEW r \in {1, 4, 7}
    PROVE  execRestart(Nth[r]) = Restart(r)
<1>0. r \in 1..7 /\ r \in 0..7 /\ r - 1 \in 0..7
  OBVIOUS
<1>1. LeaveOrder[Nth[r]] = First(r)
  BY LeaveOrderIs, Numbering
<1>2. Front(First(r)) = First(r - 1)
  <2>1. First(r) \in Seq(Nodes) /\ Len(First(r)) = r /\ \A i \in 1..r : First(r)[i] = Nth[i]
    BY <1>0, FirstTyped
  <2>3. First(r - 1) \in Seq(Nodes) /\ Len(First(r - 1)) = r - 1
        /\ \A i \in 1..(r - 1) : First(r - 1)[i] = Nth[i]
    BY <1>0, FirstTyped
  <2>4. Front(First(r)) = [i \in 1..(r - 1) |-> First(r)[i]]
    BY <2>1 DEF Front
  <2>5. \A i \in 1..(r - 1) : First(r)[i] = First(r - 1)[i]
    BY <2>1, <2>3
  <2>6. First(r - 1) = [i \in 1..(r - 1) |-> First(r - 1)[i]]
    BY <2>3, LenProperties
  <2> QED BY <2>4, <2>5, <2>6
<1> DEFINE s == CallsOf("stop", First(r - 1))
           t == <<RootCall("stop", Nth[r]), RootCall("start", Nth[r])>>
<1>3. s \in Seq(CallsType) /\ Len(s) = r - 1
      /\ \A i \in 1..(r - 1) : s[i] = PlainCall("stop", Nth[i])
  <2>1. /\ First(r - 1) \in Seq(Nodes) /\ Len(First(r - 1)) = r - 1
        /\ \A i \in 1..(r - 1) : First(r - 1)[i] = Nth[i]
    BY <1>0, FirstTyped
  <2> HIDE DEF First
  <2> QED BY <2>1, CallsOfTyped
<1>4. t \in Seq(CallsType) /\ Len(t) = 2 /\ t[1] = RootCall("stop", Nth[r])
      /\ t[2] = RootCall("start", Nth[r])
  <2>1. Nth[r] \in Nodes
    BY Numbering
  <2>2. RootCall("stop", Nth[r]) \in CallsType /\ RootCall("start", Nth[r]) \in CallsType
    BY <2>1, CallIs
  <2> QED BY <2>2
<1>5. execRestart(Nth[r]) = s \o t
  BY <1>1, <1>2 DEF execRestart, RootCall
<1> HIDE DEF s, t
<1>6. s \o t \in Seq(CallsType) /\ Len(s \o t) = r + 1
      /\ \A i \in 1..(r + 1) : (s \o t)[i] = IF i <= r - 1 THEN s[i] ELSE t[i - (r - 1)]
  <2>1. /\ s \o t \in Seq(CallsType) /\ Len(s \o t) = Len(s) + Len(t)
        /\ \A i \in 1..(Len(s) + Len(t)) : (s \o t)[i] = IF i <= Len(s) THEN s[i] ELSE t[i - Len(s)]
    BY <1>3, <1>4, ConcatProperties
  <2>2. Len(s) + Len(t) = r + 1 /\ Len(s) = r - 1
    BY <1>0, <1>3, <1>4
  <2> QED BY <2>1, <2>2
<1>7. ASSUME NEW i \in 1..(r + 1) PROVE (s \o t)[i] = Restart(r)[i]
  <2>1. Restart(r)[i] = RestartCall(r, i)
    BY <1>0, RestartTyped
  <2>6. (s \o t)[i] = IF i <= r - 1 THEN s[i] ELSE t[i - (r - 1)]
    BY <1>6
  <2>2. CASE i = r + 1
    <3>1. i - (r - 1) = 2 /\ ~(i <= r - 1)
      BY <1>0, <2>2
    <3>2. RestartCall(r, i) = RootCall("start", Nth[r])
      BY <2>2 DEF RestartCall
    <3> QED BY <1>4, <2>1, <2>6, <3>1, <3>2
  <2>3. CASE i = r
    <3>1. i - (r - 1) = 1 /\ ~(i <= r - 1) /\ i # r + 1
      BY <1>0, <2>3
    <3>2. RestartCall(r, i) = RootCall("stop", Nth[r])
      BY <2>3, <3>1 DEF RestartCall
    <3> QED BY <1>4, <2>1, <2>6, <3>1, <3>2
  <2>4. CASE i \in 1..(r - 1)
    <3>1. i <= r - 1 /\ i # r /\ i # r + 1
      BY <1>0, <2>4
    <3>2. RestartCall(r, i) = PlainCall("stop", Nth[i])
      BY <3>1 DEF RestartCall
    <3> QED BY <1>3, <2>1, <2>4, <2>6, <3>1, <3>2
  <2>5. i = r + 1 \/ i = r \/ i \in 1..(r - 1)
    BY <1>0
  <2> QED BY <2>2, <2>3, <2>4, <2>5, Zenon
<1>8. s \o t = Restart(r)
  <2>1. Restart(r) \in Seq(CallsType) /\ Len(Restart(r)) = r + 1
    BY <1>0, RestartTyped
  <2> DEFINE u == s \o t
  <2>2. u \in Seq(CallsType) /\ Len(u) = r + 1 /\ \A i \in 1..(r + 1) : u[i] = Restart(r)[i]
    BY <1>6, <1>7
  <2> HIDE DEF u
  <2>3. u = Restart(r)
    BY <2>1, <2>2, SameElements
  <2> QED BY <2>3 DEF u
<1> QED BY <1>5, <1>8, Zenon

\* The traversal of CORE_exit.
LEMMA LeaveCalls ==
    CallsOf("stop", LeaveOrder["VB"]) = LeaveAll
<1>1. /\ First(7) \in Seq(Nodes) /\ Len(First(7)) = 7
      /\ \A i \in 1..7 : First(7)[i] = Nth[i]
  BY FirstTyped
<1>2. /\ CallsOf("stop", First(7)) \in Seq(CallsType) /\ Len(CallsOf("stop", First(7))) = 7
      /\ \A i \in 1..7 : CallsOf("stop", First(7))[i] = PlainCall("stop", Nth[i])
  BY <1>1, CallsOfTyped
<1>3. \A i \in 1..7 : CallsOf("stop", First(7))[i] = LeaveAll[i]
  BY <1>2, LeaveAllTyped
<1>4. CallsOf("stop", First(7)) = LeaveAll
  BY <1>2, <1>3, LeaveAllTyped, SameElements
<1> QED BY <1>4, LeaveOrderIs, Zenon

-----------------------------------------------------------------------------
(* The inductive invariant. *)

\* Nodes are started from the last of Nth to the first and stopped from the first to
\* the last: all that a traversal has to do with states is where it is.
Level(k) ==
    \A i \in 1..7 : st[Nth[i]] = IF isSkipCase(Nth[i]) THEN "none"
                                 ELSE IF i <= k THEN "down" ELSE "up"

\* k nodes are left to init.
Inited(k) ==
    \A i \in 1..7 : st[Nth[i]] = IF isSkipCase(Nth[i]) \/ i <= k THEN "none" ELSE "down"

\* The fields that a running node is to follow, and the one a set of it is made for.
Follows == [n \in Nodes |-> Uses[n] \ Missed[n]]
SetFor == [CHN |-> <<"strm", "fps">>, IVA |-> <<"od", "od">>, ENC |-> <<"strm", "rate">>]

\* Nodes after the r-th work with g_conf, but for the fields in stale.
Fresh(r, stale) ==
    \A i \in 1..7 : i > r /\ st[Nth[i]] = "up"
        => \A u \in Follows[Nth[i]] \ stale : has[Nth[i]][u] = conf[u[1]][u[2]]

\* No record of a channel outlives the node of the channels.
NoChannel(k) == k >= 4 => exist = {}

\* What is known of the program's state.
StateInv ==
    /\ TypeOK
    /\ has = [n \in Nodes |-> has[n]]
    /\ mtodo \in Seq(CallsType) /\ ctodo \in Seq(CallsType)
    /\ main \in {"init", "start"} => cc = "none"
    /\ main \in {"ready", "exited"} => mtodo = <<>>
    /\ main = "exited" => cc \in {"none", "ended"}
    /\ cc # "apply" => ctodo = <<>>
    /\ cc = "apply" => cmd.kind \in Kinds /\ tmp \in Held[cmd.kind]
    /\ cc \notin {"apply", "reply"} => cmd = Idle
    /\ overlap => main \in {"leave", "exited"}

\* A set is ahead of the rest of a command.
SetThen(n, rest) ==
    ctodo # <<>> /\ Head(ctodo) = RootCall("set", n) /\ Tail(ctodo) = rest

\* All calls of s start nodes that are stopped before the r-th.
StartsBelow(s, r) ==
    \A i \in DOMAIN s : \E j \in 1..7 : j < r /\ s[i] = PlainCall("start", Nth[j])

\* A restart of node r is still to be made, to its start; or r runs with g_conf, and
\* nodes under it are left to start.
Restarting(r) ==
    \/ \E k \in 0..r : ctodo = Rest(Restart(r), k)
    \/ r = 1 /\ SetThen("CHN", Restart(1))
    \/ /\ StartsBelow(ctodo, r)
       /\ main = "ready" => st[Nth[r]] = "up" /\ has[Nth[r]] = View(Nth[r])

\* A command that restarts a node restarts one of ENC, CHN and VB.
RootInv ==
    cc = "apply" /\ cmd.roots # {}
    => \E r \in {1, 4, 7} : cmd.roots = {Nth[r]} /\ Restarting(r)

\* Nothing that the properties exclude has happened.
Undisturbed == faults = 0 /\ ~clash /\ ~overlap

\* The boot: init and start go through the nodes in the order of Nth.
BootInv ==
    Undisturbed =>
        /\ main = "init" => \E k \in 0..7 :
              mtodo = CallsOf("init", NodesAt(k)) /\ Inited(k) /\ exist = {}
        /\ main = "start" => \E k \in 0..7 :
              mtodo = CallsOf("start", NodesAt(k)) /\ Level(k) /\ Fresh(0, {}) /\ NoChannel(k)

\* The calls left of a command, for each level the nodes can be at, and the nodes
\* that do not yet work with the g_conf it has set.
CommandAt(k) ==
    \/ ctodo = CallsOf("start", NodesAt(k)) /\ Fresh(0, {})
    \/ \E r \in {1, 4, 7} : k <= r /\ ctodo = Rest(Restart(r), k) /\ Fresh(r, {})
    \/ k = 0 /\ \E n \in {"CHN", "IVA", "ENC"} : SetThen(n, <<>>) /\ Fresh(0, {SetFor[n]})
    \/ k = 0 /\ SetThen("CHN", <<RootCall("set", "ENC")>>)
             /\ Fresh(0, {SetFor["CHN"], SetFor["ENC"]})
    \/ k = 0 /\ SetThen("CHN", Restart(1)) /\ Fresh(1, {SetFor["CHN"]})

\* From the boot to the end, where nothing is skipped that others stand on.
WorkInv ==
    Undisturbed /\ "no_video" \notin flags =>
        /\ main = "ready" \/ (main = "leave" /\ cc = "apply")
           => \E k \in 0..7 : CommandAt(k) /\ Level(k) /\ NoChannel(k)
        /\ main = "leave" /\ cc = "apply" => mtodo = LeaveAll
        /\ main = "leave" /\ cc # "apply"
           => \E k \in 0..7 : mtodo = Rest(LeaveAll, k) /\ Level(k) /\ NoChannel(k)
        /\ main = "exited" => Level(7)

\* Without video control every restart ends at its root, before anything starts.
NoStart ==
    \/ ctodo = <<>>
    \/ \E r \in {1, 4, 7} : \E k \in 0..(r - 1) : ctodo = Rest(Restart(r), k)
    \/ \E n \in {"CHN", "IVA", "ENC"} : SetThen(n, <<>>)
    \/ SetThen("CHN", <<RootCall("set", "ENC")>>)
    \/ SetThen("CHN", Restart(1))

\* From the boot to the end without video control.
NoVideoInv ==
    Undisturbed /\ "no_video" \in flags =>
        /\ main \in {"ready", "leave"} => NoStart
        /\ main \in {"ready", "leave", "exited"} => \A n \in Nodes : st[n] # "half"
        /\ main = "leave" => \E k \in 0..7 : mtodo = Rest(LeaveAll, k)
                                             /\ \A i \in 1..k : st[Nth[i]] # "up"
        /\ main = "exited" => \A n \in Nodes : st[n] # "up"

\* What is left of a command that stops no node: sets of skipped nodes, and perhaps a
\* restart of ENC, after which the record that is recovered says the same to the others.
Harmless ==
    \/ ctodo = <<>>
    \/ \E n \in {"CHN", "ENC"} : SetThen(n, <<>>)
    \/ SetThen("CHN", <<RootCall("set", "ENC")>>)
    \/ /\ ctodo = Restart(1) \/ SetThen("CHN", Restart(1))
       /\ \A i \in 2..3 : \A u \in Follows[Nth[i]] :
             u[1] = cmd.kind => tmp[u[2]] = conf[u[1]][u[2]]

\* A restart of CHN or VB is on its way to where it ends; or all that is not skipped
\* runs, with g_conf unless its set is still to come.
Spared ==
    \/ \E r \in {4, 7} : \E k \in 0..(r - 1) : ctodo = Rest(Restart(r), k)
    \/ SetThen("IVA", <<>>) /\ Level(0) /\ Fresh(0, {SetFor["IVA"]})
    \/ Harmless /\ Level(0) /\ Fresh(0, {})

\* Without video control, what is not skipped runs with g_conf until a restart of CHN or
\* VB stops it.
SparedInv ==
    Undisturbed /\ "no_video" \in flags /\ ~dropped /\ main = "ready" => Spared

\* A skipped node is never touched, and what a running one works with is a function.
NodeInv ==
    \A n \in Nodes : /\ isSkipCase(n) => st[n] = "none"
                     /\ st[n] = "up" => has[n] = [u \in Uses[n] |-> has[n][u]]

\* The inductive invariant.
NodesInv ==
    /\ StateInv /\ RootInv /\ AcceptedRuns /\ NodeInv
    /\ BootInv /\ WorkInv /\ NoVideoInv /\ SparedInv

-----------------------------------------------------------------------------
(* One call. *)

\* What g_conf counts is a count a host may ask for.
LEMMA CountTyped ==
    ASSUME conf \in [strm : Held.strm, layout : Held.layout, od : Held.od]
    PROVE  conf.strm.cnt \in Counts /\ conf.strm.cnt \in Nat \ {0}
<1>1. Held.strm = [cnt : Counts, res : Junk, fps : Junk, codec : Junk, rate : Junk,
                     unseen : Junk]
  BY DEF Held
<1>2. conf.strm \in Held.strm
  OBVIOUS
<1>3. conf.strm.cnt \in Counts
  BY <1>1, <1>2
<1> QED BY <1>3, NodesAssumption

\* The driver's channels, and the daemon's record of them, stay within the counts.
LEMMA DriverTyped ==
    ASSUME TypeOK, NEW c \in CallsType, NEW a \in {"ok", "fail", "skip"}, Driver(c, a)
    PROVE  \A s \in {chans', exist'} : \A i \in s : \E k \in Counts : i < k
<1> DEFINE Within(s) == \A i \in s : \E k \in Counts : i < k
<1>1. Within(chans) /\ Within(exist)
  BY DEF TypeOK
<1>2. conf.strm.cnt \in Counts /\ conf.strm.cnt \in Nat \ {0}
  BY CountTyped DEF TypeOK
<1>3. \A k \in 0..conf.strm.cnt : \A i \in 0..(k - 1) : i < conf.strm.cnt
  BY <1>2
<1>4. Within(Wanted) /\ \A k \in 0..conf.strm.cnt : Within(0..(k - 1))
  BY <1>2, <1>3 DEF Wanted
<1>5. \A k \in 0..conf.strm.cnt : k < conf.strm.cnt => Within(0..k)
  BY <1>2
<1>6. \A s, t : Within(s) /\ Within(t) => Within(s \cup t)
  OBVIOUS
<1>7. \A s, t : Within(s) => Within(s \ t)
  OBVIOUS
<1>8. Within({})
  OBVIOUS
<1> HIDE DEF Within
<1>9. CASE StartChn(a)
  <2>1. CASE a = "ok"
    <3>1. Within(exist') /\ Within(chans')
      BY <1>1, <1>4, <1>6, <1>9, <2>1 DEF StartChn
    <3> QED BY <3>1 DEF Within
  <2>2. CASE a # "ok"
    <3>1. PICK k \in 0..conf.strm.cnt :
            /\ exist' = 0..(k - 1)
            /\ \/ chans' = chans \cup (0..(k - 1))
               \/ k < conf.strm.cnt /\ chans' = chans \cup (0..k)
      BY <1>9, <2>2 DEF StartChn
    <3>2. Within(exist') /\ Within(chans')
      BY <1>1, <1>4, <1>5, <1>6, <3>1
    <3> QED BY <3>2 DEF Within
  <2>3. Within(exist') /\ Within(chans') => \A s \in {chans', exist'} : Within(s)
    OBVIOUS
  <2> QED BY <2>1, <2>2, <2>3 DEF Within
<1>10. CASE StopChn(a)
  <2>1. Within(exist') /\ Within(chans')
    BY <1>1, <1>7, <1>8, <1>10 DEF StopChn
  <2> QED BY <2>1 DEF Within
<1>11. CASE chans' = {} /\ exist' = exist
  BY <1>1, <1>8, <1>11 DEF Within
<1>12. CASE chans' = chans /\ exist' = exist
  BY <1>1, <1>12 DEF Within
<1> QED BY <1>9, <1>10, <1>11, <1>12 DEF Driver

\* The state of a node after a call.
LEMMA StateTyped ==
    ASSUME NEW c \in CallsType, NEW a, st[c.node] \in {"none", "down", "half", "up"}
    PROVE  StateAfter(c, a) \in {"none", "down", "half", "up"}
BY DEF StateAfter

\* What a node works with has the fields it uses, and it is nothing unless it runs.
LEMMA HasTyped ==
    ASSUME NEW c \in CallsType, NEW a \in {"ok", "fail", "skip"}, NEW h \in HasAfter(c, a),
           IF st[c.node] = "up" THEN DOMAIN has[c.node] = Uses[c.node] ELSE has[c.node] = <<>>
    PROVE  IF StateAfter(c, a) = "up" THEN DOMAIN h = Uses[c.node] ELSE h = <<>>
<1>1. CASE a = "ok" /\ c.do = "start"
  <2>1. h = View(c.node) /\ StateAfter(c, a) = "up"
    <3>1. HasAfter(c, a) = {View(c.node)}
      BY <1>1 DEF HasAfter
    <3>2. StateAfter(c, a) = "up"
      BY <1>1 DEF StateAfter
    <3> QED BY <3>1, <3>2
  <2> QED BY <2>1 DEF View
<1>2. CASE ~(a = "ok" /\ c.do = "start") /\ c.do = "set" /\ a # "skip" /\ st[c.node] = "up"
  <2> DEFINE set == [u \in Uses[c.node] |->
                       IF u \in SetFields[c.node] THEN View(c.node)[u] ELSE has[c.node][u]]
  <2>1. h = set \/ h = has[c.node]
    BY <1>2 DEF HasAfter
  <2>2. DOMAIN set = Uses[c.node]
    OBVIOUS
  <2>3. StateAfter(c, a) = "up"
    BY <1>2 DEF StateAfter
  <2> QED BY <1>2, <2>1, <2>2, <2>3
<1>3. CASE ~(a = "ok" /\ c.do = "start")
           /\ ~(c.do = "set" /\ a # "skip" /\ st[c.node] = "up")
  <2>1. CASE StateAfter(c, a) = "up"
    <3>1. h = has[c.node]
      BY <1>3, <2>1 DEF HasAfter
    <3>2. st[c.node] = "up"
      BY <1>3, <2>1 DEF StateAfter
    <3> QED BY <2>1, <3>1, <3>2
  <2>2. CASE StateAfter(c, a) # "up"
    <3>1. h = <<>>
      BY <1>3, <2>2 DEF HasAfter
    <3> QED BY <2>2, <3>1
  <2> QED BY <2>1, <2>2
<1> QED BY <1>1, <1>2, <1>3

\* A call leaves the nodes, the driver and the counter of failures well typed.
LEMMA CallTyped ==
    ASSUME TypeOK, has = [n \in Nodes |-> has[n]],
           NEW c \in CallsType, NEW a \in {"ok", "fail", "skip"}, CallNode(c, a)
    PROVE  /\ st' \in [Nodes -> {"none", "down", "half", "up"}]
           /\ has' = [n \in Nodes |-> has'[n]]
           /\ \A n \in Nodes : IF st'[n] = "up" THEN DOMAIN has'[n] = Uses[n] ELSE has'[n] = <<>>
           /\ \A s \in {chans', exist'} : \A i \in s : \E k \in Counts : i < k
           /\ faults' \in Nat /\ cmds + faults' <= MaxEvents /\ clash' \in BOOLEAN
           /\ faults' >= faults
<1>1. c.node \in Nodes
  BY DEF CallsType
<1>2. st' = [st EXCEPT ![c.node] = StateAfter(c, a)] /\ st \in [Nodes -> {"none", "down", "half", "up"}]
  BY DEF CallNode, TypeOK
<1>3. st' \in [Nodes -> {"none", "down", "half", "up"}]
  BY <1>1, <1>2, StateTyped
<1>4. PICK h \in HasAfter(c, a) : has' = [has EXCEPT ![c.node] = h]
  BY DEF CallNode
<1>5. \A n \in Nodes : IF st'[n] = "up" THEN DOMAIN has'[n] = Uses[n] ELSE has'[n] = <<>>
  <2> TAKE n \in Nodes
  <2>1. IF st[n] = "up" THEN DOMAIN has[n] = Uses[n] ELSE has[n] = <<>>
    BY DEF TypeOK
  <2>2. CASE n = c.node
    <3>1. st'[n] = StateAfter(c, a) /\ has'[n] = h
      BY <1>1, <1>2, <1>4, <2>2
    <3>2. IF StateAfter(c, a) = "up" THEN DOMAIN h = Uses[n] ELSE h = <<>>
      BY <2>1, <2>2, HasTyped
    <3> QED BY <3>1, <3>2
  <2>3. CASE n # c.node
    <3>1. st'[n] = st[n] /\ has'[n] = has[n]
      BY <1>1, <1>2, <1>4, <2>3
    <3> QED BY <2>1, <3>1
  <2> QED BY <2>2, <2>3
<1>9. has' = [n \in Nodes |-> has'[n]]
  BY <1>4
<1>6. faults' \in Nat /\ cmds + faults' <= MaxEvents /\ faults' >= faults
  <2>1. cmds \in Nat /\ faults \in Nat /\ cmds + faults <= MaxEvents /\ MaxEvents \in Nat
    BY NodesAssumption DEF TypeOK
  <2>2. a = "fail" /\ InPlace(c) => cmds + faults < MaxEvents
    BY DEF CallNode, Answers
  <2>3. faults' = IF a = "fail" /\ InPlace(c) THEN faults + 1 ELSE faults
    BY DEF CallNode
  <2> QED BY <2>1, <2>2, <2>3
<1>7. clash' \in BOOLEAN
  <2>1. clash \in BOOLEAN /\ clash' = (clash \/ (a # "skip" /\ MeetsLeftover(c)))
    BY DEF CallNode, TypeOK
  <2> HIDE DEF MeetsLeftover
  <2> QED BY <2>1
<1>8. Driver(c, a)
  BY DEF CallNode
<1> QED BY <1>3, <1>5, <1>6, <1>7, <1>8, <1>9, DriverTyped

-----------------------------------------------------------------------------
(* A command. *)

\* The nodes a list of calls is to start.
RootsOf(calls) == {c.node : c \in {d \in Range(calls) : d.do = "start"}}

\* The fields that nodes follow: those of the streams only the four that are first to be
\* stopped, and those that can be set by one call only the node they are set on.
LEMMA FollowsCases ==
    ASSUME NEW i \in 1..7, NEW u \in Follows[Nth[i]]
    PROVE  /\ i <= 4
           /\ \/ u = <<"strm", "cnt">> \/ u = <<"strm", "res">>
              \/ u = <<"layout", "win0">> \/ u = <<"layout", "wins">>
              \/ i = 4 /\ u = <<"strm", "fps">>
              \/ i = 1 /\ (u = <<"strm", "codec">> \/ u = <<"strm", "rate">>)
              \/ i = 2 /\ (u = <<"od", "version">> \/ u = <<"od", "od">>)
<1>1. /\ Uses["ENC"] = {<<"strm", "cnt">>, <<"strm", "res">>, <<"strm", "fps">>, <<"strm", "codec">>,
                        <<"strm", "rate">>, <<"strm", "unseen">>, <<"layout", "wins">>}
      /\ Uses["IVA"] = {<<"strm", "res">>, <<"strm", "fps">>, <<"layout", "win0">>,
                        <<"layout", "wins">>, <<"od", "version">>, <<"od", "od">>}
      /\ Uses["WIN_IMAGE_PREFERENCE"] = {<<"strm", "cnt">>, <<"strm", "res">>, <<"layout", "wins">>}
      /\ Uses["CHN"] = {<<"strm", "cnt">>, <<"strm", "res">>, <<"strm", "fps">>,
                        <<"strm", "unseen">>, <<"layout", "win0">>, <<"layout", "wins">>}
      /\ Uses["IMAGE_PREFERENCE"] = {} /\ Uses["DEV"] = {} /\ Uses["VB"] = {}
  BY DEF Uses, Nodes
<1>2. /\ Missed["ENC"] = {<<"strm", "unseen">>, <<"strm", "fps">>}
      /\ Missed["IVA"] = {<<"strm", "fps">>} /\ Missed["CHN"] = {<<"strm", "unseen">>}
  BY DEF Missed, Nodes
<1>3. \A n \in Nodes : Follows[n] = Uses[n] \ Missed[n]
  BY DEF Follows
<1>4. i = 1 \/ i = 2 \/ i = 3 \/ i = 4 \/ i = 5 \/ i = 6 \/ i = 7
  OBVIOUS
<1>5. CASE i = 1
  <2>1. u \in Uses["ENC"] /\ u \notin Missed["ENC"]
    BY <1>3, <1>5, Numbering DEF Nodes
  <2> QED BY <1>1, <1>2, <1>5, <2>1
<1>6. CASE i = 2
  <2>1. u \in Uses["IVA"] /\ u \notin Missed["IVA"]
    BY <1>3, <1>6, Numbering DEF Nodes
  <2> QED BY <1>1, <1>2, <1>6, <2>1
<1>7. CASE i = 3
  <2>1. u \in Uses["WIN_IMAGE_PREFERENCE"]
    BY <1>3, <1>7, Numbering DEF Nodes
  <2> QED BY <1>1, <1>7, <2>1
<1>8. CASE i = 4
  <2>1. u \in Uses["CHN"] /\ u \notin Missed["CHN"]
    BY <1>3, <1>8, Numbering DEF Nodes
  <2> QED BY <1>1, <1>2, <1>8, <2>1
<1>9. CASE i \in 5..7
  BY <1>1, <1>3, <1>9, Numbering DEF Nodes
<1> QED BY <1>4, <1>5, <1>6, <1>7, <1>8, <1>9

\* The field a set is made for is among those it hands over.
LEMMA SetForIs ==
    /\ SetFor["CHN"] = <<"strm", "fps">> /\ SetFor["ENC"] = <<"strm", "rate">>
    /\ SetFor["IVA"] = <<"od", "od">>
    /\ \A n \in {"CHN", "IVA", "ENC"} : SetFor[n] \in SetFields[n]
BY DEF SetFor, SetFields

\* A restart starts the node it is of.
LEMMA RestartRoots ==
    ASSUME NEW r \in {1, 4, 7}
    PROVE  RootsOf(Restart(r)) = {Nth[r]}
<1>0. r \in 1..7
  OBVIOUS
<1>1. DOMAIN Restart(r) = 1..(r + 1) /\ \A i \in 1..(r + 1) : Restart(r)[i] = RestartCall(r, i)
  BY DEF Restart
<1>2. \A i \in 1..(r + 1) : RestartCall(r, i).do = "start" <=> i = r + 1
  BY <1>0, CallIs DEF RestartCall
<1>3. RestartCall(r, r + 1).node = Nth[r]
  BY <1>0, CallIs DEF RestartCall
<1>4. {d \in Range(Restart(r)) : d.do = "start"} = {RestartCall(r, r + 1)}
  BY <1>0, <1>1, <1>2 DEF Range
<1> QED BY <1>3, <1>4 DEF RootsOf

\* A list of sets starts nothing.
LEMMA SetRoots ==
    ASSUME NEW n, NEW m
    PROVE  /\ RootsOf(<<>>) = {} /\ RootsOf(<<RootCall("set", n)>>) = {}
           /\ RootsOf(<<RootCall("set", n), RootCall("set", m)>>) = {}
<1>1. RootCall("set", n).do = "set" /\ RootCall("set", m).do = "set"
  BY CallIs
<1>2. Range(<<>>) = {} /\ Range(<<RootCall("set", n)>>) = {RootCall("set", n)}
  BY DEF Range
<1>3. Range(<<RootCall("set", n), RootCall("set", m)>>) = {RootCall("set", n), RootCall("set", m)}
  BY DEF Range
<1> QED BY <1>1, <1>2, <1>3 DEF RootsOf

\* A set ahead of a list.
LEMMA SetAhead ==
    ASSUME NEW n \in Nodes, NEW s \in Seq(CallsType)
    PROVE  LET t == <<RootCall("set", n)>> \o s
           IN  /\ t \in Seq(CallsType) /\ t # <<>> /\ Head(t) = RootCall("set", n) /\ Tail(t) = s
               /\ RootsOf(t) = RootsOf(s)
<1> DEFINE c == RootCall("set", n)
           t == <<c>> \o s
<1>1. c \in CallsType /\ c.do = "set"
  BY CallIs
<1> HIDE DEF c
<1>2. <<c>> \in Seq(CallsType) /\ Len(<<c>>) = 1 /\ <<c>>[1] = c
  BY <1>1
<1>3. Len(s) \in Nat
  BY LenProperties
<1>4. /\ t \in Seq(CallsType) /\ Len(t) = Len(s) + 1
      /\ \A i \in 1..(Len(s) + 1) : t[i] = IF i <= 1 THEN c ELSE s[i - 1]
  <2>1. /\ t \in Seq(CallsType) /\ Len(t) = Len(<<c>>) + Len(s)
        /\ \A i \in 1..(Len(<<c>>) + Len(s)) : t[i] = IF i <= Len(<<c>>) THEN <<c>>[i] ELSE s[i - Len(<<c>>)]
    BY <1>2, ConcatProperties
  <2> HIDE DEF t
  <2> QED BY <1>2, <1>3, <2>1
<1> HIDE DEF t
<1>5. t # <<>> /\ Head(t) = c /\ Tail(t) \in Seq(CallsType) /\ Len(Tail(t)) = Len(s)
      /\ \A i \in 1..Len(s) : Tail(t)[i] = s[i]
  <2>1. Len(t) > 0
    BY <1>3, <1>4
  <2>2. /\ t # <<>> /\ Head(t) = t[1] /\ Tail(t) \in Seq(CallsType) /\ Len(Tail(t)) = Len(t) - 1
        /\ \A i \in 1..(Len(t) - 1) : Tail(t)[i] = t[i + 1]
    BY <1>4, <2>1, TailOf
  <2>3. Len(t) - 1 = Len(s) /\ t[1] = c
    BY <1>3, <1>4
  <2>4. \A i \in 1..Len(s) : t[i + 1] = s[i]
    BY <1>3, <1>4
  <2> QED BY <2>2, <2>3, <2>4
<1>6. Tail(t) = s
  BY <1>5, SameElements
<1>7. RootsOf(t) = RootsOf(s)
  <2>1. Range(t) = {c} \cup Range(s)
    <3>1. DOMAIN t = 1..(Len(s) + 1) /\ DOMAIN s = 1..Len(s)
      BY <1>3, <1>4, LenProperties
    <3>2. \A x \in Range(t) : x \in {c} \cup Range(s)
      BY <1>3, <1>4, <3>1 DEF Range
    <3>3. \A i \in 1..Len(s) : s[i] = t[i + 1] /\ i + 1 \in 1..(Len(s) + 1)
      BY <1>3, <1>4
    <3>4. c = t[1] /\ 1 \in 1..(Len(s) + 1)
      BY <1>3, <1>4
    <3>5. \A x \in {c} \cup Range(s) : x \in Range(t)
      BY <3>1, <3>3, <3>4 DEF Range
    <3> QED BY <3>2, <3>5
  <2>2. {d \in Range(t) : d.do = "start"} = {d \in Range(s) : d.do = "start"}
    BY <1>1, <2>1
  <2> QED BY <2>2 DEF RootsOf
<1>8. t \in Seq(CallsType) /\ t # <<>> /\ Head(t) = c /\ Tail(t) = s /\ RootsOf(t) = RootsOf(s)
  BY <1>4, <1>5, <1>6, <1>7
<1> QED BY <1>8 DEF t, c

\* The fields of its record that a command changes, but for those no handler compares.
Changed(kind, old, new) ==
    {u \in {kind} \X (DOMAIN new \ {"unseen"}) : old[u[2]] # new[u[2]]}

\* The calls a command leads to, and the fields it can have changed if it leads to few.
Planned(calls, changed) ==
    \/ calls = <<>> /\ changed = {}
    \/ calls = Restart(7)
    \/ calls = Restart(4)
    \/ calls = Restart(1) /\ changed \subseteq {<<"strm", "codec">>, <<"strm", "rate">>}
    \/ \E n \in {"CHN", "IVA", "ENC"} : calls = <<RootCall("set", n)>> /\ changed \subseteq {SetFor[n]}
    \/ calls = <<RootCall("set", "CHN"), RootCall("set", "ENC")>>
       /\ changed \subseteq {SetFor["CHN"], SetFor["ENC"]}
    \/ calls = <<RootCall("set", "CHN")>> \o Restart(1)
       /\ changed \subseteq {SetFor["CHN"], <<"strm", "codec">>, <<"strm", "rate">>}

\* One call, and then another.
LEMMA TwoCalls ==
    ASSUME NEW a, NEW b
    PROVE  <<a>> \o <<b>> = <<a, b>>
<1> DEFINE S == {a, b}
           s == <<a>>
           t == <<b>>
           u == <<a, b>>
<1>1. /\ s \in Seq(S) /\ t \in Seq(S) /\ u \in Seq(S) /\ Len(s) = 1 /\ Len(t) = 1 /\ Len(u) = 2
      /\ s[1] = a /\ t[1] = b /\ u[1] = a /\ u[2] = b
  OBVIOUS
<1> HIDE DEF S, s, t, u
<1>2. /\ s \o t \in Seq(S) /\ Len(s \o t) = 2
      /\ \A i \in 1..2 : (s \o t)[i] = IF i <= 1 THEN s[i] ELSE t[i - 1]
  BY <1>1, ConcatProperties
<1>3. \A i \in 1..2 : (s \o t)[i] = u[i]
  BY <1>1, <1>2
<1> DEFINE v == s \o t
<1>4. v \in Seq(S) /\ Len(v) = 2 /\ \A i \in 1..2 : v[i] = u[i]
  BY <1>2, <1>3
<1> HIDE DEF v
<1>5. v = u
  BY <1>1, <1>4, SameElements
<1> QED BY <1>5 DEF v, s, t, u

\* Fields that are not looked at are those that another change makes up for.
LEMMA StrmPlanned ==
    ASSUME NEW old \in Held.strm, NEW new \in Asked.strm
    PROVE  Planned(StrmCalls(old, new), Changed("strm", old, new))
<1> DEFINE changed == Changed("strm", old, new)
           ChnSet == RootCall("set", "CHN")
           EncSet == RootCall("set", "ENC")
<1>1. DOMAIN new \ {"unseen"} = {"cnt", "res", "fps", "codec", "rate"}
  BY DEF Asked
<1>2. execRestart("CHN") = Restart(4) /\ execRestart("ENC") = Restart(1)
  <2>1. Nth[4] = "CHN" /\ Nth[1] = "ENC"
    BY Numbering
  <2>2. execRestart(Nth[4]) = Restart(4) /\ execRestart(Nth[1]) = Restart(1)
    BY RestartCalls
  <2> QED BY <2>1, <2>2
<1>3. Restart(1) \in Seq(CallsType)
  BY RestartTyped
<1>4. <<EncSet>> \in Seq(CallsType) /\ <<ChnSet>> \in Seq(CallsType)
  <2>1. ChnSet \in CallsType /\ EncSet \in CallsType
    BY CallIs DEF Nodes
  <2> HIDE DEF ChnSet, EncSet
  <2> QED BY <2>1
<1>5. SetFor["CHN"] = <<"strm", "fps">> /\ SetFor["ENC"] = <<"strm", "rate">>
  BY SetForIs
<1>6. CASE old.cnt # new.cnt \/ old.res # new.res
  BY <1>2, <1>6 DEF StrmCalls, Planned
<1>7. ASSUME ~(old.cnt # new.cnt \/ old.res # new.res)
      PROVE  Planned(StrmCalls(old, new), changed)
  <2>1. \A u \in changed : \/ u = <<"strm", "fps">> /\ old.fps # new.fps
                           \/ u = <<"strm", "codec">> /\ old.codec # new.codec
                           \/ u = <<"strm", "rate">> /\ old.rate # new.rate
    BY <1>1, <1>7 DEF Changed
  <2> HIDE DEF changed
  <2> DEFINE first == IF old.fps # new.fps THEN <<ChnSet>> ELSE <<>>
             next == IF old.codec # new.codec THEN Restart(1)
                     ELSE IF old.rate # new.rate THEN <<EncSet>> ELSE <<>>
  <2>2. StrmCalls(old, new) = first \o next
    BY <1>2, <1>7 DEF StrmCalls, RootCall
  <2>3. next \in Seq(CallsType)
    BY <1>3, <1>4
  <2>4. CASE old.fps = new.fps
    <3>1. first \o next = next
      <4>1. first = <<>>
        BY <2>4
      <4> HIDE DEF next, first
      <4> QED BY <2>3, <4>1, JoinNothing
    <3>2. CASE old.codec # new.codec
      BY <2>1, <2>2, <2>4, <3>1, <3>2 DEF Planned
    <3>3. CASE old.codec = new.codec /\ old.rate # new.rate
      <4>1. changed \subseteq {SetFor["ENC"]}
        BY <1>5, <2>1, <2>4, <3>3
      <4>2. StrmCalls(old, new) = <<EncSet>>
        BY <2>2, <3>1, <3>3
      <4> QED BY <4>1, <4>2 DEF Planned
    <3>4. CASE old.codec = new.codec /\ old.rate = new.rate
      <4>1. changed = {}
        BY <2>1, <2>4, <3>4
      <4>2. StrmCalls(old, new) = <<>>
        BY <2>2, <3>1, <3>4
      <4> QED BY <4>1, <4>2 DEF Planned
    <3> QED BY <3>2, <3>3, <3>4
  <2>5. CASE old.fps # new.fps
    <3>1. first = <<ChnSet>>
      BY <2>5
    <3>2. CASE old.codec # new.codec
      <4>1. StrmCalls(old, new) = <<ChnSet>> \o Restart(1)
        BY <2>2, <3>1, <3>2
      <4>2. changed \subseteq {SetFor["CHN"], <<"strm", "codec">>, <<"strm", "rate">>}
        BY <1>5, <2>1
      <4> QED BY <4>1, <4>2 DEF Planned
    <3>3. CASE old.codec = new.codec /\ old.rate # new.rate
      <4>1. <<ChnSet>> \o <<EncSet>> = <<ChnSet, EncSet>>
        BY TwoCalls
      <4>2. StrmCalls(old, new) = <<ChnSet, EncSet>>
        BY <2>2, <3>1, <3>3, <4>1
      <4>3. changed \subseteq {SetFor["CHN"], SetFor["ENC"]}
        BY <1>5, <2>1, <3>3
      <4> QED BY <4>2, <4>3 DEF Planned
    <3>4. CASE old.codec = new.codec /\ old.rate = new.rate
      <4>1. StrmCalls(old, new) = <<ChnSet>>
        <5>1. next = <<>>
          BY <3>4
        <5> HIDE DEF next, first
        <5> QED BY <1>4, <2>2, <3>1, <5>1, JoinNothing
      <4>2. changed \subseteq {SetFor["CHN"]}
        BY <1>5, <2>1, <3>4
      <4> QED BY <4>1, <4>2 DEF Planned
    <3> QED BY <3>2, <3>3, <3>4
  <2> QED BY <2>4, <2>5
<1> QED BY <1>6, <1>7

\* Every command leads to one of the planned lists of calls.
LEMMA CommandPlanned ==
    ASSUME NEW kind \in Kinds, NEW old \in Held[kind], NEW new \in Asked[kind]
    PROVE  Planned(CallsFor(kind, old, new), Changed(kind, old, new))
<1>1. kind = "strm" \/ kind = "layout" \/ kind = "od"
  BY DEF Kinds, Asked
<1>2. execRestart("CHN") = Restart(4) /\ execRestart("VB") = Restart(7)
  <2>1. Nth[4] = "CHN" /\ Nth[7] = "VB"
    BY Numbering
  <2>2. execRestart(Nth[4]) = Restart(4) /\ execRestart(Nth[7]) = Restart(7)
    BY RestartCalls
  <2> QED BY <2>1, <2>2
<1>3. CASE kind = "strm"
  <2>1. Held["strm"] = Held.strm /\ Asked["strm"] = Asked.strm
    OBVIOUS
  <2>2. CallsFor(kind, old, new) = StrmCalls(old, new)
    BY <1>3 DEF CallsFor
  <2> QED BY <1>3, <2>1, <2>2, StrmPlanned
<1>4. CASE kind = "layout"
  <2>1. CallsFor(kind, old, new) = LayoutCalls(old, new)
    BY <1>4 DEF CallsFor
  <2> QED BY <1>2, <2>1 DEF LayoutCalls, Planned
<1>5. CASE kind = "od"
  <2>1. CallsFor(kind, old, new) = OdCalls(old, new)
    BY <1>5 DEF CallsFor
  <2>2. CASE old.version # new.version
    BY <1>2, <2>1, <2>2 DEF OdCalls, Planned
  <2>3. CASE old.version = new.version
    <3>1. CallsFor(kind, old, new) = <<RootCall("set", "IVA")>>
      BY <2>1, <2>3 DEF OdCalls, RootCall
    <3>2. DOMAIN new \ {"unseen"} = {"version", "od"}
      BY <1>5 DEF Asked
    <3>3. Changed(kind, old, new) \subseteq {SetFor["IVA"]}
      BY <1>5, <2>3, <3>2, SetForIs DEF Changed
    <3> QED BY <3>1, <3>3 DEF Planned
  <2> QED BY <2>2, <2>3
<1> QED BY <1>1, <1>3, <1>4, <1>5

\* A command's calls, and the nodes it is to start.
LEMMA PlannedTyped ==
    ASSUME NEW calls, NEW changed, Planned(calls, changed)
    PROVE  /\ calls \in Seq(CallsType) /\ RootsOf(calls) \subseteq Nodes
           /\ \/ RootsOf(calls) = {}
              \/ \E r \in {1, 4, 7} : RootsOf(calls) = {Nth[r]} /\ calls = Restart(r)
              \/ /\ RootsOf(calls) = {Nth[1]} /\ calls # <<>>
                 /\ Head(calls) = RootCall("set", "CHN") /\ Tail(calls) = Restart(1)
<1>1. \A r \in {1, 4, 7} : Restart(r) \in Seq(CallsType) /\ RootsOf(Restart(r)) = {Nth[r]}
                          /\ Nth[r] \in Nodes
  <2> TAKE r \in {1, 4, 7}
  <2>1. r \in 1..7
    OBVIOUS
  <2> QED BY <2>1, RestartTyped, RestartRoots, Numbering
<1>2. CASE calls = <<>>
  <2>1. <<>> \in Seq(CallsType)
    OBVIOUS
  <2> QED BY <1>2, <2>1, SetRoots
<1>3. CASE \E r \in {1, 4, 7} : calls = Restart(r)
  BY <1>1, <1>3
<1>4. CASE \E n \in {"CHN", "IVA", "ENC"} : calls = <<RootCall("set", n)>>
  <2>1. PICK n \in {"CHN", "IVA", "ENC"} : calls = <<RootCall("set", n)>>
    BY <1>4
  <2>2. RootCall("set", n) \in CallsType
    BY CallIs DEF Nodes
  <2>3. calls \in Seq(CallsType)
    BY <2>1, <2>2
  <2> QED BY <2>1, <2>3, SetRoots
<1>5. CASE calls = <<RootCall("set", "CHN"), RootCall("set", "ENC")>>
  <2>2. RootCall("set", "CHN") \in CallsType /\ RootCall("set", "ENC") \in CallsType
    BY CallIs DEF Nodes
  <2>3. calls \in Seq(CallsType)
    BY <1>5, <2>2
  <2> QED BY <1>5, <2>3, SetRoots
<1>6. CASE calls = <<RootCall("set", "CHN")>> \o Restart(1)
  <2>1. "CHN" \in Nodes
    BY DEF Nodes
  <2>2. Restart(1) \in Seq(CallsType) /\ RootsOf(Restart(1)) = {Nth[1]} /\ Nth[1] \in Nodes
    BY <1>1
  <2> QED BY <1>6, <2>1, <2>2, SetAhead
<1> QED BY <1>2, <1>3, <1>4, <1>5, <1>6 DEF Planned

\* What the calls left become: all the lists are lists of calls.
LEMMA ListsTyped ==
    ASSUME NEW s \in Seq(CallsType), s # <<>>
    PROVE  /\ Head(s) \in CallsType /\ Tail(s) \in Seq(CallsType)
           /\ \A do \in {"init", "start", "stop", "set"} :
                 CallsOf(do, Child[Head(s).node]) \o Tail(s) \in Seq(CallsType)
           /\ <<>> \o Tail(s) = Tail(s)
<1>1. Len(s) > 0
  BY EmptySeq, LenProperties
<1>2. Head(s) \in CallsType /\ Tail(s) \in Seq(CallsType)
  BY <1>1, TailOf
<1>3. Child[Head(s).node] \in Seq(Nodes)
  BY <1>2, ChildTyped DEF CallsType
<1>4. \A do \in {"init", "start", "stop", "set"} : CallsOf(do, Child[Head(s).node]) \in Seq(CallsType)
  BY <1>3, CallsOfTyped
<1> QED BY <1>2, <1>4, JoinNothing, ConcatProperties

-----------------------------------------------------------------------------
(* StateInv is kept by every step. *)

\* What a list of calls in TypeOK says follows from its being a sequence of them.
LEMMA SeqElements ==
    ASSUME NEW s \in Seq(CallsType)
    PROVE  \A i \in DOMAIN s : s[i] \in CallsType
BY LenProperties, ElementOfSeq

\* A list of one call.
LEMMA OneCall ==
    ASSUME NEW c \in CallsType
    PROVE  <<c>> \in Seq(CallsType)
OBVIOUS

\* The types hold of the initial states.
LEMMA StateInitially ==
    ASSUME Init
    PROVE  StateInv
<1> USE DEF Init
<1>1. conf \in [strm : Held.strm, layout : Held.layout, od : Held.od]
  <2>1. PICK k \in Counts :
          conf = [strm   |-> [cnt |-> k, res |-> "a", fps |-> "a", codec |-> "a", rate |-> "a",
                             unseen |-> "a"],
                  layout |-> [win0 |-> "a", wins |-> "a"],
                  od     |-> [version |-> "a", od |-> "a"]]
    OBVIOUS
  <2> QED BY <2>1 DEF Held, Junk, Value
<1>2. mtodo \in Seq(CallsType) /\ ctodo \in Seq(CallsType)
  <2>1. PlainCall("init", "VB") \in CallsType /\ mtodo = <<PlainCall("init", "VB")>>
    BY CallIs DEF PlainCall, Nodes
  <2>2. <<>> \in Seq(CallsType) /\ ctodo = <<>>
    BY EmptySeq
  <2> QED BY ONLY <2>1, <2>2, OneCall
<1>3. cmd \in [kind : Kinds \cup {"none"}, roots : SUBSET Nodes]
  BY DEF Idle
<1>4. cmds \in Nat /\ faults \in Nat /\ cmds + faults <= MaxEvents
  <2>1. cmds = 0 /\ faults = 0 /\ MaxEvents \in Nat
    BY NodesAssumption
  <2> QED BY ONLY <2>1
<1>5. has = [n \in Nodes |-> has[n]] /\ st \in [Nodes -> {"none", "down", "half", "up"}]
  OBVIOUS
<1>6. \A n \in Nodes : IF st[n] = "up" THEN DOMAIN has[n] = Uses[n] ELSE has[n] = <<>>
  OBVIOUS
<1>7. \A s \in {chans, exist} : \A i \in s : \E k \in Counts : i < k
  OBVIOUS
<1>8. TypeOK
  BY <1>1, <1>2, <1>3, <1>4, <1>5, <1>6, <1>7, SeqElements DEF TypeOK
<1> QED BY <1>2, <1>5, <1>8 DEF StateInv

\* The steps of main() that call no node, and the signal.
LEMMA MainState ==
    ASSUME StateInv,
           StartNodes \/ CreateThread \/ CreateFails \/ LeaveNodes \/ JoinThread \/ Signal
    PROVE  StateInv'
<1>1. mtodo' \in Seq(CallsType)
  <2>1. PlainCall("start", "VB") \in CallsType
    BY CallIs DEF Nodes
  <2>2. <<PlainCall("start", "VB")>> \in Seq(CallsType)
    BY <2>1, OneCall
  <2>3. CallsOf("stop", LeaveOrder["VB"]) \in Seq(CallsType)
    BY LeaveCalls, LeaveAllTyped
  <2>4. mtodo \in Seq(CallsType)
    BY DEF StateInv
  <2>5. \/ mtodo' = <<PlainCall("start", "VB")>> \/ mtodo' = CallsOf("stop", LeaveOrder["VB"])
        \/ mtodo' = mtodo
    BY DEF StartNodes, CreateThread, CreateFails, LeaveNodes, JoinThread, Signal, mainVars,
           PlainCall
  <2> QED BY <2>2, <2>3, <2>4, <2>5
<1>2. /\ UNCHANGED <<flags, conf, tmp, st, has, chans, exist, clash, ctodo, cmd, ret, cmds, overlap, dropped>>
      /\ \/ cc' = cc
         \/ main = "start" /\ cc' = "connect" /\ main' = "ready"
  BY DEF StartNodes, CreateThread, CreateFails, LeaveNodes, JoinThread, Signal,
         confVars, nodeVars, mainVars, cmdVars
<1>6. /\ run \in BOOLEAN /\ main \in {"init", "start", "ready", "leave", "exited"}
      /\ (main = "start" => cc = "none")
      /\ faults \in Nat /\ cmds \in Nat /\ cmds + faults <= MaxEvents /\ MaxEvents \in Nat
  BY NodesAssumption DEF StateInv, TypeOK
<1>7. run' \in BOOLEAN /\ main' \in {"init", "start", "ready", "leave", "exited"}
  BY <1>6 DEF StartNodes, CreateThread, CreateFails, LeaveNodes, JoinThread, Signal, mainVars
<1>8. faults' \in Nat /\ cmds + faults' <= MaxEvents
  <2>1. faults' = faults \/ (faults' = faults + 1 /\ cmds + faults < MaxEvents)
    BY DEF StartNodes, CreateThread, CreateFails, LeaveNodes, JoinThread, Signal, nodeVars
  <2> QED BY <1>6, <2>1
<1>3. TypeOK'
  <2>1. \A i \in DOMAIN mtodo' : mtodo'[i] \in CallsType
    BY <1>1, SeqElements
  <2>2. (cc # "apply" /\ cc' = "connect") \/ cc' = cc
    BY <1>2, <1>6
  <2> QED BY <1>2, <1>7, <1>8, <2>1, <2>2 DEF StateInv, TypeOK
<1>4. /\ main' \in {"init", "start"} => cc' = "none"
      /\ main' \in {"ready", "exited"} => mtodo' = <<>>
      /\ main' = "exited" => cc' \in {"none", "ended"}
      /\ overlap' => main' \in {"leave", "exited"}
  BY <1>2 DEF StateInv, StartNodes, CreateThread, CreateFails, LeaveNodes, JoinThread, Signal,
              confVars, nodeVars, mainVars, cmdVars
<1>5. /\ cc' # "apply" => ctodo' = <<>>
      /\ cc' = "apply" => cmd'.kind \in Kinds /\ tmp' \in Held[cmd'.kind]
      /\ cc' \notin {"apply", "reply"} => cmd' = Idle
  BY <1>2, <1>6 DEF StateInv
<1> QED BY <1>1, <1>2, <1>3, <1>4, <1>5 DEF StateInv

\* The steps of the thread that neither take a command nor work on one.
LEMMA QuietState ==
    ASSUME StateInv,
           Connect \/ NoServer \/ Timeout \/ Registered \/ Hangup \/ ReceiveOther \/ Applied \/ Reply
    PROVE  StateInv'
<1> DEFINE stay == <<flags, run, conf, st, has, chans, exist, faults, clash, main, mtodo, overlap,
                    dropped>>
<1>1. /\ UNCHANGED stay /\ ctodo' = ctodo
      /\ cc' \in {"register", "ended", "select", "reply"}
      /\ (cc = "apply" => ctodo = <<>>) /\ cc \notin {"none", "ended"}
  BY DEF Connect, NoServer, Timeout, Registered, Hangup, ReceiveOther, Applied, Reply, Go, LoopTop,
         confVars, nodeVars, mainVars
<1>2. ctodo = <<>> /\ (cc # "apply" => tmp = <<>>)
  BY <1>1 DEF StateInv, TypeOK
<1>3. tmp' = <<>>
  BY <1>2 DEF Connect, NoServer, Timeout, Registered, Hangup, ReceiveOther, Applied, Reply, Go,
              confVars
<1>4. cmds' \in Nat /\ cmds' + faults <= MaxEvents
  <2>1. cmds \in Nat /\ faults \in Nat /\ cmds + faults <= MaxEvents /\ MaxEvents \in Nat
    BY NodesAssumption DEF StateInv, TypeOK
  <2>2. cmds' = cmds \/ (cmds' = cmds + 1 /\ cmds + faults < MaxEvents)
    BY DEF Connect, NoServer, Timeout, Registered, Hangup, ReceiveOther, Applied, Reply
  <2> QED BY <2>1, <2>2
<1>5. /\ cmd' \in {cmd, Idle} /\ ret' \in {"", "ok", "fail"}
      /\ (cc' \notin {"apply", "reply"} => cmd' = Idle)
  BY DEF StateInv, TypeOK, Connect, NoServer, Timeout, Registered, Hangup, ReceiveOther, Applied,
         Reply, Go
<1>6. cmd' \in [kind : Kinds \cup {"none"}, roots : SUBSET Nodes]
  <2>1. Idle \in [kind : Kinds \cup {"none"}, roots : SUBSET Nodes]
    BY DEF Idle
  <2>2. cmd \in [kind : Kinds \cup {"none"}, roots : SUBSET Nodes]
    BY DEF StateInv, TypeOK
  <2> QED BY <1>5, <2>1, <2>2
<1>7. TypeOK'
  <2> USE DEF stay
  <2>1. TypeOK
    BY DEF StateInv
  <2> QED BY <1>1, <1>2, <1>3, <1>4, <1>5, <1>6, <2>1 DEF TypeOK
<1>8. /\ main' \in {"init", "start"} => cc' = "none"
      /\ main' = "exited" => cc' \in {"none", "ended"}
  <2>1. /\ main \in {"init", "start"} => cc = "none"
        /\ main = "exited" => cc \in {"none", "ended"}
    BY DEF StateInv
  <2> QED BY <1>1, <2>1
<1> QED BY <1>1, <1>2, <1>5, <1>7, <1>8 DEF StateInv

\* A call of main()'s traversals.
LEMMA TraverseState ==
    ASSUME StateInv, Traverse
    PROVE  StateInv'
<1> DEFINE c == Head(mtodo)
<1>1. PICK a \in {"ok", "fail", "skip"} : CallNode(c, a) /\ mtodo' = AfterMain(a)
  BY DEF Traverse
<1>2. /\ mtodo # <<>>
      /\ UNCHANGED <<flags, run, conf, tmp, main, cc, ctodo, cmd, ret, cmds, dropped>>
      /\ overlap' = (overlap \/ cc = "apply")
  BY DEF Traverse, confVars, cmdVars
<1>3. TypeOK /\ has = [n \in Nodes |-> has[n]] /\ mtodo \in Seq(CallsType)
  BY DEF StateInv
<1>4. c \in CallsType /\ mtodo' \in Seq(CallsType)
  <2>1. /\ c \in CallsType /\ Tail(mtodo) \in Seq(CallsType) /\ <<>> \o Tail(mtodo) = Tail(mtodo)
        /\ \A do \in {"init", "start", "stop", "set"} :
              CallsOf(do, Child[c.node]) \o Tail(mtodo) \in Seq(CallsType)
    BY <1>2, <1>3, ListsTyped
  <2>2. c.do \in {"init", "start", "stop", "set"}
    BY <2>1 DEF CallsType
  <2>3. \/ mtodo' = CallsOf(c.do, Child[c.node]) \o Tail(mtodo)
        \/ mtodo' = <<>> \o Tail(mtodo)
    BY <1>1 DEF AfterMain
  <2> HIDE DEF c
  <2> QED BY <2>1, <2>2, <2>3
<1> HIDE DEF c
<1>5. /\ st' \in [Nodes -> {"none", "down", "half", "up"}]
      /\ has' = [n \in Nodes |-> has'[n]]
      /\ \A n \in Nodes : IF st'[n] = "up" THEN DOMAIN has'[n] = Uses[n] ELSE has'[n] = <<>>
      /\ \A s \in {chans', exist'} : \A i \in s : \E k \in Counts : i < k
      /\ faults' \in Nat /\ cmds + faults' <= MaxEvents /\ clash' \in BOOLEAN
  BY <1>1, <1>3, <1>4, CallTyped
<1>6. overlap' \in BOOLEAN /\ main \in {"init", "start", "leave"}
      /\ (overlap' => main \in {"leave", "exited"})
  <2>1. /\ overlap \in BOOLEAN /\ main \in {"init", "start", "ready", "leave", "exited"}
        /\ main \in {"init", "start"} => cc = "none"
        /\ main \in {"ready", "exited"} => mtodo = <<>>
        /\ overlap => main \in {"leave", "exited"}
    BY DEF StateInv, TypeOK
  <2> QED BY <1>2, <2>1
<1>7. TypeOK'
  <2>1. \A i \in DOMAIN mtodo' : mtodo'[i] \in CallsType
    BY <1>4, SeqElements
  <2> QED BY <1>2, <1>3, <1>5, <1>6, <2>1 DEF TypeOK
<1> QED BY <1>2, <1>4, <1>5, <1>6, <1>7 DEF StateInv

\* What the handlers put back has the type of g_conf.
LEMMA RecoverTyped ==
    ASSUME StateInv, cc = "apply", NEW c, Recover(c)
    PROVE  conf' \in [strm : Held.strm, layout : Held.layout, od : Held.od]
<1>1. /\ conf \in [strm : Held.strm, layout : Held.layout, od : Held.od]
      /\ cmd.kind \in Kinds /\ tmp \in Held[cmd.kind]
  BY DEF StateInv, TypeOK
<1>2. CASE cmd.kind = "strm"
  <2>1. conf' = [conf EXCEPT !.strm = tmp] /\ tmp \in Held.strm
    BY <1>1, <1>2 DEF Recover
  <2> QED BY <1>1, <2>1
<1>3. CASE cmd.kind = "layout" /\ c.node # "VB"
  <2>1. conf' = [conf EXCEPT !.layout = tmp] /\ tmp \in Held.layout
    BY <1>1, <1>3 DEF Recover
  <2> QED BY <1>1, <2>1
<1>4. CASE cmd.kind = "layout" /\ c.node = "VB"
  <2>1. PICK k \in Counts :
          conf' = [conf EXCEPT !.strm = [cnt |-> k, res |-> "other", fps |-> "other",
                                         codec |-> "other", rate |-> "other",
                                         unseen |-> "other"]]
    BY <1>4 DEF Recover
  <2>2. [cnt |-> k, res |-> "other", fps |-> "other", codec |-> "other", rate |-> "other",
         unseen |-> "other"] \in Held.strm
    BY DEF Held, Junk
  <2> QED BY <1>1, <2>1, <2>2
<1>5. CASE cmd.kind \notin {"strm", "layout"}
  BY <1>1, <1>5 DEF Recover
<1> QED BY <1>2, <1>3, <1>4, <1>5

\* A call of the command under way.
LEMMA WorkState ==
    ASSUME StateInv, Work
    PROVE  StateInv'
<1> DEFINE c == Head(ctodo)
<1>1. PICK a \in {"ok", "fail", "skip"} :
        /\ CallNode(c, a)
        /\ IF Fails(c, a)
           THEN /\ ctodo' = <<>> /\ cc' = "reply" /\ ret' = Result(c)
                /\ Recover(c) /\ tmp' = <<>>
           ELSE /\ ctodo' = AfterCall(a)
                /\ UNCHANGED <<cc, ret, conf, tmp>>
  BY DEF Work
<1>2. /\ cc = "apply" /\ ctodo # <<>> /\ UNCHANGED <<flags, run, main, mtodo, cmd, cmds>>
      /\ overlap' = (overlap \/ main = "leave")
  BY DEF Work, mainVars
<1>9. dropped' \in BOOLEAN
  <2>1. dropped \in BOOLEAN
    BY DEF StateInv, TypeOK
  <2> QED BY <2>1 DEF Work
<1>3. TypeOK /\ has = [n \in Nodes |-> has[n]] /\ ctodo \in Seq(CallsType) /\ mtodo \in Seq(CallsType)
  BY DEF StateInv
<1>4. c \in CallsType /\ ctodo' \in Seq(CallsType)
  <2>1. /\ c \in CallsType /\ Tail(ctodo) \in Seq(CallsType) /\ <<>> \o Tail(ctodo) = Tail(ctodo)
        /\ \A do \in {"init", "start", "stop", "set"} :
              CallsOf(do, Child[c.node]) \o Tail(ctodo) \in Seq(CallsType)
    BY <1>2, <1>3, ListsTyped
  <2>2. \/ ctodo' = <<>>
        \/ ctodo' = CallsOf("start", Child[c.node]) \o Tail(ctodo)
        \/ ctodo' = <<>> \o Tail(ctodo)
    BY <1>1 DEF AfterCall
  <2>3. <<>> \in Seq(CallsType)
    BY EmptySeq
  <2> HIDE DEF c
  <2> QED BY <2>1, <2>2, <2>3
<1> HIDE DEF c
<1>5. /\ st' \in [Nodes -> {"none", "down", "half", "up"}]
      /\ has' = [n \in Nodes |-> has'[n]]
      /\ \A n \in Nodes : IF st'[n] = "up" THEN DOMAIN has'[n] = Uses[n] ELSE has'[n] = <<>>
      /\ \A s \in {chans', exist'} : \A i \in s : \E k \in Counts : i < k
      /\ faults' \in Nat /\ cmds + faults' <= MaxEvents /\ clash' \in BOOLEAN
  BY <1>1, <1>3, <1>4, CallTyped
<1>6. /\ overlap' \in BOOLEAN /\ main \in {"ready", "leave"}
      /\ (overlap' => main \in {"leave", "exited"})
  <2>1. /\ overlap \in BOOLEAN /\ main \in {"init", "start", "ready", "leave", "exited"}
        /\ main \in {"init", "start"} => cc = "none"
        /\ main = "exited" => cc \in {"none", "ended"}
        /\ overlap => main \in {"leave", "exited"}
    BY DEF StateInv, TypeOK
  <2> QED BY <1>2, <2>1
<1>7. /\ conf' \in [strm : Held.strm, layout : Held.layout, od : Held.od]
      /\ \/ cc' = "reply" /\ tmp' = <<>> /\ ctodo' = <<>> /\ ret' \in {"ok", "fail"}
         \/ cc' = cc /\ tmp' = tmp /\ ret' = ret
  <2>1. conf \in [strm : Held.strm, layout : Held.layout, od : Held.od]
    BY <1>3 DEF TypeOK
  <2>2. CASE Fails(c, a)
    BY <1>1, <1>2, <2>2, RecoverTyped DEF Result
  <2>3. CASE ~Fails(c, a)
    BY <1>1, <2>1, <2>3
  <2> QED BY <2>2, <2>3
<1>8. TypeOK'
  <2>1. \A i \in DOMAIN ctodo' : ctodo'[i] \in CallsType
    BY <1>4, SeqElements
  <2> QED BY <1>2, <1>3, <1>5, <1>6, <1>7, <1>9, <2>1 DEF TypeOK
<1> QED BY <1>2, <1>3, <1>4, <1>5, <1>6, <1>7, <1>8 DEF StateInv

\* A command is taken: its record goes into g_conf, and its calls are made out.
LEMMA ReceiveState ==
    ASSUME StateInv, Receive
    PROVE  /\ StateInv'
           /\ \E kind \in Kinds : \E new \in Asked[kind] :
                 /\ conf' = [conf EXCEPT ![kind] = new] /\ conf[kind] \in Held[kind]
                 /\ Planned(ctodo', Changed(kind, conf[kind], new))
                 /\ cmd'.roots = RootsOf(ctodo') /\ cmd'.kind = kind /\ tmp' = conf[kind]
<1>0. PICK kind \in Kinds : \E new \in Asked[kind] :
        /\ tmp' = conf[kind] /\ conf' = [conf EXCEPT ![kind] = new]
        /\ ctodo' = CallsFor(kind, conf[kind], new)
        /\ cmd' = [kind |-> kind, roots |-> RootsOf(ctodo')]
  BY DEF Receive, RootsOf
<1>1. PICK new \in Asked[kind] :
        /\ tmp' = conf[kind] /\ conf' = [conf EXCEPT ![kind] = new]
        /\ ctodo' = CallsFor(kind, conf[kind], new)
        /\ cmd' = [kind |-> kind, roots |-> RootsOf(ctodo')]
  BY <1>0
<1>2. /\ cc = "select" /\ cc' = "apply" /\ cmds' = cmds + 1 /\ cmds + faults < MaxEvents
      /\ UNCHANGED <<flags, run, st, has, chans, exist, faults, clash, main, mtodo, ret, dropped>>
      /\ overlap' = (overlap \/ main = "leave")
  BY DEF Receive, nodeVars, mainVars
<1>3. TypeOK
  BY DEF StateInv
<1>4. kind = "strm" \/ kind = "layout" \/ kind = "od"
  BY DEF Kinds, Asked
<1>5. conf[kind] \in Held[kind] /\ new \in Held[kind]
  <2>1. conf \in [strm : Held.strm, layout : Held.layout, od : Held.od]
    BY <1>3 DEF TypeOK
  <2>2. conf[kind] \in Held[kind]
    BY <1>4, <2>1
  <2>3. new \in Held[kind]
    <3>1. new \in Asked[kind]
      OBVIOUS
    <3>2. Asked.strm \subseteq Held.strm /\ Asked.layout = Held.layout /\ Asked.od = Held.od
      BY DEF Asked, Held, Junk
    <3> QED BY <1>4, <3>1, <3>2
  <2> QED BY <2>2, <2>3
<1>6. Planned(ctodo', Changed(kind, conf[kind], new))
  BY <1>1, <1>5, CommandPlanned
<1>7. ctodo' \in Seq(CallsType) /\ RootsOf(ctodo') \subseteq Nodes
  BY <1>6, PlannedTyped
<1>8. conf' \in [strm : Held.strm, layout : Held.layout, od : Held.od]
  <2>1. conf \in [strm : Held.strm, layout : Held.layout, od : Held.od]
    BY <1>3 DEF TypeOK
  <2> QED BY <1>1, <1>4, <1>5, <2>1
<1>9. /\ cmd' \in [kind : Kinds \cup {"none"}, roots : SUBSET Nodes] /\ cmd'.kind = kind
      /\ cmd'.roots = RootsOf(ctodo')
  BY <1>1, <1>7
<1>10. cmds' \in Nat /\ cmds' + faults <= MaxEvents
  <2>1. cmds \in Nat /\ faults \in Nat /\ MaxEvents \in Nat
    BY <1>3, NodesAssumption DEF TypeOK
  <2> QED BY <1>2, <2>1
<1>11. overlap' \in BOOLEAN /\ (overlap' => main \in {"leave", "exited"})
       /\ main \notin {"init", "start", "exited"}
  <2>1. /\ overlap \in BOOLEAN /\ overlap => main \in {"leave", "exited"}
        /\ main \in {"init", "start"} => cc = "none"
        /\ main = "exited" => cc \in {"none", "ended"}
    BY DEF StateInv, TypeOK
  <2> QED BY <1>2, <2>1
<1>12. TypeOK'
  <2>1. \A i \in DOMAIN ctodo' : ctodo'[i] \in CallsType
    BY <1>7, SeqElements
  <2>2. tmp' \in Held[cmd'.kind]
    BY <1>1, <1>5, <1>9
  <2> QED BY <1>2, <1>3, <1>8, <1>9, <1>10, <1>11, <2>1, <2>2 DEF TypeOK
<1>13. StateInv'
  <2>1. mtodo \in Seq(CallsType) /\ has = [n \in Nodes |-> has[n]]
        /\ main \in {"ready", "exited"} => mtodo = <<>>
    BY DEF StateInv
  <2>2. tmp' \in Held[cmd'.kind] /\ cmd'.kind \in Kinds
    BY <1>1, <1>5, <1>9
  <2> QED BY <1>2, <1>7, <1>11, <1>12, <2>1, <2>2 DEF StateInv
<1> QED BY <1>1, <1>5, <1>6, <1>9, <1>13

\* The types, and where the two threads and their lists can be, hold in every state.
LEMMA StateStep ==
    ASSUME StateInv, [Next]_vars
    PROVE  StateInv'
<1>1. CASE Next
  BY <1>1, MainState, QuietState, TraverseState, WorkState, ReceiveState
     DEF Next, Main, Thread, Server
<1>2. CASE UNCHANGED vars
  <2>1. UNCHANGED <<flags, run, conf, tmp, st, has, chans, exist, faults, clash, main, mtodo, cc,
                    ctodo, cmd, ret, cmds, overlap, dropped>>
    BY <1>2 DEF vars, confVars, nodeVars, mainVars, cmdVars
  <2>2. TypeOK'
    BY <2>1 DEF StateInv, TypeOK
  <2> QED BY <2>1, <2>2 DEF StateInv
<1> QED BY <1>1, <1>2

-----------------------------------------------------------------------------
(* RootInv and AcceptedRuns are kept by every step. *)

\* A node's children are stopped before it.
LEMMA ChildLower ==
    ASSUME NEW j \in 1..7
    PROVE  /\ Child[Nth[j]] \in Seq(Nodes)
           /\ \A i \in 1..Len(Child[Nth[j]]) :
                 \E m \in 1..7 : m < j /\ Child[Nth[j]][i] = Nth[m]
<1> DEFINE Lower(s, k) == \A i \in 1..Len(s) : \E m \in 1..7 : m < k /\ s[i] = Nth[m]
<1>1. /\ Lower(<<>>, 1) /\ Lower(<<>>, 2) /\ Lower(<<>>, 3) /\ Lower(<<>>, 5)
      /\ Lower(<<"WIN_IMAGE_PREFERENCE", "IVA", "ENC">>, 4)
      /\ Lower(<<"IMAGE_PREFERENCE", "CHN">>, 6) /\ Lower(<<"DEV">>, 7)
  <2>1. \A k : Lower(<<>>, k)
    OBVIOUS
  <2>2. Lower(<<"WIN_IMAGE_PREFERENCE", "IVA", "ENC">>, 4)
    <3> DEFINE s == <<"WIN_IMAGE_PREFERENCE", "IVA", "ENC">>
    <3>1. Len(s) = 3 /\ s[1] = Nth[3] /\ s[2] = Nth[2] /\ s[3] = Nth[1]
      BY Numbering
    <3> HIDE DEF s
    <3> QED BY <3>1 DEF s
  <2>3. Lower(<<"IMAGE_PREFERENCE", "CHN">>, 6)
    <3>1. Nth[5] = "IMAGE_PREFERENCE" /\ Nth[4] = "CHN"
      BY Numbering
    <3> QED BY <3>1
  <2>4. Lower(<<"DEV">>, 7)
    <3>1. Nth[6] = "DEV"
      BY Numbering
    <3> QED BY <3>1
  <2> QED BY <2>1, <2>2, <2>3, <2>4
<1> HIDE DEF Lower
<1>2. j = 1 \/ j = 2 \/ j = 3 \/ j = 4 \/ j = 5 \/ j = 6 \/ j = 7
  OBVIOUS
<1>3. Lower(Child[Nth[j]], j)
  BY <1>1, <1>2, Numbering, ChildOf
<1>4. Child[Nth[j]] \in Seq(Nodes)
  BY ChildTyped, Numbering
<1> QED BY <1>3, <1>4 DEF Lower

\* The starts that a start leads to are of nodes further down.
LEMMA StartsOn ==
    ASSUME NEW r \in 1..7, NEW j \in 1..7, j <= r,
           NEW s \in Seq(CallsType), StartsBelow(s, r)
    PROVE  StartsBelow(CallsOf("start", Child[Nth[j]]) \o s, r)
<1> DEFINE ns == Child[Nth[j]]
           t == CallsOf("start", ns)
<1>1. ns \in Seq(Nodes) /\ Len(ns) \in Nat
      /\ \A i \in 1..Len(ns) : \E m \in 1..7 : m < j /\ ns[i] = Nth[m]
  BY ChildLower, LenProperties
<1>2. t \in Seq(CallsType) /\ Len(t) = Len(ns)
      /\ \A i \in 1..Len(ns) : t[i] = PlainCall("start", ns[i])
  BY <1>1, CallsOfTyped
<1> HIDE DEF ns, t
<1>3. /\ t \o s \in Seq(CallsType) /\ Len(t \o s) = Len(t) + Len(s)
      /\ \A i \in 1..(Len(t) + Len(s)) : (t \o s)[i] = IF i <= Len(t) THEN t[i] ELSE s[i - Len(t)]
  BY <1>2, ConcatProperties
<1>4. DOMAIN (t \o s) = 1..(Len(t) + Len(s)) /\ DOMAIN s = 1..Len(s) /\ Len(s) \in Nat
  BY <1>3, LenProperties
<1> DEFINE u == t \o s
<1>5. ASSUME NEW i \in 1..(Len(t) + Len(s))
      PROVE  \E m \in 1..7 : m < r /\ u[i] = PlainCall("start", Nth[m])
  <2>1. CASE i <= Len(t)
    <3>1. u[i] = PlainCall("start", ns[i]) /\ i \in 1..Len(ns)
      BY <1>1, <1>2, <1>3, <2>1
    <3> QED BY <1>1, <3>1
  <2>2. CASE i > Len(t)
    <3>1. u[i] = s[i - Len(t)] /\ i - Len(t) \in DOMAIN s
      BY <1>1, <1>2, <1>3, <1>4, <2>2
    <3> QED BY <3>1 DEF StartsBelow
  <2>3. i <= Len(t) \/ i > Len(t)
    BY <1>1, <1>2
  <2> QED BY <2>1, <2>2, <2>3
<1> QED BY <1>4, <1>5 DEF StartsBelow, t, ns

\* A list of such starts begins with one, and what follows is such a list.
LEMMA StartsFirst ==
    ASSUME NEW r \in 1..7, NEW s \in Seq(CallsType), s # <<>>, StartsBelow(s, r)
    PROVE  /\ \E j \in 1..7 : j < r /\ Head(s) = PlainCall("start", Nth[j])
           /\ StartsBelow(Tail(s), r) /\ Tail(s) \in Seq(CallsType)
<1>1. Len(s) > 0 /\ Len(s) \in Nat /\ DOMAIN s = 1..Len(s)
  BY EmptySeq, LenProperties
<1>2. /\ Head(s) = s[1] /\ Tail(s) \in Seq(CallsType) /\ Len(Tail(s)) = Len(s) - 1
      /\ \A i \in 1..(Len(s) - 1) : Tail(s)[i] = s[i + 1]
  BY <1>1, TailOf
<1>3. DOMAIN Tail(s) = 1..(Len(s) - 1)
  BY <1>2, LenProperties
<1>4. \A i \in 1..(Len(s) - 1) : i + 1 \in DOMAIN s
  BY <1>1
<1>5. 1 \in DOMAIN s
  BY <1>1
<1> QED BY <1>2, <1>3, <1>4, <1>5 DEF StartsBelow

\* A restart: what is left of it is never empty before its start is made, and the call
\* that is next.
LEMMA RestartSteps ==
    ASSUME NEW r \in {1, 4, 7}, NEW k \in 0..r
    PROVE  /\ r \in 1..7 /\ Rest(Restart(r), k) # <<>>
           /\ Head(Rest(Restart(r), k)) = RestartCall(r, k + 1)
           /\ Tail(Rest(Restart(r), k)) = Rest(Restart(r), k + 1)
           /\ Rest(Restart(r), 0) = Restart(r) /\ Rest(Restart(r), r + 1) = <<>>
<1>1. r \in 1..7 /\ k \in 0..(r + 1) /\ 0 \in 0..(r + 1) /\ r + 1 \in 0..(r + 1) /\ k # r + 1 /\ k < r + 1
      /\ k + 1 \in 1..(r + 1)
  OBVIOUS
<1>2. /\ Restart(r) \in Seq(CallsType) /\ Len(Restart(r)) = r + 1
      /\ \A i \in 1..(r + 1) : Restart(r)[i] = RestartCall(r, i)
  BY <1>1, RestartTyped
<1> HIDE DEF Restart
<1>3. /\ (Rest(Restart(r), k) = <<>> <=> k = Len(Restart(r)))
      /\ k < Len(Restart(r)) => /\ Head(Rest(Restart(r), k)) = Restart(r)[k + 1]
                                /\ Tail(Rest(Restart(r), k)) = Rest(Restart(r), k + 1)
  <2> DEFINE s == Restart(r)
  <2>1. s \in Seq(CallsType) /\ k \in 0..Len(s)
    BY <1>1, <1>2
  <2> HIDE DEF s
  <2>2. /\ (Rest(s, k) = <<>> <=> k = Len(s))
        /\ k < Len(s) => Head(Rest(s, k)) = s[k + 1] /\ Tail(Rest(s, k)) = Rest(s, k + 1)
    BY <2>1, RestSteps
  <2> QED BY <2>2 DEF s
<1>4. Rest(Restart(r), 0) = Restart(r)
  BY <1>1, <1>2, RestSteps
<1>5. Rest(Restart(r), r + 1) = <<>>
  BY <1>1, <1>2, RestSteps
<1> QED BY <1>1, <1>2, <1>3, <1>4, <1>5

\* One call of a restart, or of what it leads to.
LEMMA WorkRoot ==
    ASSUME StateInv, RootInv, Work
    PROVE  RootInv' /\ AcceptedRuns'
<1> DEFINE c == Head(ctodo)
<1>1. PICK a \in {"ok", "fail", "skip"} :
        /\ CallNode(c, a)
        /\ IF Fails(c, a)
           THEN /\ ctodo' = <<>> /\ cc' = "reply" /\ ret' = Result(c)
                /\ Recover(c) /\ tmp' = <<>>
           ELSE /\ ctodo' = AfterCall(a)
                /\ UNCHANGED <<cc, ret, conf, tmp>>
  BY DEF Work
<1>2. /\ cc = "apply" /\ ctodo # <<>> /\ UNCHANGED <<main, cmd>>
  BY DEF Work, mainVars
<1>3. /\ has = [n \in Nodes |-> has[n]] /\ st \in [Nodes -> {"none", "down", "half", "up"}]
      /\ ctodo \in Seq(CallsType)
  BY DEF StateInv, TypeOK
<1>4. AfterCall(a) = IF c.do = "start" /\ a = "ok" THEN CallsOf("start", Child[c.node]) \o Tail(ctodo)
                     ELSE Tail(ctodo)
  BY <1>2, <1>3, ListsTyped DEF AfterCall
<1> HIDE DEF c
<1>5. /\ st' = [st EXCEPT ![c.node] = StateAfter(c, a)]
      /\ \E h \in HasAfter(c, a) : has' = [has EXCEPT ![c.node] = h]
  BY <1>1 DEF CallNode
<1>6. CASE Fails(c, a)
  <2>1. cc' = "reply" /\ ret' = Result(c)
    BY <1>1, <1>6
  <2>2. cmd.kind \in {"strm", "layout"} => ret' = "fail"
    BY <2>1 DEF Result
  <2> QED BY <1>2, <2>1, <2>2 DEF RootInv, AcceptedRuns
<1>7. CASE ~Fails(c, a)
  <2>1. cc' = "apply" /\ conf' = conf /\ ctodo' = AfterCall(a)
    BY <1>1, <1>2, <1>7
  <2>2. ASSUME cmd.roots # {}
        PROVE  \E r \in {1, 4, 7} : cmd.roots = {Nth[r]} /\ Restarting(r)'
    <3>1. PICK r \in {1, 4, 7} : cmd.roots = {Nth[r]} /\ Restarting(r)
      BY <1>2, <2>2 DEF RootInv
    <3>2. r \in 1..7
      OBVIOUS
    <3>3. ASSUME NEW k \in 0..r, ctodo = Rest(Restart(r), k)
          PROVE  Restarting(r)'
      <4>1. /\ c = RestartCall(r, k + 1) /\ Tail(ctodo) = Rest(Restart(r), k + 1)
            /\ Rest(Restart(r), r + 1) = <<>>
        BY <3>3, RestartSteps DEF c
      <4>2. CASE k < r
        <5>1. c.do = "stop"
          BY <3>2, <4>1, <4>2, CallIs DEF RestartCall
        <5>2. ctodo' = Rest(Restart(r), k + 1)
          BY <1>4, <2>1, <4>1, <5>1
        <5>3. k + 1 \in 0..r
          BY <3>2, <4>2
        <5> QED BY <5>2, <5>3 DEF Restarting
      <4>3. CASE k = r
        <5>1. c.do = "start" /\ c.node = Nth[r] /\ c.root /\ Nth[r] \in Nodes
          BY <3>2, <4>1, <4>3, CallIs, Numbering DEF RestartCall
        <5>2. a = "ok"
          BY <1>7, <5>1 DEF Fails
        <5>3. ctodo' = CallsOf("start", Child[Nth[r]]) \o <<>>
          BY <1>4, <2>1, <4>1, <4>3, <5>1, <5>2
        <5>4. StartsBelow(ctodo', r)
          <6>1. <<>> \in Seq(CallsType) /\ StartsBelow(<<>>, r) /\ r <= r
            BY <3>2 DEF StartsBelow
          <6>2. StartsBelow(CallsOf("start", Child[Nth[r]]) \o <<>>, r)
            BY <3>2, <6>1, StartsOn
          <6> QED BY <5>3, <6>2
        <5>5. st'[Nth[r]] = "up" /\ has'[Nth[r]] = View(Nth[r])
          BY <1>3, <1>5, <5>1, <5>2 DEF StateAfter, HasAfter
        <5>6. View(Nth[r])' = View(Nth[r])
          BY <2>1 DEF View
        <5> QED BY <5>4, <5>5, <5>6 DEF Restarting
      <4>4. k < r \/ k = r
        BY <3>2
      <4> QED BY <4>2, <4>3, <4>4
    <3>4. ASSUME r = 1, SetThen("CHN", Restart(1))
          PROVE  Restarting(r)'
      <4>1. c.do = "set" /\ Tail(ctodo) = Restart(1)
        BY <3>4, CallIs DEF SetThen, c
      <4>2. ctodo' = Rest(Restart(1), 0) /\ 0 \in 0..r
        <5>1. 0 \in 0..1 /\ 0 \in 0..r
          BY <3>2
        <5>2. Rest(Restart(1), 0) = Restart(1)
          BY <5>1, RestartSteps
        <5>3. ctodo' = Tail(ctodo)
          BY <1>4, <2>1, <4>1
        <5> QED BY <4>1, <5>1, <5>2, <5>3
      <4> QED BY <3>4, <4>2 DEF Restarting
    <3>5. ASSUME StartsBelow(ctodo, r), main = "ready" => st[Nth[r]] = "up" /\ has[Nth[r]] = View(Nth[r])
          PROVE  Restarting(r)'
      <4>1. PICK j \in 1..7 : j < r /\ c = PlainCall("start", Nth[j])
        BY <1>2, <1>3, <3>2, <3>5, StartsFirst DEF c
      <4>2. StartsBelow(Tail(ctodo), r) /\ Tail(ctodo) \in Seq(CallsType)
        BY <1>2, <1>3, <3>2, <3>5, StartsFirst
      <4>3. c.node = Nth[j] /\ Nth[r] # Nth[j] /\ Nth[r] \in Nodes
        BY <3>2, <4>1, CallIs, Numbering
      <4>4. StartsBelow(CallsOf("start", Child[Nth[j]]) \o Tail(ctodo), r)
        <5>1. j <= r
          BY <3>2, <4>1
        <5> QED BY <3>2, <4>2, <5>1, StartsOn
      <4>5. StartsBelow(ctodo', r)
        BY <1>4, <2>1, <4>2, <4>3, <4>4
      <4>6. st'[Nth[r]] = st[Nth[r]] /\ has'[Nth[r]] = has[Nth[r]]
        BY <1>3, <1>5, <4>3
      <4>7. View(Nth[r])' = View(Nth[r])
        BY <2>1 DEF View
      <4> QED BY <1>2, <3>5, <4>5, <4>6, <4>7 DEF Restarting
    <3>6. Restarting(r)'
      BY <3>1, <3>3, <3>4, <3>5 DEF Restarting
    <3> QED BY <3>1, <3>6
  <2>3. RootInv'
    BY <1>2, <2>2 DEF RootInv
  <2> QED BY <2>1, <2>3 DEF AcceptedRuns
<1> QED BY <1>6, <1>7

\* A command comes in.
LEMMA ReceiveRoot ==
    ASSUME StateInv, Receive
    PROVE  RootInv' /\ AcceptedRuns'
<1>1. cc' = "apply"
  BY DEF Receive
<1>2. PICK kind \in Kinds : \E new \in Asked[kind] :
        Planned(ctodo', Changed(kind, conf[kind], new)) /\ cmd'.roots = RootsOf(ctodo')
  BY ReceiveState
<1>3. PICK new \in Asked[kind] :
        Planned(ctodo', Changed(kind, conf[kind], new)) /\ cmd'.roots = RootsOf(ctodo')
  BY <1>2
<1>4. ASSUME cmd'.roots # {}
      PROVE  \E r \in {1, 4, 7} : cmd'.roots = {Nth[r]} /\ Restarting(r)'
  <2>1. \/ \E r \in {1, 4, 7} : RootsOf(ctodo') = {Nth[r]} /\ ctodo' = Restart(r)
        \/ /\ RootsOf(ctodo') = {Nth[1]} /\ ctodo' # <<>>
           /\ Head(ctodo') = RootCall("set", "CHN") /\ Tail(ctodo') = Restart(1)
    BY <1>3, <1>4, PlannedTyped
  <2>2. CASE \E r \in {1, 4, 7} : RootsOf(ctodo') = {Nth[r]} /\ ctodo' = Restart(r)
    <3>1. PICK r \in {1, 4, 7} : RootsOf(ctodo') = {Nth[r]} /\ ctodo' = Restart(r)
      BY <2>2
    <3>2. ctodo' = Rest(Restart(r), 0) /\ 0 \in 0..r
      <4>1. 0 \in 0..r
        OBVIOUS
      <4> QED BY <3>1, <4>1, RestartSteps
    <3>3. Restarting(r)'
      BY <3>2 DEF Restarting
    <3> QED BY <1>3, <3>1, <3>3
  <2>3. CASE /\ RootsOf(ctodo') = {Nth[1]} /\ ctodo' # <<>>
             /\ Head(ctodo') = RootCall("set", "CHN") /\ Tail(ctodo') = Restart(1)
    <3>1. Restarting(1)'
      BY <2>3 DEF Restarting, SetThen
    <3> QED BY <1>3, <2>3, <3>1
  <2> QED BY <2>1, <2>2, <2>3
<1> QED BY <1>1, <1>4 DEF RootInv, AcceptedRuns

\* The command is done with.
LEMMA AppliedRoot ==
    ASSUME StateInv, RootInv, Applied
    PROVE  RootInv' /\ AcceptedRuns'
<1>1. /\ cc = "apply" /\ ctodo = <<>> /\ cc' = "reply" /\ UNCHANGED <<conf, st, has, main, cmd>>
  BY DEF Applied, nodeVars, mainVars
<1>2. ASSUME NEW n \in cmd.roots, main = "ready"
      PROVE  st[n] = "up" /\ has[n] = View(n)
  <2>1. PICK r \in {1, 4, 7} : cmd.roots = {Nth[r]} /\ Restarting(r)
    BY <1>1, <1>2 DEF RootInv
  <2>2. \A k \in 0..r : ctodo # Rest(Restart(r), k)
    BY <1>1, RestartSteps
  <2>3. st[Nth[r]] = "up" /\ has[Nth[r]] = View(Nth[r])
    BY <1>1, <1>2, <2>1, <2>2 DEF Restarting, SetThen
  <2> QED BY <2>1, <2>3
<1>3. \A n \in Nodes : View(n)' = View(n)
  BY <1>1 DEF View
<1>4. cmd.roots \subseteq Nodes
  BY DEF StateInv, TypeOK
<1> QED BY <1>1, <1>2, <1>3, <1>4 DEF RootInv, AcceptedRuns

\* What main() does while no command is to be judged, and what the thread does then.
LEMMA RootStep ==
    ASSUME StateInv, RootInv, AcceptedRuns, [Next]_vars
    PROVE  RootInv' /\ AcceptedRuns'
<1>1. CASE Work
  BY <1>1, WorkRoot
<1>2. CASE Receive
  BY <1>2, ReceiveRoot
<1>3. CASE Applied
  BY <1>3, AppliedRoot
<1>4. /\ main \in {"init", "start"} => cc = "none"
      /\ main \in {"ready", "exited"} => mtodo = <<>>
      /\ cc \notin {"apply", "reply"} => cmd = Idle
  BY DEF StateInv
<1>5. CASE Traverse
  <2>1. UNCHANGED <<cc, ctodo, cmd, main>> /\ main # "ready"
    BY <1>4, <1>5 DEF Traverse, cmdVars
  <2>2. \A r \in {1, 4, 7} : Restarting(r) => Restarting(r)'
    BY <2>1 DEF Restarting, SetThen
  <2>3. RootInv'
    BY <2>1, <2>2 DEF RootInv
  <2> QED BY <2>1, <2>3 DEF AcceptedRuns
<1>6. CASE StartNodes \/ CreateThread \/ CreateFails \/ LeaveNodes \/ JoinThread \/ Signal
           \/ UNCHANGED vars
  <2>1. /\ UNCHANGED <<conf, st, has, ctodo, cmd, ret, overlap>>
        /\ \/ cc' = cc /\ (main' = "ready" => main = "ready")
           \/ cc' = "connect"
    BY <1>6 DEF StartNodes, CreateThread, CreateFails, LeaveNodes, JoinThread, Signal, vars,
                confVars, nodeVars, mainVars, cmdVars
  <2>2. \A n \in Nodes : View(n)' = View(n)
    BY <2>1 DEF View
  <2>3. ASSUME cc' = cc, main' = "ready" => main = "ready", NEW r \in {1, 4, 7}, Restarting(r)
        PROVE  Restarting(r)'
    <3>1. Nth[r] \in Nodes
      <4>1. r \in 1..7
        OBVIOUS
      <4> QED BY <4>1, Numbering
    <3> QED BY <2>1, <2>2, <2>3, <3>1 DEF Restarting, SetThen
  <2>4. RootInv'
    BY <2>1, <2>3 DEF RootInv
  <2>5. cmd.roots \subseteq Nodes
    BY DEF StateInv, TypeOK
  <2> QED BY <2>1, <2>2, <2>4, <2>5 DEF AcceptedRuns
<1>7. CASE Connect \/ NoServer \/ Timeout \/ Registered \/ Hangup \/ ReceiveOther \/ Reply
  <2>1. /\ cc' \in {"register", "ended", "select"}
           \/ (cc' = "reply" /\ cmd = Idle /\ cmd' = cmd)
    BY <1>4, <1>7 DEF Connect, NoServer, Timeout, Registered, Hangup, ReceiveOther, Reply, Go, LoopTop
  <2>2. Idle.kind = "none"
    BY DEF Idle
  <2> QED BY <2>1, <2>2 DEF RootInv, AcceptedRuns
<1> QED BY <1>1, <1>2, <1>3, <1>5, <1>6, <1>7 DEF Next, Main, Thread, Server

-----------------------------------------------------------------------------
(* Calls that are made where they belong. *)

\* A node's parents are stopped after it, and they are skipped without video control.
LEMMA ParentsAbove ==
    ASSUME NEW i \in 1..7, NEW p \in Parents[Nth[i]]
    PROVE  (\E m \in 1..7 : m > i /\ p = Nth[m]) /\ p \in {"VB", "DEV", "CHN"}
<1>1. Nth[i] \in Nodes
  BY Numbering
<1>2. p \in Nodes /\ Nth[i] \in Range(Child[p])
  BY <1>1 DEF Parents
<1>3. PICK m \in 1..7 : p = Nth[m]
  BY <1>2, Numbering
<1>4. Child[p] \in Seq(Nodes) /\ \A x \in 1..Len(Child[p]) : \E j \in 1..7 : j < m /\ Child[p][x] = Nth[j]
  BY <1>3, ChildLower
<1>5. DOMAIN Child[p] = 1..Len(Child[p])
  BY <1>4, LenProperties
<1>6. PICK j \in 1..7 : j < m /\ Nth[i] = Nth[j]
  BY <1>2, <1>4, <1>5 DEF Range
<1>7. m > i
  BY <1>6, Numbering
<1>8. Child[p] # <<>>
  BY <1>2 DEF Range
<1>9. p \in {"VB", "DEV", "CHN"}
  BY <1>2, <1>8, ChildOf DEF Nodes
<1> QED BY <1>3, <1>7, <1>9

\* The numbers of the nodes that carry the channels.
LEMMA WhichAre ==
    \A i \in 1..7 : (Nth[i] = "CHN" <=> i = 4) /\ (Nth[i] = "DEV" <=> i = 6)
<1>1. 4 \in 1..7 /\ 6 \in 1..7 /\ Nth[4] = "CHN" /\ Nth[6] = "DEV"
  BY Numbering
<1> QED BY <1>1, Numbering

\* As long as nothing failed, a call in place is answered, or its node is skipped.
LEMMA Answered ==
    ASSUME NEW c \in CallsType, NEW a \in {"ok", "fail", "skip"}, CallNode(c, a),
           faults = 0, faults' = 0
    PROVE  /\ isSkipCase(c.node) => a = "skip"
           /\ ~isSkipCase(c.node) => a \in {"ok", "fail"}
           /\ InPlace(c) => a # "fail"
<1>1. a \in Answers(c) /\ faults' = IF a = "fail" /\ InPlace(c) THEN faults + 1 ELSE faults
  BY DEF CallNode
<1>2. InPlace(c) => a # "fail"
  BY <1>1
<1> HIDE DEF InPlace
<1>3. (isSkipCase(c.node) => a = "skip") /\ (~isSkipCase(c.node) => a \in {"ok", "fail"})
  BY <1>1 DEF Answers
<1> QED BY <1>2, <1>3

\* What a call leaves alone: the other nodes, and the channels unless it is a start or
\* stop of the channels' node or a stop of the device.
LEMMA CallLeaves ==
    ASSUME StateInv, NEW c \in CallsType, NEW a \in {"ok", "fail", "skip"}, CallNode(c, a)
    PROVE  /\ \A n \in Nodes \ {c.node} : st'[n] = st[n] /\ has'[n] = has[n]
           /\ st'[c.node] = StateAfter(c, a)
           /\ has'[c.node] \in HasAfter(c, a)
           /\ ~(c.node = "CHN" /\ c.do \in {"start", "stop"}) => exist' = exist
<1>1. c.node \in Nodes
  BY DEF CallsType
<1>2. /\ has = [n \in Nodes |-> has[n]] /\ st \in [Nodes -> {"none", "down", "half", "up"}]
      /\ st' = [st EXCEPT ![c.node] = StateAfter(c, a)]
      /\ \E h \in HasAfter(c, a) : has' = [has EXCEPT ![c.node] = h]
      /\ Driver(c, a)
  BY DEF StateInv, TypeOK, CallNode
<1>3. PICK h \in HasAfter(c, a) : has' = [has EXCEPT ![c.node] = h]
  BY <1>2
<1>4. ~(c.node = "CHN" /\ c.do \in {"start", "stop"}) => exist' = exist
  BY <1>2 DEF Driver
<1>5. /\ \A n \in Nodes \ {c.node} : st'[n] = st[n] /\ has'[n] = has[n]
      /\ st'[c.node] = StateAfter(c, a) /\ has'[c.node] = h
  BY <1>1, <1>2, <1>3
<1> QED BY <1>4, <1>5

\* A skipped node is left alone, and what a node works with stays a function.
LEMMA CallNodeInv ==
    ASSUME StateInv, NodeInv, NEW c \in CallsType, NEW a \in {"ok", "fail", "skip"},
           CallNode(c, a), flags' = flags
    PROVE  NodeInv'
<1>1. /\ \A n \in Nodes \ {c.node} : st'[n] = st[n] /\ has'[n] = has[n]
      /\ st'[c.node] = StateAfter(c, a) /\ has'[c.node] \in HasAfter(c, a)
  BY CallLeaves
<1>2. \A n : isSkipCase(n)' = isSkipCase(n)
  BY DEF isSkipCase
<1>3. isSkipCase(c.node) => a = "skip"
  BY DEF CallNode, Answers
<1>4. isSkipCase(c.node) => st'[c.node] = st[c.node]
  BY <1>1, <1>3 DEF StateAfter
<1>5. c.node \in Nodes
  BY DEF CallsType
<1>6. ASSUME st'[c.node] = "up"
      PROVE  has'[c.node] = [u \in Uses[c.node] |-> has'[c.node][u]]
  <2> DEFINE n == c.node
  <2>0. st[n] = "up" => has[n] = [u \in Uses[n] |-> has[n][u]]
    BY <1>5 DEF NodeInv
  <2>1. CASE a = "ok" /\ c.do = "start"
    <3>1. has'[n] = View(n)
      BY <1>1, <2>1 DEF HasAfter
    <3>2. View(n) = [u \in Uses[n] |-> View(n)[u]]
      BY DEF View
    <3> QED BY <3>1, <3>2
  <2>2. CASE ~(a = "ok" /\ c.do = "start")
    <3>1. st[n] = "up"
      BY <1>1, <1>6, <2>2 DEF StateAfter
    <3> DEFINE set == [u \in Uses[n] |->
                         IF u \in SetFields[n] THEN View(n)[u] ELSE has[n][u]]
    <3>2. has'[n] = has[n] \/ has'[n] = set
      BY <1>1, <1>6, <2>2, <3>1 DEF HasAfter
    <3>3. set = [u \in Uses[n] |-> set[u]]
      OBVIOUS
    <3> HIDE DEF set
    <3> QED BY <2>0, <3>1, <3>2, <3>3
  <2> QED BY <2>1, <2>2
<1> QED BY <1>1, <1>2, <1>4, <1>5, <1>6 DEF NodeInv

\* An init goes through: the next node is down.
LEMMA InitCall ==
    ASSUME StateInv, NEW k \in 1..7, NEW c \in CallsType, c.do = "init", c.node = Nth[k],
           NEW a \in {"ok", "fail", "skip"}, CallNode(c, a), Undisturbed, Undisturbed',
           flags' = flags, Inited(k)
    PROVE  a # "fail" /\ Inited(k - 1)' /\ exist' = exist
<1>1. /\ \A n \in Nodes \ {c.node} : st'[n] = st[n] /\ has'[n] = has[n]
      /\ st'[c.node] = StateAfter(c, a) /\ exist' = exist
  BY CallLeaves
<1>2. \A n : isSkipCase(n)' = isSkipCase(n)
  BY DEF isSkipCase
<1>3. InPlace(c)
  <2>1. st[Nth[k]] = "none"
    BY DEF Inited
  <2> QED BY <2>1 DEF InPlace
<1>4. /\ isSkipCase(c.node) => a = "skip"
      /\ ~isSkipCase(c.node) => a = "ok"
  BY <1>3, Answered DEF Undisturbed
<1>5. st'[c.node] = IF isSkipCase(c.node) THEN "none" ELSE "down"
  <2>1. st[c.node] = "none"
    BY DEF Inited
  <2> QED BY <1>1, <1>4, <2>1 DEF StateAfter
<1>6. ASSUME NEW i \in 1..7
      PROVE  st'[Nth[i]] = IF isSkipCase(Nth[i])' \/ i <= k - 1 THEN "none" ELSE "down"
  <2>1. Nth[i] \in Nodes /\ (Nth[i] = c.node <=> i = k)
    BY Numbering
  <2>2. CASE i = k
    BY <1>2, <1>5, <2>1, <2>2
  <2>3. CASE i # k
    BY <1>1, <1>2, <2>1, <2>3 DEF Inited
  <2> QED BY <2>2, <2>3
<1> QED BY <1>1, <1>4, <1>6 DEF Inited

\* A start goes through: one node more runs, and with g_conf.
LEMMA StartCall ==
    ASSUME StateInv, NEW k \in 1..7, NEW c \in CallsType, c.do = "start", c.node = Nth[k],
           NEW a \in {"ok", "fail", "skip"}, CallNode(c, a), Undisturbed, Undisturbed',
           flags' = flags, Level(k), NoChannel(k)
    PROVE  /\ a = IF isSkipCase(c.node) THEN "skip" ELSE "ok"
           /\ Level(k - 1)' /\ NoChannel(k - 1)'
           /\ conf' = conf => \A stale : Fresh(k, stale) => Fresh(0, stale)'
<1>1. /\ \A n \in Nodes \ {c.node} : st'[n] = st[n] /\ has'[n] = has[n]
      /\ st'[c.node] = StateAfter(c, a) /\ has'[c.node] \in HasAfter(c, a)
      /\ c.node # "CHN" => exist' = exist
  BY CallLeaves
<1>2. \A n : isSkipCase(n)' = isSkipCase(n)
  BY DEF isSkipCase
<1>3. ASSUME ~isSkipCase(c.node)
      PROVE  InPlace(c)
  <2>1. st[c.node] = "down"
    BY <1>3 DEF Level
  <2>2. Supported(c.node)
    <3> SUFFICES ASSUME NEW p \in Parents[c.node] PROVE st[p] = "up" \/ isSkipCase(p)
      BY DEF Supported
    <3>1. PICK m \in 1..7 : m > k /\ p = Nth[m]
      BY ParentsAbove
    <3> QED BY <3>1 DEF Level
  <2>3. c.node = "CHN" => Wanted \cap chans = {}
    <3>1. SUFFICES ASSUME c.node = "CHN" PROVE Wanted \cap chans = {}
      OBVIOUS
    <3>2. k = 4
      BY <3>1, WhichAre
    <3>3. exist = {}
      BY <3>2 DEF NoChannel
    <3>4. a # "skip"
      BY <1>3, Answered DEF Undisturbed
    <3>5. ~MeetsLeftover(c)
      BY <3>4 DEF CallNode, Undisturbed
    <3> QED BY <3>1, <3>3, <3>5 DEF MeetsLeftover
  <2> QED BY <2>1, <2>2, <2>3 DEF InPlace
<1>4. a = IF isSkipCase(c.node) THEN "skip" ELSE "ok"
  BY <1>3, Answered DEF Undisturbed
<1>5. st'[c.node] = IF isSkipCase(c.node) THEN "none" ELSE "up"
  <2>1. isSkipCase(c.node) => st[c.node] = "none"
    BY DEF Level
  <2> QED BY <1>1, <1>4, <2>1 DEF StateAfter
<1>6. ~isSkipCase(c.node) => has'[c.node] = View(c.node)
  BY <1>1, <1>4 DEF HasAfter
<1>7. ASSUME NEW i \in 1..7
      PROVE  st'[Nth[i]] = IF isSkipCase(Nth[i])' THEN "none" ELSE IF i <= k - 1 THEN "down" ELSE "up"
  <2>1. Nth[i] \in Nodes /\ (Nth[i] = c.node <=> i = k)
    BY Numbering
  <2>2. CASE i = k
    BY <1>2, <1>5, <2>1, <2>2
  <2>3. CASE i # k
    BY <1>1, <1>2, <2>1, <2>3 DEF Level
  <2> QED BY <2>2, <2>3
<1>8. NoChannel(k - 1)'
  <2>1. k - 1 >= 4 => c.node # "CHN" /\ k >= 4
    BY Numbering
  <2> QED BY <1>1, <2>1 DEF NoChannel
<1>9. ASSUME conf' = conf, NEW stale, Fresh(k, stale)
      PROVE  Fresh(0, stale)'
  <2> SUFFICES ASSUME NEW i \in 1..7, st'[Nth[i]] = "up", NEW u \in Follows[Nth[i]] \ stale
               PROVE  has'[Nth[i]][u] = conf[u[1]][u[2]]
    BY <1>9 DEF Fresh
  <2>1. Nth[i] \in Nodes /\ (Nth[i] = c.node <=> i = k) /\ i >= k
    BY <1>7, Numbering
  <2>2. CASE i = k
    <3>1. has'[Nth[i]] = View(Nth[i])
      BY <1>5, <1>6, <2>1, <2>2
    <3>2. u \in Uses[Nth[i]]
      BY <2>1 DEF Follows
    <3> QED BY <3>1, <3>2 DEF View
  <2>3. CASE i # k
    BY <1>1, <1>9, <2>1, <2>3 DEF Fresh
  <2> QED BY <2>2, <2>3
<1> QED BY <1>4, <1>7, <1>8, <1>9 DEF Level

\* A stop goes through: one node less runs, and once the channels' node is stopped no
\* record of a channel is left.
LEMMA StopCall ==
    ASSUME StateInv, NEW k \in 0..6, NEW c \in CallsType, c.do = "stop", c.node = Nth[k + 1],
           NEW a \in {"ok", "fail", "skip"}, CallNode(c, a), Undisturbed, Undisturbed',
           flags' = flags, "no_video" \notin flags, Level(k), NoChannel(k)
    PROVE  /\ a = IF isSkipCase(c.node) THEN "skip" ELSE "ok"
           /\ Level(k + 1)' /\ NoChannel(k + 1)'
           /\ conf' = conf => \A r, stale : Fresh(r, stale) => Fresh(r, stale)'
<1>0. k + 1 \in 1..7
  OBVIOUS
<1>1. /\ \A n \in Nodes \ {c.node} : st'[n] = st[n] /\ has'[n] = has[n]
      /\ st'[c.node] = StateAfter(c, a)
      /\ c.node # "CHN" => exist' = exist
  BY CallLeaves
<1>2. \A n : isSkipCase(n)' = isSkipCase(n)
  BY DEF isSkipCase
<1>3. ASSUME ~isSkipCase(c.node)
      PROVE  InPlace(c)
  <2>1. st[c.node] = "up"
    BY <1>0, <1>3 DEF Level
  <2>2. c.node = "DEV" => chans = {}
    <3>1. SUFFICES ASSUME c.node = "DEV" PROVE chans = {}
      OBVIOUS
    <3>2. k + 1 = 6
      BY <1>0, <3>1, WhichAre
    <3>3. exist = {}
      BY <3>2 DEF NoChannel
    <3>4. a # "skip"
      BY <1>3, Answered DEF Undisturbed
    <3>5. ~MeetsLeftover(c)
      BY <3>4 DEF CallNode, Undisturbed
    <3> QED BY <3>1, <3>3, <3>5 DEF MeetsLeftover
  <2>3. c = Call("stop", "DEV", c.root) => c.node = "DEV"
    BY DEF Call
  <2> QED BY <2>1, <2>2, <2>3 DEF InPlace
<1>4. a = IF isSkipCase(c.node) THEN "skip" ELSE "ok"
  BY <1>3, Answered DEF Undisturbed
<1>5. st'[c.node] = IF isSkipCase(c.node) THEN "none" ELSE "down"
  <2>1. st[c.node] = IF isSkipCase(c.node) THEN "none" ELSE "up"
    BY <1>0 DEF Level
  <2> QED BY <1>1, <1>4, <2>1 DEF StateAfter
<1>7. ASSUME NEW i \in 1..7
      PROVE  st'[Nth[i]] = IF isSkipCase(Nth[i])' THEN "none" ELSE IF i <= k + 1 THEN "down" ELSE "up"
  <2>1. Nth[i] \in Nodes /\ (Nth[i] = c.node <=> i = k + 1)
    BY <1>0, Numbering
  <2>2. CASE i = k + 1
    BY <1>2, <1>5, <2>1, <2>2
  <2>3. CASE i # k + 1
    <3>1. st[Nth[i]] = IF isSkipCase(Nth[i]) THEN "none" ELSE IF i <= k THEN "down" ELSE "up"
      BY DEF Level
    <3>2. i <= k <=> i <= k + 1
      BY <2>3
    <3> QED BY <1>1, <1>2, <2>1, <2>3, <3>1, <3>2
  <2> QED BY <2>2, <2>3
<1>8. NoChannel(k + 1)'
  <2>1. CASE k + 1 = 4
    <3>1. c.node = "CHN" /\ ~isSkipCase(c.node)
      BY <2>1, Numbering DEF isSkipCase
    <3>2. exist' = {}
      BY <1>4, <3>1 DEF CallNode, Driver, StopChn
    <3> QED BY <3>2 DEF NoChannel
  <2>2. CASE k + 1 # 4
    <3>1. k + 1 >= 4 => c.node # "CHN" /\ k >= 4
      BY <1>0, <2>2, Numbering
    <3> QED BY <1>1, <3>1 DEF NoChannel
  <2> QED BY <2>1, <2>2
<1>9. ASSUME conf' = conf, NEW r, NEW stale, Fresh(r, stale)
      PROVE  Fresh(r, stale)'
  <2> SUFFICES ASSUME NEW i \in 1..7, i > r, st'[Nth[i]] = "up", NEW u \in Follows[Nth[i]] \ stale
               PROVE  has'[Nth[i]][u] = conf[u[1]][u[2]]
    BY <1>9 DEF Fresh
  <2>1. Nth[i] \in Nodes /\ Nth[i] # c.node
    BY <1>5, Numbering
  <2> QED BY <1>1, <1>9, <2>1 DEF Fresh
<1> QED BY <1>4, <1>7, <1>8, <1>9 DEF Level

\* A set goes through: the node works with the field it was handed.
LEMMA SetCall ==
    ASSUME StateInv, NEW n \in {"CHN", "IVA", "ENC"}, NEW c \in CallsType, c = RootCall("set", n),
           NEW a \in {"ok", "fail", "skip"}, CallNode(c, a), Undisturbed, Undisturbed',
           flags' = flags, Level(0)
    PROVE  /\ a # "fail" /\ Level(0)'
           /\ conf' = conf => \A r, stale : Fresh(r, stale \cup {SetFor[n]}) => Fresh(r, stale)'
<1>0. c.do = "set" /\ c.node = n /\ n \in Nodes
  BY CallIs DEF Nodes
<1>1. /\ \A m \in Nodes \ {n} : st'[m] = st[m] /\ has'[m] = has[m]
      /\ st'[n] = StateAfter(c, a) /\ has'[n] \in HasAfter(c, a)
  BY <1>0, CallLeaves
<1>2. \A m : isSkipCase(m)' = isSkipCase(m)
  BY DEF isSkipCase
<1>3. PICK j \in 1..7 : Nth[j] = n
  BY <1>0, Numbering
<1>4. st[n] = IF isSkipCase(n) THEN "none" ELSE "up"
  BY <1>3 DEF Level
<1>5. ~isSkipCase(n) => InPlace(c)
  <2>1. c # Call("stop", "DEV", c.root)
    BY <1>0 DEF Call
  <2> QED BY <1>0, <1>4, <2>1 DEF InPlace
<1>6. a = IF isSkipCase(n) THEN "skip" ELSE "ok"
  BY <1>0, <1>5, Answered DEF Undisturbed
<1>7. st'[n] = st[n]
  BY <1>0, <1>1 DEF StateAfter
<1>8. Level(0)'
  <2>1. \A i \in 1..7 : Nth[i] \in Nodes /\ st'[Nth[i]] = st[Nth[i]]
    BY <1>1, <1>7, Numbering
  <2> QED BY <1>2, <2>1 DEF Level
<1>9. ASSUME conf' = conf, NEW r, NEW stale, Fresh(r, stale \cup {SetFor[n]})
      PROVE  Fresh(r, stale)'
  <2> DEFINE f == SetFor[n]
  <2> SUFFICES ASSUME NEW i \in 1..7, i > r, st'[Nth[i]] = "up", NEW u \in Follows[Nth[i]] \ stale
               PROVE  has'[Nth[i]][u] = conf[u[1]][u[2]]
    BY <1>9 DEF Fresh
  <2>1. Nth[i] \in Nodes /\ st[Nth[i]] = "up"
    BY <1>1, <1>7, Numbering
  <2>2. u # f => has[Nth[i]][u] = conf[u[1]][u[2]]
    BY <1>9, <2>1 DEF Fresh
  <2>3. CASE Nth[i] = n
    <3>1. a = "ok"
      BY <1>4, <1>6, <2>1, <2>3
    <3>2. has'[n] = [v \in Uses[n] |-> IF v \in SetFields[n] THEN View(n)[v] ELSE has[n][v]]
      BY <1>0, <1>1, <2>1, <2>3, <3>1 DEF HasAfter
    <3>3. u \in Uses[n]
      BY <2>1, <2>3 DEF Follows
    <3>4. has'[n][u] = IF u \in SetFields[n] THEN View(n)[u] ELSE has[n][u]
      BY <3>2, <3>3
    <3>5. View(n)[u] = conf[u[1]][u[2]]
      BY <3>3 DEF View
    <3>6. f \in SetFields[n]
      BY SetForIs
    <3> HIDE DEF f
    <3> QED BY <2>2, <2>3, <3>4, <3>5, <3>6
  <2>4. CASE Nth[i] # n
    <3>1. u # f
      BY <2>4, FollowsCases, SetForIs, Numbering
    <3> QED BY <1>1, <2>1, <2>2, <2>4, <3>1
  <2> QED BY <2>3, <2>4
<1> QED BY <1>6, <1>8, <1>9

-----------------------------------------------------------------------------
(* BootInv, WorkInv and NoVideoInv are kept by every step. *)

\* What has happened stays so.
LEMMA StaysUndisturbed ==
    ASSUME StateInv, Next, Undisturbed'
    PROVE  Undisturbed
<1>1. faults \in Nat /\ clash \in BOOLEAN /\ overlap \in BOOLEAN
  BY DEF StateInv, TypeOK
<1>2. faults' = 0 /\ ~clash' /\ ~overlap'
  BY DEF Undisturbed
<1>3. ASSUME NEW c, NEW a, CallNode(c, a)
      PROVE  faults = 0 /\ ~clash
  <2>1. faults' = faults \/ faults' = faults + 1
    BY <1>3 DEF CallNode
  <2>2. clash => clash'
    BY <1>3 DEF CallNode
  <2> QED BY <1>1, <1>2, <2>1, <2>2
<1>4. CASE Traverse \/ Work
  <2>1. overlap => overlap'
    BY <1>4 DEF Traverse, Work
  <2>2. \E c, a : CallNode(c, a)
    BY <1>4 DEF Traverse, Work
  <2> QED BY <1>2, <1>3, <2>1, <2>2 DEF Undisturbed
<1>5. CASE ~(Traverse \/ Work)
  <2>1. CASE Receive
    <3>1. clash' = clash /\ faults' = faults
      BY <2>1 DEF Receive, nodeVars
    <3>2. overlap => overlap'
      BY <2>1 DEF Receive
    <3> QED BY <1>2, <3>1, <3>2 DEF Undisturbed
  <2>2. CASE StartNodes \/ CreateThread \/ CreateFails \/ LeaveNodes \/ JoinThread \/ Signal
    <3>1. clash' = clash /\ overlap' = overlap /\ (faults' = faults \/ faults' = faults + 1)
      BY <2>2 DEF StartNodes, CreateThread, CreateFails, LeaveNodes, JoinThread, Signal, nodeVars
    <3> QED BY <1>1, <1>2, <3>1 DEF Undisturbed
  <2>3. CASE \/ Connect \/ NoServer \/ Timeout \/ Registered \/ Hangup \/ ReceiveOther \/ Applied
             \/ Reply
    <3>1. clash' = clash /\ overlap' = overlap /\ faults' = faults
      BY <2>3 DEF Connect, NoServer, Timeout, Registered, Hangup, ReceiveOther, Applied, Reply, Go,
                  nodeVars
    <3> QED BY <1>2, <3>1 DEF Undisturbed
  <2> QED BY <1>5, <2>1, <2>2, <2>3 DEF Next, Main, Thread, Server
<1> QED BY <1>4, <1>5

\* Nothing is skipped that others stand on, unless there is no video control.
LEMMA NotSkipped ==
    ASSUME NEW n \in {"VB", "DEV", "CHN", "ENC"}
    PROVE  isSkipCase(n) <=> "no_video" \in flags
BY DEF isSkipCase

\* The lists of inits and starts are done when no node is left.
LEMMA NodesAtNone ==
    ASSUME NEW do \in {"init", "start"}, NEW k \in 0..7
    PROVE  CallsOf(do, NodesAt(k)) = <<>> <=> k = 0
<1>1. CallsOf(do, NodesAt(0)) = <<>>
  BY DEF CallsOf, NodesAt
<1>2. ASSUME k # 0 PROVE CallsOf(do, NodesAt(k)) # <<>>
  <2>1. k \in 1..7
    BY <1>2
  <2> QED BY <2>1, CallsAtSteps
<1> QED BY <1>1, <1>2

\* The boot begins with VB.
LEMMA NodesAtVB ==
    ASSUME NEW do \in {"init", "start"}
    PROVE  CallsOf(do, NodesAt(7)) = <<PlainCall(do, "VB")>>
<1>1. NodesAt(7) = <<"VB">>
  BY DEF NodesAt
<1>2. <<"VB">> \in Seq(Nodes) /\ Len(<<"VB">>) = 1 /\ <<"VB">>[1] = "VB"
  BY DEF Nodes
<1> DEFINE s == CallsOf(do, <<"VB">>)
           t == <<PlainCall(do, "VB")>>
<1>3. s \in Seq(CallsType) /\ Len(s) = 1 /\ s[1] = PlainCall(do, "VB")
  <2> DEFINE ns == <<"VB">>
  <2>1. ns \in Seq(Nodes) /\ Len(ns) = 1 /\ ns[1] = "VB"
    BY <1>2
  <2> HIDE DEF ns
  <2>2. /\ CallsOf(do, ns) \in Seq(CallsType) /\ Len(CallsOf(do, ns)) = 1
        /\ CallsOf(do, ns)[1] = PlainCall(do, "VB")
    BY <2>1, CallsOfTyped
  <2> QED BY <2>2 DEF ns
<1>4. PlainCall(do, "VB") \in CallsType
  BY CallIs DEF Nodes
<1>5. t \in Seq(CallsType) /\ Len(t) = 1 /\ t[1] = PlainCall(do, "VB")
  BY <1>4
<1> HIDE DEF s, t
<1>6. s = t
  BY <1>3, <1>5, SameElements
<1> QED BY <1>1, <1>6 DEF s, t

\* main() boots the graph.
LEMMA BootStep ==
    ASSUME StateInv, BootInv, Next
    PROVE  BootInv'
<1> SUFFICES ASSUME Undisturbed', main' \in {"init", "start"}
             PROVE  /\ main' = "init" => \E k \in 0..7 :
                          mtodo' = CallsOf("init", NodesAt(k)) /\ Inited(k)' /\ exist' = {}
                    /\ main' = "start" => \E k \in 0..7 :
                          /\ mtodo' = CallsOf("start", NodesAt(k)) /\ Level(k)' /\ Fresh(0, {})'
                          /\ NoChannel(k)'
  BY DEF BootInv
<1>1. Undisturbed
  BY StaysUndisturbed
<1>2. main \in {"init", "start"} => cc = "none"
  BY DEF StateInv
<1>3. Traverse \/ StartNodes \/ CreateFails \/ Signal
  <2>1. ~CreateThread /\ ~LeaveNodes /\ ~JoinThread
    BY DEF CreateThread, LeaveNodes, JoinThread
  <2>2. ASSUME Thread \/ Server PROVE main' = main /\ cc # "none"
    BY <2>2 DEF Thread, Server, Connect, NoServer, Timeout, Registered, Hangup, ReceiveOther,
                Applied, Reply, Receive, Work, Go, mainVars
  <2> QED BY <1>2, <2>1, <2>2 DEF Next, Main
<1>4. ~CreateFails
  BY DEF CreateFails, Undisturbed
<1>5. CASE Signal
  <2>1. UNCHANGED <<flags, main, mtodo, st, has, conf, exist>>
    BY <1>5 DEF Signal, confVars, nodeVars, mainVars
  <2>2. \A n : isSkipCase(n)' = isSkipCase(n)
    BY <2>1 DEF isSkipCase
  <2>3. Fresh(0, {}) => Fresh(0, {})'
    BY <2>1 DEF Fresh
  <2>5. CASE main = "init"
    <3>1. PICK k \in 0..7 : mtodo = CallsOf("init", NodesAt(k)) /\ Inited(k) /\ exist = {}
      BY <1>1, <2>5 DEF BootInv
    <3>2. Inited(k)'
      BY <2>1, <2>2, <3>1 DEF Inited
    <3>3. main' = "init" /\ mtodo' = CallsOf("init", NodesAt(k)) /\ exist' = {}
      BY <2>1, <2>5, <3>1
    <3> QED BY <3>2, <3>3
  <2>6. CASE main = "start"
    <3>1. PICK k \in 0..7 :
            mtodo = CallsOf("start", NodesAt(k)) /\ Level(k) /\ Fresh(0, {}) /\ NoChannel(k)
      BY <1>1, <2>6 DEF BootInv
    <3>2. Level(k)' /\ NoChannel(k)' /\ Fresh(0, {})'
      BY <2>1, <2>2, <2>3, <3>1 DEF Level, NoChannel
    <3>3. main' = "start" /\ mtodo' = CallsOf("start", NodesAt(k))
      BY <2>1, <2>6, <3>1
    <3> QED BY <3>2, <3>3
  <2> QED BY <2>1, <2>5, <2>6
<1>6. CASE StartNodes
  <2>1. /\ main = "init" /\ mtodo = <<>> /\ main' = "start"
        /\ mtodo' = <<PlainCall("start", "VB")>> /\ UNCHANGED <<flags, st, has, conf, exist>>
    BY <1>6 DEF StartNodes, PlainCall, confVars, nodeVars
  <2>2. PICK k \in 0..7 : mtodo = CallsOf("init", NodesAt(k)) /\ Inited(k) /\ exist = {}
    BY <1>1, <2>1 DEF BootInv
  <2>3. Inited(0)
    BY <2>1, <2>2, NodesAtNone
  <2>4. \A n : isSkipCase(n)' = isSkipCase(n)
    BY <2>1 DEF isSkipCase
  <2>5. Level(7)'
    BY <2>1, <2>3, <2>4 DEF Level, Inited
  <2>6. Fresh(0, {})' /\ NoChannel(7)'
    <3>1. \A i \in 1..7 : st'[Nth[i]] # "up"
      BY <2>1, <2>3 DEF Inited
    <3>2. exist' = {}
      BY <2>1, <2>2
    <3> QED BY <3>1, <3>2 DEF Fresh, NoChannel
  <2>7. mtodo' = CallsOf("start", NodesAt(7))
    BY <2>1, NodesAtVB
  <2> QED BY <2>1, <2>5, <2>6, <2>7
<1>7. CASE Traverse
  <2> DEFINE c == Head(mtodo)
  <2>1. PICK a \in {"ok", "fail", "skip"} : CallNode(c, a) /\ mtodo' = AfterMain(a)
    BY <1>7 DEF Traverse
  <2>2. mtodo # <<>> /\ UNCHANGED <<flags, conf, main>> /\ mtodo \in Seq(CallsType)
    BY <1>7 DEF Traverse, confVars, StateInv
  <2>3. c \in CallsType /\ <<>> \o Tail(mtodo) = Tail(mtodo)
    BY <2>2, ListsTyped
  <2>4. c.do # "stop" /\ a # "fail" => mtodo' = CallsOf(c.do, Child[c.node]) \o Tail(mtodo)
    BY <2>1 DEF AfterMain
  <2> HIDE DEF c
  <2>5. CASE main = "init"
    <3>1. PICK k \in 0..7 : mtodo = CallsOf("init", NodesAt(k)) /\ Inited(k) /\ exist = {}
      BY <1>1, <2>5 DEF BootInv
    <3>2. k \in 1..7
      BY <2>2, <3>1, NodesAtNone
    <3>3. /\ c = PlainCall("init", Nth[k])
          /\ CallsOf("init", Child[Nth[k]]) \o Tail(mtodo) = CallsOf("init", NodesAt(k - 1))
      BY <3>1, <3>2, CallsAtSteps DEF c
    <3>4. c.do = "init" /\ c.node = Nth[k]
      BY <3>3, CallIs
    <3>5. a # "fail" /\ Inited(k - 1)' /\ exist' = exist
      BY <1>1, <2>1, <2>2, <2>3, <3>1, <3>2, <3>4, InitCall
    <3>6. mtodo' = CallsOf("init", NodesAt(k - 1))
      <4>1. mtodo' = CallsOf(c.do, Child[c.node]) \o Tail(mtodo)
        BY <2>4, <3>4, <3>5
      <4> QED BY <3>3, <3>4, <4>1
    <3>7. k - 1 \in 0..7
      BY <3>2
    <3> QED BY <2>2, <2>5, <3>1, <3>5, <3>6, <3>7
  <2>6. CASE main = "start"
    <3>1. PICK k \in 0..7 :
            mtodo = CallsOf("start", NodesAt(k)) /\ Level(k) /\ Fresh(0, {}) /\ NoChannel(k)
      BY <1>1, <2>6 DEF BootInv
    <3>2. k \in 1..7
      BY <2>2, <3>1, NodesAtNone
    <3>3. /\ c = PlainCall("start", Nth[k])
          /\ CallsOf("start", Child[Nth[k]]) \o Tail(mtodo) = CallsOf("start", NodesAt(k - 1))
      BY <3>1, <3>2, CallsAtSteps DEF c
    <3>4. c.do = "start" /\ c.node = Nth[k]
      BY <3>3, CallIs
    <3>5. Fresh(k, {})
      BY <3>1, <3>2 DEF Fresh
    <3>6. /\ a = IF isSkipCase(c.node) THEN "skip" ELSE "ok"
          /\ Level(k - 1)' /\ NoChannel(k - 1)' /\ Fresh(0, {})'
      BY <1>1, <2>1, <2>2, <2>3, <3>1, <3>2, <3>4, <3>5, StartCall
    <3>7. mtodo' = CallsOf("start", NodesAt(k - 1))
      <4>1. mtodo' = CallsOf(c.do, Child[c.node]) \o Tail(mtodo)
        BY <2>4, <3>4, <3>6
      <4> QED BY <3>3, <3>4, <4>1
    <3>8. k - 1 \in 0..7
      BY <3>2
    <3> QED BY <2>2, <2>6, <3>6, <3>7, <3>8
  <2> QED BY <2>2, <2>5, <2>6
<1> QED BY <1>3, <1>4, <1>5, <1>6, <1>7

\* A restart goes on with the children of its node.
LEMMA RestartOn ==
    ASSUME NEW r \in {1, 4, 7}
    PROVE  CallsOf("start", Child[Nth[r]]) \o <<>> = CallsOf("start", NodesAt(r - 1))
<1>1. NodesAt(0) = <<>> /\ NodesAt(3) = <<"WIN_IMAGE_PREFERENCE", "IVA", "ENC">> /\ NodesAt(6) = <<"DEV">>
  BY DEF NodesAt
<1>2. Child[Nth[1]] = NodesAt(0) /\ Child[Nth[4]] = NodesAt(3) /\ Child[Nth[7]] = NodesAt(6)
  BY <1>1, Numbering, ChildOf, Zenon
<1>3. (r = 1 /\ r - 1 = 0) \/ (r = 4 /\ r - 1 = 3) \/ (r = 7 /\ r - 1 = 6)
  OBVIOUS
<1>4. Child[Nth[r]] = NodesAt(r - 1)
  BY <1>2, <1>3, Zenon
<1>5. Child[Nth[r]] \in Seq(Nodes)
  <2>1. r \in 1..7
    OBVIOUS
  <2> QED BY <2>1, ChildLower
<1>6. CallsOf("start", Child[Nth[r]]) \in Seq(CallsType)
  BY <1>5, CallsOfTyped
<1> QED BY <1>4, <1>6, JoinNothing

\* A call of a command goes through, and leaves the command one call further on.
LEMMA CommandCall ==
    ASSUME StateInv, Work, Undisturbed, Undisturbed', "no_video" \notin flags,
           NEW k \in 0..7, CommandAt(k), Level(k), NoChannel(k)
    PROVE  \E j \in 0..7 : CommandAt(j)' /\ Level(j)' /\ NoChannel(j)'
<1> DEFINE c == Head(ctodo)
<1>1. PICK a \in {"ok", "fail", "skip"} :
        /\ CallNode(c, a)
        /\ IF Fails(c, a)
           THEN /\ ctodo' = <<>> /\ cc' = "reply" /\ ret' = Result(c)
                /\ Recover(c) /\ tmp' = <<>>
           ELSE /\ ctodo' = AfterCall(a)
                /\ UNCHANGED <<cc, ret, conf, tmp>>
  BY DEF Work
<1>2. ctodo # <<>> /\ flags' = flags /\ ctodo \in Seq(CallsType)
  BY DEF Work, StateInv
<1>3. c \in CallsType
  BY <1>2, ListsTyped
<1>4. AfterCall(a) = IF c.do = "start" /\ a = "ok" THEN CallsOf("start", Child[c.node]) \o Tail(ctodo)
                     ELSE Tail(ctodo)
  BY <1>2, ListsTyped DEF AfterCall
<1>5. CallsOf("start", NodesAt(0)) = <<>>
  BY NodesAtNone
<1> HIDE DEF c
<1>6. CASE ctodo = CallsOf("start", NodesAt(k)) /\ Fresh(0, {})
  <2>1. k \in 1..7
    <3>1. k # 0
      BY <1>2, <1>5, <1>6
    <3> QED BY <3>1
  <2>2. /\ c = PlainCall("start", Nth[k])
        /\ CallsOf("start", Child[Nth[k]]) \o Tail(ctodo) = CallsOf("start", NodesAt(k - 1))
        /\ Child[Nth[k]] = <<>> => Tail(ctodo) = CallsOf("start", NodesAt(k - 1))
    BY <1>6, <2>1, CallsAtSteps DEF c
  <2>3. c.do = "start" /\ c.node = Nth[k] /\ ~c.root
    BY <2>2, CallIs
  <2>4. /\ a = IF isSkipCase(c.node) THEN "skip" ELSE "ok"
        /\ Level(k - 1)' /\ NoChannel(k - 1)'
        /\ conf' = conf => \A stale : Fresh(k, stale) => Fresh(0, stale)'
    BY <1>1, <1>2, <1>3, <2>1, <2>3, StartCall
  <2>5. ctodo' = AfterCall(a) /\ conf' = conf
    BY <1>1, <2>3 DEF Fails
  <2>6. Fresh(k, {})
    BY <1>6, <2>1 DEF Fresh
  <2>7. ctodo' = CallsOf("start", NodesAt(k - 1))
    <3>1. CASE isSkipCase(c.node)
      <4>1. Child[Nth[k]] = <<>>
        BY <2>1, <2>3, <3>1, Numbering, ChildOf DEF isSkipCase, Nodes
      <4>2. a # "ok"
        BY <2>4, <3>1
      <4> QED BY <1>4, <2>2, <2>5, <4>1, <4>2
    <3>2. CASE ~isSkipCase(c.node)
      <4>1. a = "ok"
        BY <2>4, <3>2
      <4> QED BY <1>4, <2>2, <2>3, <2>5, <4>1
    <3> QED BY <3>1, <3>2
  <2>8. k - 1 \in 0..7
    BY <2>1
  <2>9. CommandAt(k - 1)'
    BY <2>4, <2>5, <2>6, <2>7 DEF CommandAt
  <2> QED BY <2>4, <2>8, <2>9
<1>7. CASE \E r \in {1, 4, 7} : k <= r /\ ctodo = Rest(Restart(r), k) /\ Fresh(r, {})
  <2>1. PICK r \in {1, 4, 7} : k <= r /\ ctodo = Rest(Restart(r), k) /\ Fresh(r, {})
    BY <1>7
  <2>2. r \in 1..7 /\ k \in 0..r /\ r \in 0..r
    BY <2>1
  <2>3. /\ c = RestartCall(r, k + 1) /\ Tail(ctodo) = Rest(Restart(r), k + 1)
    BY <2>1, <2>2, RestartSteps DEF c
  <2>4. ~isSkipCase(Nth[r])
    BY Numbering, NotSkipped
  <2>5. CASE k < r
    <3>1. k \in 0..6 /\ k + 1 \in 0..7
      BY <2>2, <2>5
    <3>2. c.do = "stop" /\ c.node = Nth[k + 1] /\ (c.root => c.node = Nth[r])
      BY <2>2, <2>3, <2>5, CallIs DEF RestartCall
    <3>3. /\ a = IF isSkipCase(c.node) THEN "skip" ELSE "ok"
          /\ Level(k + 1)' /\ NoChannel(k + 1)'
          /\ conf' = conf => \A x, stale : Fresh(x, stale) => Fresh(x, stale)'
      BY <1>1, <1>2, <1>3, <3>1, <3>2, StopCall
    <3>4. ~Fails(c, a)
      BY <2>4, <3>2, <3>3 DEF Fails
    <3>5. ctodo' = AfterCall(a) /\ conf' = conf
      BY <1>1, <3>4
    <3>6. ctodo' = Rest(Restart(r), k + 1)
      BY <1>4, <2>3, <3>2, <3>5
    <3>7. k + 1 <= r
      BY <2>2, <2>5
    <3>8. CommandAt(k + 1)'
      BY <2>1, <3>3, <3>5, <3>6, <3>7 DEF CommandAt
    <3> QED BY <3>1, <3>3, <3>8
  <2>6. CASE k = r
    <3>1. c.do = "start" /\ c.node = Nth[r] /\ c.root
      BY <2>2, <2>3, <2>6, CallIs DEF RestartCall
    <3>2. k \in 1..7 /\ c.node = Nth[k] /\ r - 1 \in 0..7 /\ k - 1 = r - 1
      BY <2>2, <2>6, <3>1
    <3>3. /\ a = IF isSkipCase(c.node) THEN "skip" ELSE "ok"
          /\ Level(k - 1)' /\ NoChannel(k - 1)'
          /\ conf' = conf => \A stale : Fresh(k, stale) => Fresh(0, stale)'
      BY <1>1, <1>2, <1>3, <3>1, <3>2, StartCall
    <3>4. a = "ok"
      BY <2>4, <3>1, <3>3
    <3>5. ctodo' = AfterCall(a) /\ conf' = conf
      BY <1>1, <3>1, <3>4 DEF Fails
    <3>6. Tail(ctodo) = <<>>
      BY <2>2, <2>3, <2>6, RestartSteps
    <3>7. ctodo' = CallsOf("start", NodesAt(r - 1))
      <4>1. ctodo' = CallsOf("start", Child[Nth[r]]) \o <<>>
        BY <1>4, <3>1, <3>4, <3>5, <3>6
      <4> QED BY <4>1, RestartOn
    <3>8. CommandAt(r - 1)'
      BY <2>1, <2>6, <3>3, <3>5, <3>7 DEF CommandAt
    <3> QED BY <3>2, <3>3, <3>8
  <2>7. k < r \/ k = r
    BY <2>2
  <2> QED BY <2>5, <2>6, <2>7
<1>8. ASSUME k = 0, NEW n \in {"CHN", "IVA", "ENC"}, NEW rest, SetThen(n, rest)
      PROVE  /\ ctodo' = rest /\ Level(0)' /\ NoChannel(0)'
             /\ \A r, stale : Fresh(r, stale \cup {SetFor[n]}) => Fresh(r, stale)'
  <2>1. c = RootCall("set", n) /\ Tail(ctodo) = rest /\ c.do = "set"
    BY <1>8, CallIs DEF SetThen, c
  <2>2. Level(0)
    BY <1>8
  <2>3. /\ a # "fail" /\ Level(0)'
        /\ conf' = conf => \A r, stale : Fresh(r, stale \cup {SetFor[n]}) => Fresh(r, stale)'
    BY <1>1, <1>2, <1>3, <2>1, <2>2, SetCall
  <2>4. ctodo' = AfterCall(a) /\ conf' = conf
    BY <1>1, <2>1, <2>3 DEF Fails
  <2>5. ctodo' = rest
    BY <1>4, <2>1, <2>4
  <2> QED BY <2>3, <2>4, <2>5 DEF NoChannel
<1>9. CASE k = 0 /\ \E n \in {"CHN", "IVA", "ENC"} : SetThen(n, <<>>) /\ Fresh(0, {SetFor[n]})
  <2>1. PICK n \in {"CHN", "IVA", "ENC"} : SetThen(n, <<>>) /\ Fresh(0, {SetFor[n]})
    BY <1>9
  <2>2. {} \cup {SetFor[n]} = {SetFor[n]}
    OBVIOUS
  <2>3. ctodo' = <<>> /\ Level(0)' /\ NoChannel(0)' /\ Fresh(0, {})'
    BY <1>8, <1>9, <2>1, <2>2
  <2>4. CommandAt(0)'
    BY <1>5, <2>3 DEF CommandAt
  <2> QED BY <2>3, <2>4
<1>10. CASE /\ k = 0 /\ SetThen("CHN", <<RootCall("set", "ENC")>>)
            /\ Fresh(0, {SetFor["CHN"], SetFor["ENC"]})
  <2>1. {SetFor["ENC"]} \cup {SetFor["CHN"]} = {SetFor["CHN"], SetFor["ENC"]}
    OBVIOUS
  <2>2. /\ ctodo' = <<RootCall("set", "ENC")>> /\ Level(0)' /\ NoChannel(0)'
        /\ Fresh(0, {SetFor["ENC"]})'
    BY <1>8, <1>10, <2>1
  <2>3. SetThen("ENC", <<>>)'
    <3> DEFINE d == RootCall("set", "ENC")
    <3>1. ctodo' = <<d>>
      BY <2>2
    <3> HIDE DEF d
    <3>2. ctodo' # <<>> /\ Head(ctodo') = d /\ Tail(ctodo') = <<>>
      BY <3>1
    <3> QED BY <3>2 DEF SetThen, d
  <2>4. CommandAt(0)'
    BY <2>2, <2>3 DEF CommandAt
  <2> QED BY <2>2, <2>4
<1>11. CASE k = 0 /\ SetThen("CHN", Restart(1)) /\ Fresh(1, {SetFor["CHN"]})
  <2>1. {} \cup {SetFor["CHN"]} = {SetFor["CHN"]}
    OBVIOUS
  <2>2. ctodo' = Restart(1) /\ Level(0)' /\ NoChannel(0)' /\ Fresh(1, {})'
    BY <1>8, <1>11, <2>1
  <2>3. Rest(Restart(1), 0) = Restart(1)
    <3>1. 0 \in 0..1
      OBVIOUS
    <3> QED BY <3>1, RestartSteps
  <2>4. CommandAt(0)'
    BY <2>2, <2>3 DEF CommandAt
  <2> QED BY <2>2, <2>4
<1> QED BY <1>6, <1>7, <1>9, <1>10, <1>11 DEF CommandAt

\* The fields of a record that nodes follow are fields that commands bring.
LEMMA FollowsAsked ==
    ASSUME NEW i \in 1..7, NEW u \in Follows[Nth[i]], NEW kind \in Kinds, NEW new \in Asked[kind],
           u[1] = kind
    PROVE  u \in {kind} \X (DOMAIN new \ {"unseen"})
<1>1. kind = "strm" \/ kind = "layout" \/ kind = "od"
  BY DEF Kinds, Asked
<1>2. /\ kind = "strm" => DOMAIN new = {"cnt", "res", "fps", "codec", "rate", "unseen"}
      /\ kind = "layout" => DOMAIN new = {"win0", "wins"}
      /\ kind = "od" => DOMAIN new = {"version", "od"}
  <2>1. /\ \A x \in Asked.strm : DOMAIN x = {"cnt", "res", "fps", "codec", "rate", "unseen"}
        /\ \A x \in Asked.layout : DOMAIN x = {"win0", "wins"}
        /\ \A x \in Asked.od : DOMAIN x = {"version", "od"}
    BY DEF Asked
  <2>2. new \in Asked[kind]
    OBVIOUS
  <2> QED BY <2>1, <2>2
<1>3. \/ u = <<"strm", "cnt">> \/ u = <<"strm", "res">> \/ u = <<"strm", "fps">>
      \/ u = <<"strm", "codec">> \/ u = <<"strm", "rate">>
      \/ u = <<"layout", "win0">> \/ u = <<"layout", "wins">>
      \/ u = <<"od", "version">> \/ u = <<"od", "od">>
  BY FollowsCases
<1> QED BY <1>1, <1>2, <1>3

\* A command comes to nodes that all work with g_conf: but for the fields it changes
\* they still do.
LEMMA ReceiveFresh ==
    ASSUME StateInv, Fresh(0, {}), NEW kind \in Kinds, NEW new \in Asked[kind],
           conf' = [conf EXCEPT ![kind] = new], UNCHANGED <<st, has>>,
           NEW changed, changed = Changed(kind, conf[kind], new)
    PROVE  Fresh(0, changed)'
<1> SUFFICES ASSUME NEW i \in 1..7, st[Nth[i]] = "up", NEW u \in Follows[Nth[i]] \ changed
             PROVE  has[Nth[i]][u] = conf'[u[1]][u[2]]
  BY DEF Fresh
<1>1. has[Nth[i]][u] = conf[u[1]][u[2]]
  BY DEF Fresh
<1>2. kind \in DOMAIN conf
  BY DEF StateInv, TypeOK, Kinds, Asked
<1>3. CASE u[1] = kind
  <2>1. u \in {kind} \X (DOMAIN new \ {"unseen"})
    BY <1>3, FollowsAsked
  <2>2. conf[kind][u[2]] = new[u[2]]
    BY <2>1 DEF Changed
  <2> QED BY <1>1, <1>2, <1>3, <2>2
<1>4. CASE u[1] # kind
  BY <1>1, <1>2, <1>4
<1> QED BY <1>3, <1>4

\* The command that comes in finds all nodes running, or nothing that could be started.
LEMMA ReceiveCommand ==
    ASSUME StateInv, Receive
    PROVE  (Fresh(0, {}) => CommandAt(0)') /\ NoStart'
<1>1. PICK kind \in Kinds : \E new \in Asked[kind] :
        /\ conf' = [conf EXCEPT ![kind] = new]
        /\ Planned(ctodo', Changed(kind, conf[kind], new))
  BY ReceiveState
<1>2. PICK new \in Asked[kind] :
        /\ conf' = [conf EXCEPT ![kind] = new]
        /\ Planned(ctodo', Changed(kind, conf[kind], new))
  BY <1>1
<1>3. PICK changed : changed = Changed(kind, conf[kind], new)
  OBVIOUS
<1>4. Planned(ctodo', changed) /\ UNCHANGED <<st, has>>
  BY <1>2, <1>3 DEF Receive, nodeVars
<1>5. ASSUME Fresh(0, {}), NEW r \in 0..7, NEW stale,
             \A i \in 1..7 : i > r => \A u \in Follows[Nth[i]] : u \in changed => u \in stale
      PROVE  Fresh(r, stale)'
  <2>1. Fresh(0, changed)'
    BY <1>2, <1>3, <1>4, <1>5, ReceiveFresh
  <2> QED BY <1>5, <2>1 DEF Fresh
<1>6. \A r \in {1, 4, 7} : Rest(Restart(r), 0) = Restart(r) /\ 0 \in 0..(r - 1) /\ r \in 0..7
  <2> TAKE r \in {1, 4, 7}
  <2>1. 0 \in 0..r /\ 0 \in 0..(r - 1) /\ r \in 0..7
    OBVIOUS
  <2> QED BY <2>1, RestartSteps
<1>7. CASE ctodo' = <<>> /\ changed = {}
  <2>1. CallsOf("start", NodesAt(0)) = <<>>
    BY NodesAtNone
  <2>2. Fresh(0, {}) => Fresh(0, {})'
    BY <1>5, <1>7
  <2> QED BY <1>7, <2>1, <2>2 DEF CommandAt, NoStart
<1>8. CASE ctodo' = Restart(7) \/ ctodo' = Restart(4)
  <2>1. PICK r \in {4, 7} : ctodo' = Restart(r)
    BY <1>8
  <2>2. r \in {1, 4, 7} /\ r \in 0..7 /\ 0 <= r
    OBVIOUS
  <2>3. ctodo' = Rest(Restart(r), 0)
    BY <1>6, <2>1, <2>2
  <2>4. \A i \in 1..7 : i > r => Follows[Nth[i]] = {}
    <3>1. \A i \in 1..7 : Follows[Nth[i]] # {} => i <= 4
      BY FollowsCases
    <3> QED BY <2>2, <3>1
  <2>5. Fresh(0, {}) => Fresh(r, {})'
    BY <1>5, <2>2, <2>4
  <2> QED BY <1>6, <2>2, <2>3, <2>5 DEF CommandAt, NoStart
<1>9. CASE ctodo' = Restart(1) /\ changed \subseteq {<<"strm", "codec">>, <<"strm", "rate">>}
  <2>1. \A i \in 1..7 : i > 1 => \A u \in Follows[Nth[i]] : u \notin changed
    BY <1>9, FollowsCases
  <2>2. Fresh(0, {}) => Fresh(1, {})'
    BY <1>5, <2>1
  <2>3. ctodo' = Rest(Restart(1), 0) /\ 0 <= 1
    BY <1>6, <1>9
  <2> QED BY <1>6, <2>2, <2>3 DEF CommandAt, NoStart
<1>10. CASE \E n \in {"CHN", "IVA", "ENC"} :
              ctodo' = <<RootCall("set", n)>> /\ changed \subseteq {SetFor[n]}
  <2>1. PICK n \in {"CHN", "IVA", "ENC"} :
              ctodo' = <<RootCall("set", n)>> /\ changed \subseteq {SetFor[n]}
    BY <1>10
  <2>2. SetThen(n, <<>>)'
    <3> DEFINE c == RootCall("set", n)
    <3>1. ctodo' = <<c>>
      BY <2>1
    <3> HIDE DEF c
    <3>2. ctodo' # <<>> /\ Head(ctodo') = c /\ Tail(ctodo') = <<>>
      BY <3>1
    <3> QED BY <3>2 DEF SetThen, c
  <2>3. Fresh(0, {}) => Fresh(0, {SetFor[n]})'
    BY <1>5, <2>1
  <2> QED BY <2>2, <2>3 DEF CommandAt, NoStart
<1>11. CASE /\ ctodo' = <<RootCall("set", "CHN"), RootCall("set", "ENC")>>
            /\ changed \subseteq {SetFor["CHN"], SetFor["ENC"]}
  <2>1. SetThen("CHN", <<RootCall("set", "ENC")>>)'
    <3> DEFINE c == RootCall("set", "CHN")
               d == RootCall("set", "ENC")
    <3>1. ctodo' = <<c, d>>
      BY <1>11
    <3> HIDE DEF c, d
    <3>2. ctodo' # <<>> /\ Head(ctodo') = c /\ Tail(ctodo') = <<d>>
      BY <3>1
    <3> QED BY <3>2 DEF SetThen, c, d
  <2>2. Fresh(0, {}) => Fresh(0, {SetFor["CHN"], SetFor["ENC"]})'
    BY <1>5, <1>11
  <2> QED BY <2>1, <2>2 DEF CommandAt, NoStart
<1>12. CASE /\ ctodo' = <<RootCall("set", "CHN")>> \o Restart(1)
            /\ changed \subseteq {SetFor["CHN"], <<"strm", "codec">>, <<"strm", "rate">>}
  <2>1. "CHN" \in Nodes /\ Restart(1) \in Seq(CallsType)
    BY RestartTyped DEF Nodes
  <2>2. SetThen("CHN", Restart(1))'
    <3>1. ctodo' # <<>> /\ Head(ctodo') = RootCall("set", "CHN") /\ Tail(ctodo') = Restart(1)
      BY <1>12, <2>1, SetAhead
    <3> QED BY <3>1 DEF SetThen
  <2>3. \A i \in 1..7 : i > 1 => \A u \in Follows[Nth[i]] : u \in changed => u \in {SetFor["CHN"]}
    <3>1. \A i \in 1..7 : i > 1 => \A u \in Follows[Nth[i]] :
             u # <<"strm", "codec">> /\ u # <<"strm", "rate">>
      BY FollowsCases
    <3> QED BY <1>12, <3>1
  <2>4. Fresh(0, {}) => Fresh(1, {SetFor["CHN"]})'
    BY <1>5, <2>3
  <2> QED BY <2>2, <2>4 DEF CommandAt, NoStart
<1> QED BY <1>4, <1>7, <1>8, <1>9, <1>10, <1>11, <1>12 DEF Planned

\* Between two commands all nodes run, with g_conf.
LEMMA NoCommand ==
    ASSUME NEW k \in 0..7, CommandAt(k), ctodo = <<>>
    PROVE  k = 0 /\ Fresh(0, {})
<1>1. CASE ctodo = CallsOf("start", NodesAt(k)) /\ Fresh(0, {})
  BY <1>1, NodesAtNone
<1>2. \A r \in {1, 4, 7} : k <= r => ctodo # Rest(Restart(r), k)
  <2> TAKE r \in {1, 4, 7}
  <2> HAVE k <= r
  <2>1. k \in 0..r
    OBVIOUS
  <2> QED BY <2>1, RestartSteps
<1> QED BY <1>1, <1>2 DEF CommandAt, SetThen

\* The calls of CORE_exit, one by one.
LEMMA LeaveSteps ==
    ASSUME NEW k \in 0..7
    PROVE  /\ Rest(LeaveAll, 0) = LeaveAll /\ (Rest(LeaveAll, k) = <<>> <=> k = 7)
           /\ k < 7 => /\ Head(Rest(LeaveAll, k)) = PlainCall("stop", Nth[k + 1])
                       /\ Tail(Rest(LeaveAll, k)) = Rest(LeaveAll, k + 1)
<1>1. LeaveAll \in Seq(CallsType) /\ Len(LeaveAll) = 7 /\ k \in 0..Len(LeaveAll)
      /\ 0 \in 0..Len(LeaveAll)
  BY LeaveAllTyped
<1> HIDE DEF LeaveAll
<1>4. Rest(LeaveAll, 0) = LeaveAll
  BY <1>1, RestSteps
<1>2. /\ (Rest(LeaveAll, k) = <<>> <=> k = 7)
      /\ k < 7 => /\ Head(Rest(LeaveAll, k)) = LeaveAll[k + 1]
                  /\ Tail(Rest(LeaveAll, k)) = Rest(LeaveAll, k + 1)
  <2> DEFINE s == LeaveAll
  <2>1. s \in Seq(CallsType) /\ k \in 0..Len(s) /\ Len(s) = 7
    BY <1>1
  <2> HIDE DEF s
  <2>2. /\ (Rest(s, k) = <<>> <=> k = Len(s))
        /\ k < Len(s) => Head(Rest(s, k)) = s[k + 1] /\ Tail(Rest(s, k)) = Rest(s, k + 1)
    BY <2>1, RestSteps
  <2>3. /\ (Rest(s, k) = <<>> <=> k = 7)
        /\ k < 7 => Head(Rest(s, k)) = s[k + 1] /\ Tail(Rest(s, k)) = Rest(s, k + 1)
    BY <2>1, <2>2
  <2> QED BY <2>3 DEF s
<1>3. k < 7 => k + 1 \in 1..7
  OBVIOUS
<1> QED BY <1>2, <1>3, <1>4, LeaveAllTyped

\* main() takes the nodes down, one by one.
LEMMA LeaveCall ==
    ASSUME StateInv, Traverse, main = "leave", NEW k \in 0..7, mtodo = Rest(LeaveAll, k)
    PROVE  /\ k \in 0..6 /\ mtodo' = Rest(LeaveAll, k + 1)
           /\ \E c \in CallsType, a \in {"ok", "fail", "skip"} :
                 c.do = "stop" /\ c.node = Nth[k + 1] /\ CallNode(c, a)
<1> DEFINE c == Head(mtodo)
<1>1. PICK a \in {"ok", "fail", "skip"} : CallNode(c, a) /\ mtodo' = AfterMain(a)
  BY DEF Traverse
<1>2. mtodo # <<>> /\ mtodo \in Seq(CallsType)
  BY DEF Traverse, StateInv
<1>3. c \in CallsType /\ <<>> \o Tail(mtodo) = Tail(mtodo)
  BY <1>2, ListsTyped
<1>4. k # 7 /\ k \in 0..6
  <2>1. k # 7
    BY <1>2, LeaveSteps
  <2> QED BY <2>1
<1>5. c = PlainCall("stop", Nth[k + 1]) /\ Tail(mtodo) = Rest(LeaveAll, k + 1)
  <2>1. k < 7
    BY <1>4
  <2> QED BY <2>1, LeaveSteps
<1>6. c.do = "stop" /\ c.node = Nth[k + 1]
  BY <1>5, CallIs
<1>7. mtodo' = Rest(LeaveAll, k + 1)
  BY <1>1, <1>3, <1>5, <1>6 DEF AfterMain
<1> HIDE DEF c
<1> QED BY <1>1, <1>3, <1>4, <1>6, <1>7

\* main() and the thread, where something can be started.
LEMMA WorkStep ==
    ASSUME StateInv, BootInv, WorkInv, Next
    PROVE  WorkInv'
<1> DEFINE At == \E k \in 0..7 : CommandAt(k) /\ Level(k) /\ NoChannel(k)
           Down == \E k \in 0..7 : mtodo = Rest(LeaveAll, k) /\ Level(k) /\ NoChannel(k)
<1> SUFFICES ASSUME Undisturbed', "no_video" \notin flags'
             PROVE  /\ main' = "ready" \/ (main' = "leave" /\ cc' = "apply") => At'
                    /\ main' = "leave" /\ cc' = "apply" => mtodo' = LeaveAll
                    /\ main' = "leave" /\ cc' # "apply" => Down'
                    /\ main' = "exited" => Level(7)'
  BY DEF WorkInv
<1>1. Undisturbed
  BY StaysUndisturbed
<1>2. flags' = flags
  BY DEF Next, Main, Thread, Server, Traverse, StartNodes, CreateThread, CreateFails, LeaveNodes,
         JoinThread, Signal, Connect, NoServer, Timeout, Registered, Hangup, ReceiveOther,
         Applied, Reply, Receive, Work, Go
<1>3. "no_video" \notin flags
  BY <1>2
<1>4. /\ main = "ready" \/ (main = "leave" /\ cc = "apply") => At
      /\ main = "leave" /\ cc = "apply" => mtodo = LeaveAll
      /\ main = "leave" /\ cc # "apply" => Down
      /\ main = "exited" => Level(7)
  BY <1>1, <1>3 DEF WorkInv
<1>5. /\ main \in {"init", "start", "ready", "leave", "exited"}
      /\ main \in {"init", "start"} => cc = "none"
      /\ main \in {"ready", "exited"} => mtodo = <<>>
      /\ main = "exited" => cc \in {"none", "ended"}
      /\ cc # "apply" => ctodo = <<>>
  BY DEF StateInv, TypeOK
<1>6. \A n : isSkipCase(n)' = isSkipCase(n)
  BY <1>2 DEF isSkipCase
<1>7. ASSUME UNCHANGED <<conf, st, has, exist, ctodo>>
      PROVE  (At => At') /\ (Level(7) => Level(7)') /\ (mtodo' = mtodo /\ Down => Down')
  <2>1. ASSUME NEW k \in 0..7, Level(k), NoChannel(k)
        PROVE  Level(k)' /\ NoChannel(k)'
    BY <1>6, <1>7, <2>1 DEF Level, NoChannel
  <2>2. ASSUME NEW r, NEW stale, Fresh(r, stale)
        PROVE  Fresh(r, stale)'
    BY <1>7, <2>2 DEF Fresh
  <2>3. ASSUME NEW k \in 0..7, CommandAt(k)
        PROVE  CommandAt(k)'
    <3>1. ASSUME NEW n, NEW s, SetThen(n, s)
          PROVE  SetThen(n, s)'
      BY <1>7, <3>1 DEF SetThen
    <3> QED BY <1>7, <2>2, <2>3, <3>1 DEF CommandAt
  <2>4. At => At'
    BY <2>1, <2>3
  <2>5. mtodo' = mtodo /\ Down => Down'
    BY <2>1
  <2>6. Level(7) => Level(7)'
    BY <1>6, <1>7 DEF Level
  <2> QED BY <2>4, <2>5, <2>6
<1>8. CASE Work
  <2>1. /\ cc = "apply" /\ UNCHANGED <<main, mtodo>> /\ overlap' = (overlap \/ main = "leave")
    BY <1>8 DEF Work, mainVars
  <2>2. main = "ready"
    BY <1>5, <2>1 DEF Undisturbed
  <2>3. PICK k \in 0..7 : CommandAt(k) /\ Level(k) /\ NoChannel(k)
    BY <1>4, <2>2
  <2>4. At'
    BY <1>1, <1>3, <1>8, <2>3, CommandCall
  <2> QED BY <2>1, <2>2, <2>4
<1>9. CASE Receive
  <2>1. /\ cc = "select" /\ UNCHANGED <<main, mtodo, st, has, exist>>
        /\ overlap' = (overlap \/ main = "leave")
    BY <1>9 DEF Receive, mainVars, nodeVars
  <2>2. main = "ready"
    BY <1>5, <2>1 DEF Undisturbed
  <2>3. PICK k \in 0..7 : CommandAt(k) /\ Level(k) /\ NoChannel(k)
    BY <1>4, <2>2
  <2>4. k = 0 /\ Fresh(0, {})
    BY <1>5, <2>1, <2>3, NoCommand
  <2>5. CommandAt(0)'
    BY <1>9, <2>4, ReceiveCommand
  <2>6. Level(0)' /\ NoChannel(0)'
    BY <1>6, <2>1, <2>3, <2>4 DEF Level, NoChannel
  <2> QED BY <2>1, <2>2, <2>5, <2>6
<1>10. CASE Traverse
  <2>1. /\ mtodo # <<>> /\ UNCHANGED <<main, cc, ctodo, conf>> /\ overlap' = (overlap \/ cc = "apply")
    BY <1>10 DEF Traverse, cmdVars, confVars
  <2>2. main # "ready" /\ main # "exited"
    BY <1>5, <2>1
  <2>3. cc # "apply"
    BY <2>1 DEF Undisturbed
  <2>4. CASE main = "leave"
    <3>1. PICK k \in 0..7 : mtodo = Rest(LeaveAll, k) /\ Level(k) /\ NoChannel(k)
      BY <1>4, <2>3, <2>4
    <3>2. k \in 0..6 /\ mtodo' = Rest(LeaveAll, k + 1)
      BY <1>10, <2>4, <3>1, LeaveCall
    <3>3. PICK c \in CallsType, a \in {"ok", "fail", "skip"} :
            c.do = "stop" /\ c.node = Nth[k + 1] /\ CallNode(c, a)
      BY <1>10, <2>4, <3>1, LeaveCall
    <3>4. Level(k + 1)' /\ NoChannel(k + 1)'
      BY <1>1, <1>2, <1>3, <3>1, <3>2, <3>3, StopCall
    <3>5. k + 1 \in 0..7
      BY <3>2
    <3> QED BY <2>1, <2>3, <2>4, <3>2, <3>4, <3>5
  <2> QED BY <2>1, <2>2, <2>4
<1>11. CASE CreateThread
  <2>1. /\ main = "start" /\ mtodo = <<>> /\ main' = "ready"
        /\ UNCHANGED <<conf, st, has, exist, ctodo>>
    BY <1>11 DEF CreateThread, confVars, nodeVars
  <2>2. PICK k \in 0..7 :
          mtodo = CallsOf("start", NodesAt(k)) /\ Level(k) /\ Fresh(0, {}) /\ NoChannel(k)
    BY <1>1, <2>1 DEF BootInv
  <2>3. k = 0
    BY <2>1, <2>2, NodesAtNone
  <2>4. ctodo = <<>> /\ CallsOf("start", NodesAt(0)) = <<>>
    BY <1>5, <2>1, NodesAtNone
  <2>5. CommandAt(0)
    BY <2>2, <2>4 DEF CommandAt
  <2>6. At
    BY <2>2, <2>3, <2>5
  <2> QED BY <1>7, <2>1, <2>6
<1>12. CASE LeaveNodes
  <2>1. /\ main = "ready" /\ main' = "leave" /\ mtodo' = LeaveAll /\ cc' = cc
        /\ UNCHANGED <<conf, st, has, exist, ctodo>>
    BY <1>12, LeaveCalls DEF LeaveNodes, confVars, nodeVars, cmdVars
  <2>2. At' /\ At
    BY <1>4, <1>7, <2>1
  <2>3. CASE cc = "apply"
    BY <2>1, <2>2, <2>3
  <2>4. CASE cc # "apply"
    <3>1. PICK k \in 0..7 : CommandAt(k) /\ Level(k) /\ NoChannel(k)
      BY <2>2
    <3>2. k = 0
      BY <1>5, <2>4, <3>1, NoCommand
    <3>3. Level(0)' /\ NoChannel(0)'
      BY <1>6, <2>1, <3>1, <3>2 DEF Level, NoChannel
    <3>4. LeaveAll = Rest(LeaveAll, 0) /\ 0 \in 0..7
      BY LeaveSteps
    <3> QED BY <2>1, <2>4, <3>3, <3>4
  <2> QED BY <2>3, <2>4
<1>13. CASE JoinThread
  <2>1. /\ main = "leave" /\ mtodo = <<>> /\ cc = "ended" /\ main' = "exited"
        /\ UNCHANGED <<conf, st, has, exist, ctodo>>
    BY <1>13 DEF JoinThread, confVars, nodeVars, cmdVars
  <2>2. PICK k \in 0..7 : mtodo = Rest(LeaveAll, k) /\ Level(k)
    BY <1>4, <2>1
  <2>3. k = 7
    BY <2>1, <2>2, LeaveSteps
  <2> QED BY <1>7, <2>1, <2>2, <2>3
<1>14. CASE Applied
  <2>1. /\ cc = "apply" /\ ctodo = <<>> /\ cc' = "reply"
        /\ UNCHANGED <<conf, st, has, exist, ctodo, main, mtodo>>
    BY <1>14 DEF Applied, mainVars, nodeVars
  <2>2. CASE main = "ready"
    BY <1>4, <1>7, <2>1, <2>2
  <2>3. CASE main = "leave"
    <3>1. PICK k \in 0..7 : CommandAt(k) /\ Level(k) /\ NoChannel(k)
      BY <1>4, <2>1, <2>3
    <3>2. k = 0
      BY <2>1, <3>1, NoCommand
    <3>3. Level(0)' /\ NoChannel(0)'
      BY <1>6, <2>1, <3>1, <3>2 DEF Level, NoChannel
    <3>4. mtodo' = Rest(LeaveAll, 0) /\ 0 \in 0..7
      BY <1>4, <2>1, <2>3, LeaveSteps
    <3> QED BY <2>1, <2>3, <3>3, <3>4
  <2> QED BY <1>5, <2>1, <2>2, <2>3
<1>15. CASE StartNodes \/ CreateFails
  <2>1. ~CreateFails
    BY <1>1 DEF CreateFails, Undisturbed
  <2> QED BY <1>15, <2>1 DEF StartNodes
<1>16. CASE \/ Signal \/ Connect \/ NoServer \/ Timeout \/ Registered \/ Hangup \/ ReceiveOther
            \/ Reply
  <2>1. UNCHANGED <<conf, st, has, exist, ctodo, main, mtodo>>
    BY <1>16 DEF Signal, Connect, NoServer, Timeout, Registered, Hangup, ReceiveOther, Reply, Go,
                 confVars, nodeVars, mainVars, cmdVars
  <2>2. cc' = cc \/ (cc # "apply" /\ cc' # "apply")
    BY <1>16 DEF Signal, Connect, NoServer, Timeout, Registered, Hangup, ReceiveOther, Reply, Go,
                 LoopTop, cmdVars
  <2> QED BY <1>4, <1>7, <2>1, <2>2
<1> QED BY <1>8, <1>9, <1>10, <1>11, <1>12, <1>13, <1>14, <1>15, <1>16 DEF Next, Main, Thread, Server

\* Without video control a command ends where it would start something.
LEMMA NoStartCall ==
    ASSUME StateInv, NodeInv, Work, Undisturbed, Undisturbed', "no_video" \in flags, NoStart,
           \A n \in Nodes : st[n] # "half"
    PROVE  NoStart' /\ \A n \in Nodes : st'[n] # "half"
<1> DEFINE c == Head(ctodo)
<1>1. PICK a \in {"ok", "fail", "skip"} :
        /\ CallNode(c, a)
        /\ IF Fails(c, a)
           THEN /\ ctodo' = <<>> /\ cc' = "reply" /\ ret' = Result(c)
                /\ Recover(c) /\ tmp' = <<>>
           ELSE /\ ctodo' = AfterCall(a)
                /\ UNCHANGED <<cc, ret, conf, tmp>>
  BY DEF Work
<1>2. ctodo # <<>> /\ flags' = flags /\ ctodo \in Seq(CallsType)
  BY DEF Work, StateInv
<1>3. c \in CallsType
  BY <1>2, ListsTyped
<1>4. AfterCall(a) = IF c.do = "start" /\ a = "ok" THEN CallsOf("start", Child[c.node]) \o Tail(ctodo)
                     ELSE Tail(ctodo)
  BY <1>2, ListsTyped DEF AfterCall
<1>5. /\ isSkipCase(c.node) => a = "skip"
      /\ InPlace(c) => a # "fail"
  BY <1>1, <1>3, Answered DEF Undisturbed
<1>6. /\ \A n \in Nodes \ {c.node} : st'[n] = st[n]
      /\ st'[c.node] = StateAfter(c, a) /\ c.node \in Nodes
  BY <1>1, <1>3, CallLeaves DEF CallsType
<1> HIDE DEF c
<1>7. ASSUME c.do \in {"stop", "set"}, c.node # "DEV" \/ a = "skip"
      PROVE  \A n \in Nodes : st'[n] # "half"
  <2>1. st[c.node] # "half"
    BY <1>6
  <2>2. c # Call("stop", "DEV", c.root) \/ a = "skip"
    BY <1>7 DEF Call
  <2>3. c.do = "stop" /\ st[c.node] = "up" => a # "fail"
    BY <1>5, <2>2 DEF InPlace
  <2>4. st'[c.node] # "half"
    BY <1>6, <1>7, <2>1, <2>3 DEF StateAfter
  <2> QED BY <1>6, <2>4
<1>8. ASSUME c.node = "DEV" PROVE a = "skip"
  <2>1. isSkipCase("DEV")
    BY NotSkipped
  <2> QED BY <1>5, <1>8, <2>1
<1>9. CASE \E r \in {1, 4, 7} : \E k \in 0..(r - 1) : ctodo = Rest(Restart(r), k)
  <2>1. PICK r \in {1, 4, 7} : \E k \in 0..(r - 1) : ctodo = Rest(Restart(r), k)
    BY <1>9
  <2>2. PICK k \in 0..(r - 1) : ctodo = Rest(Restart(r), k)
    BY <2>1
  <2>3. r \in 1..7 /\ k \in 0..r /\ k < r
    BY <2>2
  <2>4. /\ c = RestartCall(r, k + 1) /\ Tail(ctodo) = Rest(Restart(r), k + 1)
    BY <2>2, <2>3, RestartSteps DEF c
  <2>5. c.do = "stop" /\ (k + 1 = r => c.root /\ c.node = Nth[r]) /\ (k + 1 # r => ~c.root)
    BY <2>3, <2>4, CallIs DEF RestartCall
  <2>6. CASE k + 1 = r
    <3>1. isSkipCase(c.node)
      BY <2>5, <2>6, Numbering, NotSkipped
    <3>2. ctodo' = <<>>
      BY <1>1, <1>5, <2>5, <2>6, <3>1 DEF Fails
    <3> QED BY <1>7, <1>8, <2>5, <3>2 DEF NoStart
  <2>7. CASE k + 1 # r
    <3>1. ctodo' = Rest(Restart(r), k + 1)
      BY <1>1, <1>4, <2>4, <2>5, <2>7 DEF Fails
    <3>2. k + 1 \in 0..(r - 1)
      BY <2>3, <2>7
    <3>3. NoStart'
      BY <3>1, <3>2 DEF NoStart
    <3> QED BY <1>7, <1>8, <2>5, <3>3
  <2> QED BY <2>6, <2>7
<1>10. ASSUME NEW n \in {"CHN", "IVA", "ENC"}, NEW rest, SetThen(n, rest)
       PROVE  /\ \A m \in Nodes : st'[m] # "half"
              /\ ctodo' = rest \/ ctodo' = <<>>
  <2>1. c = RootCall("set", n) /\ Tail(ctodo) = rest
    BY <1>10 DEF SetThen, c
  <2>2. c.do = "set" /\ c.node = n
    BY <2>1, CallIs
  <2>3. ctodo' = rest \/ ctodo' = <<>>
    BY <1>1, <1>4, <2>1, <2>2
  <2> QED BY <1>7, <2>2, <2>3
<1>11. CASE \E n \in {"CHN", "IVA", "ENC"} : SetThen(n, <<>>)
  BY <1>10, <1>11 DEF NoStart
<1>12. CASE SetThen("CHN", <<RootCall("set", "ENC")>>)
  <2>1. ctodo' = <<RootCall("set", "ENC")>> \/ ctodo' = <<>>
    BY <1>10, <1>12
  <2>2. CASE ctodo' = <<RootCall("set", "ENC")>>
    <3> DEFINE d == RootCall("set", "ENC")
    <3>1. ctodo' = <<d>>
      BY <2>2
    <3> HIDE DEF d
    <3>2. ctodo' # <<>> /\ Head(ctodo') = d /\ Tail(ctodo') = <<>>
      BY <3>1
    <3>3. SetThen("ENC", <<>>)'
      BY <3>2 DEF SetThen, d
    <3>4. NoStart'
      BY <3>3 DEF NoStart
    <3> QED BY <1>10, <1>12, <3>4
  <2>3. CASE ctodo' = <<>>
    BY <1>10, <1>12, <2>3 DEF NoStart
  <2> QED BY <2>1, <2>2, <2>3
<1>13. CASE SetThen("CHN", Restart(1))
  <2>1. Rest(Restart(1), 0) = Restart(1) /\ 0 \in 0..(1 - 1)
    <3>1. 0 \in 0..1 /\ 0 \in 0..(1 - 1)
      OBVIOUS
    <3> QED BY <3>1, RestartSteps
  <2>2. ctodo' = Restart(1) \/ ctodo' = <<>>
    BY <1>10, <1>13
  <2>3. NoStart'
    BY <2>1, <2>2 DEF NoStart
  <2> QED BY <1>10, <1>13, <2>3
<1> QED BY <1>2, <1>9, <1>11, <1>12, <1>13 DEF NoStart

\* main() and the thread without video control.
LEMMA NoVideoStep ==
    ASSUME StateInv, NodeInv, BootInv, NoVideoInv, Next
    PROVE  NoVideoInv'
<1> DEFINE Down == \E k \in 0..7 : mtodo = Rest(LeaveAll, k) /\ \A i \in 1..k : st[Nth[i]] # "up"
<1> SUFFICES ASSUME Undisturbed', "no_video" \in flags'
             PROVE  /\ main' \in {"ready", "leave"} => NoStart'
                    /\ main' \in {"ready", "leave", "exited"} => \A n \in Nodes : st'[n] # "half"
                    /\ main' = "leave" => Down'
                    /\ main' = "exited" => \A n \in Nodes : st'[n] # "up"
  BY DEF NoVideoInv
<1>1. Undisturbed
  BY StaysUndisturbed
<1>2. flags' = flags
  BY DEF Next, Main, Thread, Server, Traverse, StartNodes, CreateThread, CreateFails, LeaveNodes,
         JoinThread, Signal, Connect, NoServer, Timeout, Registered, Hangup, ReceiveOther,
         Applied, Reply, Receive, Work, Go
<1>3. "no_video" \in flags
  BY <1>2
<1>4. /\ main \in {"ready", "leave"} => NoStart
      /\ main \in {"ready", "leave", "exited"} => \A n \in Nodes : st[n] # "half"
      /\ main = "leave" => Down
      /\ main = "exited" => \A n \in Nodes : st[n] # "up"
  BY <1>1, <1>3 DEF NoVideoInv
<1>5. /\ main \in {"init", "start", "ready", "leave", "exited"}
      /\ main \in {"init", "start"} => cc = "none"
      /\ main \in {"ready", "exited"} => mtodo = <<>>
      /\ main = "exited" => cc \in {"none", "ended"}
      /\ cc # "apply" => ctodo = <<>>
  BY DEF StateInv, TypeOK
<1>6. ASSUME ctodo' = ctodo
      PROVE  NoStart => NoStart'
  <2>1. ASSUME NEW n, NEW s, SetThen(n, s)
        PROVE  SetThen(n, s)'
    BY <1>6, <2>1 DEF SetThen
  <2> QED BY <1>6, <2>1 DEF NoStart
<1>8. CASE Work
  <2>1. /\ cc = "apply" /\ UNCHANGED <<main, mtodo>> /\ overlap' = (overlap \/ main = "leave")
    BY <1>8 DEF Work, mainVars
  <2>2. main = "ready"
    BY <1>5, <2>1 DEF Undisturbed
  <2>3. NoStart' /\ \A n \in Nodes : st'[n] # "half"
    BY <1>1, <1>3, <1>4, <1>8, <2>2, NoStartCall
  <2> QED BY <2>1, <2>2, <2>3
<1>9. CASE Receive
  <2>1. /\ cc = "select" /\ UNCHANGED <<main, mtodo, st>> /\ overlap' = (overlap \/ main = "leave")
    BY <1>9 DEF Receive, mainVars, nodeVars
  <2>2. main = "ready"
    BY <1>5, <2>1 DEF Undisturbed
  <2>3. NoStart'
    BY <1>9, ReceiveCommand
  <2> QED BY <1>4, <2>1, <2>2, <2>3
<1>10. CASE Traverse
  <2>1. mtodo # <<>> /\ UNCHANGED <<main, cc, ctodo>>
    BY <1>10 DEF Traverse, cmdVars
  <2>2. main # "ready" /\ main # "exited"
    BY <1>5, <2>1
  <2>3. CASE main = "leave"
    <3>1. PICK k \in 0..7 : mtodo = Rest(LeaveAll, k) /\ \A i \in 1..k : st[Nth[i]] # "up"
      BY <1>4, <2>3
    <3>2. k \in 0..6 /\ mtodo' = Rest(LeaveAll, k + 1)
      BY <1>10, <2>3, <3>1, LeaveCall
    <3>3. PICK c \in CallsType, a \in {"ok", "fail", "skip"} :
            c.do = "stop" /\ c.node = Nth[k + 1] /\ CallNode(c, a)
      BY <1>10, <2>3, <3>1, LeaveCall
    <3>4. /\ \A n \in Nodes \ {c.node} : st'[n] = st[n]
          /\ st'[c.node] = StateAfter(c, a) /\ c.node \in Nodes
      BY <3>3, CallLeaves DEF CallsType
    <3>5. /\ isSkipCase(c.node) => a = "skip"
          /\ ~isSkipCase(c.node) => a \in {"ok", "fail"}
          /\ InPlace(c) => a # "fail"
      BY <1>1, <3>3, Answered DEF Undisturbed
    <3>6. isSkipCase(c.node) => st[c.node] = "none"
      BY <3>4 DEF NodeInv
    <3>7. st[c.node] = "up" => a # "fail"
      <4>1. c.node = "DEV" => isSkipCase(c.node)
        BY <1>3, NotSkipped
      <4>2. c = Call("stop", "DEV", c.root) => c.node = "DEV"
        BY DEF Call
      <4>3. st[c.node] = "up" => InPlace(c)
        BY <3>3, <3>6, <4>1, <4>2 DEF InPlace
      <4> QED BY <3>5, <4>3
    <3>8. st'[c.node] \notin {"up", "half"}
      <4>1. st[c.node] \in {"none", "down", "half", "up"} /\ st[c.node] # "half"
        BY <1>4, <2>3, <3>4 DEF StateInv, TypeOK
      <4> QED BY <3>3, <3>4, <3>5, <3>6, <3>7, <4>1 DEF StateAfter
    <3>9. \A i \in 1..(k + 1) : st'[Nth[i]] # "up"
      <4> TAKE i \in 1..(k + 1)
      <4>1. Nth[i] \in Nodes
        BY <3>2, Numbering
      <4>2. CASE i = k + 1
        BY <3>3, <3>8, <4>2
      <4>3. CASE i \in 1..k
        BY <3>1, <3>4, <3>8, <4>1, <4>3
      <4>4. i = k + 1 \/ i \in 1..k
        BY <3>2
      <4> QED BY <4>2, <4>3, <4>4
    <3>10. \A n \in Nodes : st'[n] # "half"
      BY <1>4, <2>3, <3>4, <3>8
    <3>11. k + 1 \in 0..7
      BY <3>2
    <3>12. Down'
      BY <3>2, <3>9, <3>11
    <3> QED BY <1>4, <1>6, <2>1, <2>3, <3>10, <3>12
  <2> QED BY <2>1, <2>2, <2>3
<1>11. CASE CreateThread
  <2>1. /\ main = "start" /\ mtodo = <<>> /\ main' = "ready" /\ UNCHANGED <<st, ctodo>>
    BY <1>11 DEF CreateThread, confVars, nodeVars
  <2>2. PICK k \in 0..7 : mtodo = CallsOf("start", NodesAt(k)) /\ Level(k)
    BY <1>1, <2>1 DEF BootInv
  <2>3. ctodo' = <<>>
    BY <1>5, <2>1
  <2>4. \A n \in Nodes : st'[n] # "half"
    BY <2>1, <2>2, Numbering DEF Level
  <2> QED BY <2>1, <2>3, <2>4 DEF NoStart
<1>12. CASE LeaveNodes
  <2>1. /\ main = "ready" /\ main' = "leave" /\ mtodo' = LeaveAll /\ UNCHANGED <<st, ctodo>>
    BY <1>12, LeaveCalls DEF LeaveNodes, nodeVars, cmdVars
  <2>2. mtodo' = Rest(LeaveAll, 0) /\ 0 \in 0..7 /\ 1..0 = {}
    BY <2>1, LeaveSteps
  <2>3. Down'
    BY <2>2
  <2> QED BY <1>4, <1>6, <2>1, <2>3
<1>13. CASE JoinThread
  <2>1. /\ main = "leave" /\ mtodo = <<>> /\ main' = "exited" /\ st' = st
    BY <1>13 DEF JoinThread, nodeVars
  <2>2. PICK k \in 0..7 : mtodo = Rest(LeaveAll, k) /\ \A i \in 1..k : st[Nth[i]] # "up"
    BY <1>4, <2>1
  <2>3. k = 7
    BY <2>1, <2>2, LeaveSteps
  <2>4. \A n \in Nodes : st[n] # "up"
    BY <2>2, <2>3, Numbering
  <2> QED BY <1>4, <2>1, <2>4
<1>14. CASE StartNodes \/ CreateFails
  <2>1. ~CreateFails
    BY <1>1 DEF CreateFails, Undisturbed
  <2> QED BY <1>14, <2>1 DEF StartNodes
<1>15. CASE \/ Signal \/ Connect \/ NoServer \/ Timeout \/ Registered \/ Hangup \/ ReceiveOther
            \/ Reply \/ Applied
  <2>1. UNCHANGED <<st, ctodo, main, mtodo>>
    BY <1>15 DEF Signal, Connect, NoServer, Timeout, Registered, Hangup, ReceiveOther, Reply,
                 Applied, Go, nodeVars, mainVars, cmdVars
  <2>2. Down => Down'
    BY <2>1
  <2> QED BY <1>4, <1>6, <2>1, <2>2
<1> QED BY <1>8, <1>9, <1>10, <1>11, <1>12, <1>13, <1>14, <1>15 DEF Next, Main, Thread, Server

\* Without video control: between two commands all that is not skipped runs, with g_conf.
LEMMA SparedIdle ==
    ASSUME Spared, ctodo = <<>>
    PROVE  Level(0) /\ Fresh(0, {})
<1>1. \A r \in {4, 7} : \A k \in 0..(r - 1) : ctodo # Rest(Restart(r), k)
  <2> TAKE r \in {4, 7}
  <2> TAKE k \in 0..(r - 1)
  <2>1. r \in {1, 4, 7} /\ k \in 0..r
    OBVIOUS
  <2> QED BY <2>1, RestartSteps
<1>2. ~SetThen("IVA", <<>>)
  BY DEF SetThen
<1> QED BY <1>1, <1>2 DEF Spared

\* Steps that touch neither the nodes nor a command under way.
LEMMA SparedStays ==
    ASSUME Spared, UNCHANGED <<flags, conf, st, has, ctodo>>,
           ctodo = <<>> \/ UNCHANGED <<tmp, cmd>>
    PROVE  Spared'
<1>1. \A n : isSkipCase(n)' = isSkipCase(n)
  BY DEF isSkipCase
<1>2. Level(0) => Level(0)'
  BY <1>1 DEF Level
<1>3. ASSUME NEW stale, Fresh(0, stale)
      PROVE  Fresh(0, stale)'
  BY <1>3 DEF Fresh
<1>4. CASE ctodo = <<>>
  <2>1. Level(0)' /\ Fresh(0, {})'
    BY <1>2, <1>3, <1>4, SparedIdle
  <2>2. Harmless'
    BY <1>4 DEF Harmless
  <2> QED BY <2>1, <2>2 DEF Spared
<1>5. CASE UNCHANGED <<tmp, cmd>>
  <2>1. ASSUME NEW n, NEW s, SetThen(n, s)
        PROVE  SetThen(n, s)'
    BY <2>1 DEF SetThen
  <2>2. Harmless => Harmless'
    BY <1>5, <2>1 DEF Harmless
  <2> QED BY <1>2, <1>3, <2>1, <2>2 DEF Spared
<1> QED BY <1>4, <1>5

\* What recovers a record that says the same to the nodes that run disturbs none of them.
LEMMA RecoverSpares ==
    ASSUME StateInv, cc = "apply", NEW c, c.node = "ENC", Recover(c),
           UNCHANGED <<st, has>>, Level(0), Fresh(0, {}), "no_video" \in flags,
           \A i \in 2..3 : \A u \in Follows[Nth[i]] :
              u[1] = cmd.kind => tmp[u[2]] = conf[u[1]][u[2]]
    PROVE  Fresh(0, {})'
<1> SUFFICES ASSUME NEW i \in 1..7, st[Nth[i]] = "up", NEW u \in Follows[Nth[i]]
             PROVE  has[Nth[i]][u] = conf'[u[1]][u[2]]
  BY DEF Fresh
<1>1. has[Nth[i]][u] = conf[u[1]][u[2]]
  BY DEF Fresh
<1>2. i \in 2..3
  <2>1. i <= 4 /\ ~isSkipCase(Nth[i])
    BY FollowsCases DEF Level
  <2>2. isSkipCase(Nth[1]) /\ isSkipCase(Nth[4])
    BY Numbering, NotSkipped
  <2> QED BY <2>1, <2>2
<1>3. u[1] = cmd.kind => tmp[u[2]] = conf[u[1]][u[2]]
  BY <1>2
<1>4. conf \in [strm : Held.strm, layout : Held.layout, od : Held.od]
  BY DEF StateInv, TypeOK
<1>8. u[1] \in {"strm", "layout", "od"}
  BY FollowsCases
<1>5. CASE cmd.kind = "strm"
  <2>1. conf' = [conf EXCEPT !.strm = tmp]
    BY <1>5 DEF Recover
  <2>2. conf'[u[1]] = IF u[1] = "strm" THEN tmp ELSE conf[u[1]]
    BY <1>4, <1>8, <2>1
  <2> QED BY <1>1, <1>3, <1>5, <2>2
<1>6. CASE cmd.kind = "layout"
  <2>1. conf' = [conf EXCEPT !.layout = tmp]
    BY <1>6 DEF Recover
  <2>2. conf'[u[1]] = IF u[1] = "layout" THEN tmp ELSE conf[u[1]]
    BY <1>4, <1>8, <2>1
  <2> QED BY <1>1, <1>3, <1>6, <2>2
<1>7. CASE cmd.kind \notin {"strm", "layout"}
  BY <1>1, <1>7 DEF Recover
<1> QED BY <1>5, <1>6, <1>7

\* Without video control a call leaves what is not skipped as it is, but for a set of IVA
\* and the stops of a restart, which ends at its root.
LEMMA SparedCall ==
    ASSUME StateInv, Work, Undisturbed, Undisturbed', "no_video" \in flags, ~dropped', Spared
    PROVE  Spared'
<1> DEFINE c == Head(ctodo)
<1>1. PICK a \in {"ok", "fail", "skip"} :
        /\ CallNode(c, a)
        /\ dropped' = (dropped \/ Drops(c, a))
        /\ IF Fails(c, a)
           THEN /\ ctodo' = <<>> /\ cc' = "reply" /\ ret' = Result(c)
                /\ Recover(c) /\ tmp' = <<>>
           ELSE /\ ctodo' = AfterCall(a)
                /\ UNCHANGED <<cc, ret, conf, tmp>>
  BY DEF Work
<1>2. ctodo # <<>> /\ flags' = flags /\ ctodo \in Seq(CallsType) /\ cc = "apply" /\ cmd' = cmd
  BY DEF Work, StateInv
<1>3. c \in CallsType
  BY <1>2, ListsTyped
<1>4. AfterCall(a) = IF c.do = "start" /\ a = "ok" THEN CallsOf("start", Child[c.node]) \o Tail(ctodo)
                     ELSE Tail(ctodo)
  BY <1>2, ListsTyped DEF AfterCall
<1>5. isSkipCase(c.node) => a = "skip"
  BY <1>1, <1>3, Answered DEF Undisturbed
<1>6. ~Drops(c, a)
  BY <1>1
<1> HIDE DEF c
<1>7. CASE \E r \in {4, 7} : \E k \in 0..(r - 1) : ctodo = Rest(Restart(r), k)
  <2>1. PICK r \in {4, 7} : \E k \in 0..(r - 1) : ctodo = Rest(Restart(r), k)
    BY <1>7
  <2>2. PICK k \in 0..(r - 1) : ctodo = Rest(Restart(r), k)
    BY <2>1
  <2>3. r \in 1..7 /\ k \in 0..r /\ k < r /\ r \in {1, 4, 7}
    BY <2>2
  <2>4. /\ c = RestartCall(r, k + 1) /\ Tail(ctodo) = Rest(Restart(r), k + 1)
    BY <2>2, <2>3, RestartSteps DEF c
  <2>5. c.do = "stop" /\ (k + 1 = r => c.root /\ c.node = Nth[r]) /\ (k + 1 # r => ~c.root)
    BY <2>3, <2>4, CallIs DEF RestartCall
  <2>6. k + 1 # r
    <3> SUFFICES ASSUME k + 1 = r PROVE FALSE
      OBVIOUS
    <3>1. c.node \in {"CHN", "VB"}
      BY <2>5, Numbering
    <3>2. a = "skip" /\ Child[c.node] # <<>>
      <4>1. isSkipCase(c.node)
        BY <3>1, NotSkipped
      <4>2. <<"DEV">> # <<>> /\ <<"WIN_IMAGE_PREFERENCE", "IVA", "ENC">> # <<>>
        OBVIOUS
      <4>3. Child["VB"] # <<>> /\ Child["CHN"] # <<>>
        BY <4>2, ChildOf
      <4> QED BY <1>5, <3>1, <4>1, <4>3
    <3>3. Fails(c, a)
      BY <2>5, <3>2, Zenon DEF Fails
    <3> QED BY <1>6, <3>2, <3>3, Zenon DEF Drops
  <2>7. ctodo' = Rest(Restart(r), k + 1)
    BY <1>1, <1>4, <2>4, <2>5, <2>6 DEF Fails
  <2>8. k + 1 \in 0..(r - 1)
    BY <2>3, <2>6
  <2> QED BY <2>7, <2>8 DEF Spared
<1>8. ASSUME NEW n \in {"CHN", "IVA", "ENC"}, NEW rest, SetThen(n, rest), Level(0)
      PROVE  /\ ctodo' = rest /\ Level(0)' /\ UNCHANGED <<conf, tmp>>
             /\ Fresh(0, {SetFor[n]}) => Fresh(0, {})'
  <2>1. c = RootCall("set", n) /\ Tail(ctodo) = rest /\ c.do = "set"
    BY <1>8, CallIs DEF SetThen, c
  <2>2. /\ a # "fail" /\ Level(0)'
        /\ conf' = conf => \A r, stale : Fresh(r, stale \cup {SetFor[n]}) => Fresh(r, stale)'
    BY <1>1, <1>2, <1>3, <1>8, <2>1, SetCall
  <2>3. ctodo' = AfterCall(a) /\ conf' = conf /\ tmp' = tmp
    BY <1>1, <2>1, <2>2 DEF Fails
  <2>4. ctodo' = rest
    BY <1>4, <2>1, <2>3
  <2>5. {} \cup {SetFor[n]} = {SetFor[n]}
    OBVIOUS
  <2> QED BY <2>2, <2>3, <2>4, <2>5
<1>9. CASE SetThen("IVA", <<>>) /\ Level(0) /\ Fresh(0, {SetFor["IVA"]})
  <2>1. ctodo' = <<>> /\ Level(0)' /\ Fresh(0, {})'
    BY <1>8, <1>9
  <2> QED BY <2>1 DEF Spared, Harmless
<1>10. \A stale : Fresh(0, {}) => Fresh(0, stale)
  BY DEF Fresh
<1>11. CASE Harmless /\ Level(0) /\ Fresh(0, {})
  <2>1. CASE \E n \in {"CHN", "ENC"} : SetThen(n, <<>>)
    <3>1. ctodo' = <<>> /\ Level(0)' /\ Fresh(0, {})'
      BY <1>8, <1>10, <1>11, <2>1
    <3> QED BY <3>1 DEF Spared, Harmless
  <2>2. CASE SetThen("CHN", <<RootCall("set", "ENC")>>)
    <3> DEFINE d == RootCall("set", "ENC")
    <3>1. ctodo' = <<d>> /\ Level(0)' /\ Fresh(0, {})'
      BY <1>8, <1>10, <1>11, <2>2
    <3> HIDE DEF d
    <3>2. ctodo' # <<>> /\ Head(ctodo') = d /\ Tail(ctodo') = <<>>
      BY <3>1
    <3>3. SetThen("ENC", <<>>)'
      BY <3>2 DEF SetThen, d
    <3> QED BY <3>1, <3>3 DEF Spared, Harmless
  <2>3. ASSUME \A i \in 2..3 : \A u \in Follows[Nth[i]] :
                  u[1] = cmd.kind => tmp[u[2]] = conf[u[1]][u[2]]
        PROVE  /\ ctodo = Restart(1) => Spared'
               /\ SetThen("CHN", Restart(1)) => Spared'
    <3>1. CASE ctodo = Restart(1)
      <4>1. 0 \in 0..1 /\ 0 + 1 = 1
        OBVIOUS
      <4>2. ctodo = Rest(Restart(1), 0) /\ c = RestartCall(1, 1)
        BY <3>1, <4>1, RestartSteps DEF c
      <4>3. c.do = "stop" /\ c.root /\ c.node = "ENC"
        BY <4>2, CallIs, Numbering DEF RestartCall
      <4>4. a = "skip" /\ Fails(c, a)
        BY <1>5, <4>3, NotSkipped DEF Fails
      <4>5. ctodo' = <<>> /\ Recover(c)
        BY <1>1, <4>4
      <4>6. /\ \A m \in Nodes \ {"ENC"} : st'[m] = st[m] /\ has'[m] = has[m]
            /\ st'["ENC"] = StateAfter(c, a) /\ has'["ENC"] \in HasAfter(c, a)
        BY <1>1, <1>3, <4>3, CallLeaves
      <4>7. st["ENC"] = "none" /\ has["ENC"] = <<>>
        <5>1. st[Nth[1]] = "none"
          BY <1>11, Numbering, NotSkipped DEF Level
        <5> QED BY <5>1, Numbering DEF StateInv, TypeOK, Nodes
      <4>8. st'["ENC"] = "none" /\ has'["ENC"] = <<>>
        BY <4>3, <4>4, <4>6, <4>7 DEF StateAfter, HasAfter
      <4>9. st' = st /\ has' = has
        <5>1. \A m \in Nodes : st'[m] = st[m] /\ has'[m] = has[m]
          BY <4>6, <4>7, <4>8
        <5>2. /\ st \in [Nodes -> {"none", "down", "half", "up"}] /\ has = [m \in Nodes |-> has[m]]
              /\ st' \in [Nodes -> {"none", "down", "half", "up"}]
              /\ has' = [m \in Nodes |-> has'[m]]
          BY WorkState DEF StateInv, TypeOK
        <5> QED BY <5>1, <5>2
      <4>10. Fresh(0, {})'
        BY <1>2, <1>11, <2>3, <4>3, <4>5, <4>9, RecoverSpares
      <4>11. Level(0)'
        <5>1. \A m : isSkipCase(m)' = isSkipCase(m)
          BY <1>2 DEF isSkipCase
        <5> QED BY <1>11, <4>9, <5>1 DEF Level
      <4> QED BY <4>5, <4>10, <4>11 DEF Spared, Harmless
    <3>2. CASE SetThen("CHN", Restart(1))
      <4>1. ctodo' = Restart(1) /\ Level(0)' /\ Fresh(0, {})' /\ UNCHANGED <<conf, tmp, cmd>>
        BY <1>2, <1>8, <1>10, <1>11, <3>2
      <4>2. Harmless'
        BY <2>3, <4>1 DEF Harmless
      <4> QED BY <4>1, <4>2 DEF Spared
    <3> QED BY <3>1, <3>2
  <2> QED BY <1>2, <1>11, <2>1, <2>2, <2>3 DEF Harmless
<1> QED BY <1>7, <1>9, <1>11 DEF Spared

\* Without video control: what a command leads to, and what it leaves the nodes to follow.
LEMMA SparedReceive ==
    ASSUME StateInv, Receive, "no_video" \in flags, Spared
    PROVE  Spared'
<1>1. PICK kind \in Kinds : \E new \in Asked[kind] :
        /\ conf' = [conf EXCEPT ![kind] = new]
        /\ Planned(ctodo', Changed(kind, conf[kind], new))
        /\ cmd'.kind = kind /\ tmp' = conf[kind]
  BY ReceiveState
<1>2. PICK new \in Asked[kind] :
        /\ conf' = [conf EXCEPT ![kind] = new]
        /\ Planned(ctodo', Changed(kind, conf[kind], new))
        /\ cmd'.kind = kind /\ tmp' = conf[kind]
  BY <1>1
<1>3. PICK changed : changed = Changed(kind, conf[kind], new)
  OBVIOUS
<1>4. Planned(ctodo', changed) /\ UNCHANGED <<flags, st, has>>
  BY <1>2, <1>3 DEF Receive, nodeVars
<1>5. Level(0) /\ Fresh(0, {})
  <2>1. ctodo = <<>>
    BY DEF Receive, StateInv
  <2> QED BY <2>1, SparedIdle
<1>6. Level(0)' /\ Fresh(0, changed)'
  <2>1. \A m : isSkipCase(m)' = isSkipCase(m)
    BY <1>4 DEF isSkipCase
  <2>2. Level(0)'
    BY <1>4, <1>5, <2>1 DEF Level
  <2> QED BY <1>2, <1>3, <1>4, <1>5, <2>2, ReceiveFresh
<1>7. ASSUME changed \subseteq {<<"strm", "fps">>, <<"strm", "codec">>, <<"strm", "rate">>}
      PROVE  /\ Fresh(0, {})'
             /\ \A i \in 2..3 : \A u \in Follows[Nth[i]] :
                   u[1] = cmd'.kind => tmp'[u[2]] = conf'[u[1]][u[2]]
  <2>1. ASSUME NEW i \in 1..7, i # 1, i # 4, NEW u \in Follows[Nth[i]]
        PROVE  u \notin changed
    BY <1>7, <2>1, FollowsCases
  <2>2. Fresh(0, {})'
    <3> SUFFICES ASSUME NEW i \in 1..7, st'[Nth[i]] = "up", NEW u \in Follows[Nth[i]]
                 PROVE  has'[Nth[i]][u] = conf'[u[1]][u[2]]
      BY DEF Fresh
    <3>1. i # 1 /\ i # 4
      <4>1. isSkipCase(Nth[1]) /\ isSkipCase(Nth[4])
        BY Numbering, NotSkipped
      <4> QED BY <1>4, <1>5, <4>1 DEF Level
    <3>2. u \notin changed
      BY <2>1, <3>1
    <3> QED BY <1>6, <3>2 DEF Fresh
  <2>3. ASSUME NEW i \in 2..3, NEW u \in Follows[Nth[i]], u[1] = kind
        PROVE  tmp'[u[2]] = conf'[u[1]][u[2]]
    <3>1. i \in 1..7 /\ i # 1 /\ i # 4
      OBVIOUS
    <3>2. u \in {kind} \X (DOMAIN new \ {"unseen"}) /\ u \notin changed
      BY <2>1, <2>3, <3>1, FollowsAsked
    <3>3. conf[kind][u[2]] = new[u[2]]
      BY <1>3, <3>2 DEF Changed
    <3>4. kind \in DOMAIN conf
      BY DEF StateInv, TypeOK, Kinds, Asked
    <3> QED BY <1>2, <2>3, <3>3, <3>4
  <2> QED BY <1>2, <2>2, <2>3
<1>8. CASE ctodo' = <<>> /\ changed = {}
  BY <1>6, <1>8 DEF Spared, Harmless
<1>9. CASE ctodo' = Restart(7) \/ ctodo' = Restart(4)
  <2>1. PICK r \in {4, 7} : ctodo' = Restart(r)
    BY <1>9
  <2>2. r \in {1, 4, 7} /\ 0 \in 0..r /\ 0 \in 0..(r - 1)
    OBVIOUS
  <2>3. ctodo' = Rest(Restart(r), 0)
    BY <2>1, <2>2, RestartSteps
  <2> QED BY <2>2, <2>3 DEF Spared
<1>10. CASE ctodo' = Restart(1) /\ changed \subseteq {<<"strm", "codec">>, <<"strm", "rate">>}
  BY <1>6, <1>7, <1>10 DEF Spared, Harmless
<1>11. CASE \E n \in {"CHN", "IVA", "ENC"} :
              ctodo' = <<RootCall("set", n)>> /\ changed \subseteq {SetFor[n]}
  <2>1. PICK n \in {"CHN", "IVA", "ENC"} :
              ctodo' = <<RootCall("set", n)>> /\ changed \subseteq {SetFor[n]}
    BY <1>11
  <2>2. SetThen(n, <<>>)'
    <3> DEFINE c == RootCall("set", n)
    <3>1. ctodo' = <<c>>
      BY <2>1
    <3> HIDE DEF c
    <3>2. ctodo' # <<>> /\ Head(ctodo') = c /\ Tail(ctodo') = <<>>
      BY <3>1
    <3> QED BY <3>2 DEF SetThen, c
  <2>3. CASE n = "IVA"
    <3>1. Fresh(0, {SetFor["IVA"]})'
      BY <1>6, <2>1, <2>3 DEF Fresh
    <3> QED BY <1>6, <2>2, <2>3, <3>1 DEF Spared
  <2>4. CASE n # "IVA"
    <3>1. Fresh(0, {})'
      BY <1>7, <2>1, <2>4, SetForIs
    <3>2. Harmless'
      BY <2>2, <2>4 DEF Harmless
    <3> QED BY <1>6, <3>1, <3>2 DEF Spared
  <2> QED BY <2>3, <2>4
<1>12. CASE /\ ctodo' = <<RootCall("set", "CHN"), RootCall("set", "ENC")>>
            /\ changed \subseteq {SetFor["CHN"], SetFor["ENC"]}
  <2>1. SetThen("CHN", <<RootCall("set", "ENC")>>)'
    <3> DEFINE c == RootCall("set", "CHN")
               d == RootCall("set", "ENC")
    <3>1. ctodo' = <<c, d>>
      BY <1>12
    <3> HIDE DEF c, d
    <3>2. ctodo' # <<>> /\ Head(ctodo') = c /\ Tail(ctodo') = <<d>>
      BY <3>1
    <3> QED BY <3>2 DEF SetThen, c, d
  <2>2. Fresh(0, {})'
    BY <1>7, <1>12, SetForIs
  <2>3. Harmless'
    BY <2>1 DEF Harmless
  <2> QED BY <1>6, <2>2, <2>3 DEF Spared
<1>13. CASE /\ ctodo' = <<RootCall("set", "CHN")>> \o Restart(1)
            /\ changed \subseteq {SetFor["CHN"], <<"strm", "codec">>, <<"strm", "rate">>}
  <2>1. "CHN" \in Nodes /\ Restart(1) \in Seq(CallsType)
    BY RestartTyped DEF Nodes
  <2>2. SetThen("CHN", Restart(1))'
    <3>1. ctodo' # <<>> /\ Head(ctodo') = RootCall("set", "CHN") /\ Tail(ctodo') = Restart(1)
      BY <1>13, <2>1, SetAhead
    <3> QED BY <3>1 DEF SetThen
  <2>3. changed \subseteq {<<"strm", "fps">>, <<"strm", "codec">>, <<"strm", "rate">>}
    BY <1>13, SetForIs
  <2>4. Harmless'
    BY <1>7, <2>2, <2>3 DEF Harmless
  <2> QED BY <1>6, <1>7, <2>3, <2>4 DEF Spared
<1> QED BY <1>4, <1>8, <1>9, <1>10, <1>11, <1>12, <1>13 DEF Planned

\* What main() and the thread do without video control leaves what is not skipped
\* running, up to a restart that ends at a skipped root.
LEMMA SparedStep ==
    ASSUME StateInv, BootInv, SparedInv, Next
    PROVE  SparedInv'
<1> SUFFICES ASSUME Undisturbed', "no_video" \in flags', ~dropped', main' = "ready"
             PROVE  Spared'
  BY DEF SparedInv
<1>1. Undisturbed
  BY StaysUndisturbed
<1>2. flags' = flags
  BY DEF Next, Main, Thread, Server, Traverse, StartNodes, CreateThread, CreateFails, LeaveNodes,
         JoinThread, Signal, Connect, NoServer, Timeout, Registered, Hangup, ReceiveOther,
         Applied, Reply, Receive, Work, Go
<1>3. "no_video" \in flags
  BY <1>2
<1>4. /\ main \in {"ready", "exited"} => mtodo = <<>>
      /\ main \in {"init", "start"} => cc = "none"
      /\ cc # "apply" => ctodo = <<>>
      /\ dropped \in BOOLEAN
  BY DEF StateInv, TypeOK
<1>5. ASSUME main = "ready", ~dropped PROVE Spared
  BY <1>1, <1>3, <1>5 DEF SparedInv
<1>6. CASE Work
  <2>1. main = "ready" /\ ~dropped
    BY <1>4, <1>6 DEF Work, mainVars
  <2> QED BY <1>1, <1>3, <1>5, <1>6, <2>1, SparedCall
<1>7. CASE Receive
  <2>1. main = "ready" /\ ~dropped
    BY <1>7 DEF Receive, mainVars
  <2> QED BY <1>3, <1>5, <1>7, <2>1, SparedReceive
<1>8. CASE CreateThread
  <2>1. /\ main = "start" /\ mtodo = <<>> /\ UNCHANGED <<flags, conf, tmp, st, has, ctodo>>
    BY <1>8 DEF CreateThread, confVars, nodeVars
  <2>2. PICK k \in 0..7 : mtodo = CallsOf("start", NodesAt(k)) /\ Level(k) /\ Fresh(0, {})
    BY <1>1, <2>1 DEF BootInv
  <2>3. k = 0 /\ ctodo = <<>>
    BY <1>4, <2>1, <2>2, NodesAtNone
  <2>4. Spared
    BY <2>2, <2>3 DEF Spared, Harmless
  <2> QED BY <2>1, <2>3, <2>4, SparedStays
<1>9. CASE Signal
  <2>1. /\ main = "ready" /\ ~dropped
        /\ UNCHANGED <<flags, conf, tmp, st, has, ctodo, cmd>>
    BY <1>9 DEF Signal, confVars, nodeVars, mainVars, cmdVars
  <2> QED BY <1>5, <2>1, SparedStays
<1>10. CASE \/ Connect \/ NoServer \/ Timeout \/ Registered \/ Hangup \/ ReceiveOther \/ Applied
            \/ Reply
  <2>1. /\ main = "ready" /\ ~dropped /\ ctodo = <<>>
        /\ UNCHANGED <<flags, conf, st, has, ctodo>>
    BY <1>4, <1>10 DEF Connect, NoServer, Timeout, Registered, Hangup, ReceiveOther, Applied, Reply,
                       Go, confVars, nodeVars, mainVars
  <2> QED BY <1>5, <2>1, SparedStays
<1>11. CASE Traverse \/ StartNodes \/ CreateFails \/ LeaveNodes \/ JoinThread
  BY <1>4, <1>11 DEF Traverse, StartNodes, CreateFails, LeaveNodes, JoinThread
<1> QED BY <1>6, <1>7, <1>8, <1>9, <1>10, <1>11 DEF Next, Main, Thread, Server

-----------------------------------------------------------------------------
(* The theorems. *)

\* The nodes' part of the invariant is kept by every step of the program.
LEMMA NodeStep ==
    ASSUME StateInv, NodeInv, Next
    PROVE  NodeInv'
<1>1. flags' = flags
  BY DEF Next, Main, Thread, Server, Traverse, StartNodes, CreateThread, CreateFails, LeaveNodes,
         JoinThread, Signal, Connect, NoServer, Timeout, Registered, Hangup, ReceiveOther,
         Applied, Reply, Receive, Work, Go
<1>2. CASE Traverse
  <2>1. PICK a \in {"ok", "fail", "skip"} : CallNode(Head(mtodo), a)
    BY <1>2 DEF Traverse
  <2>2. Head(mtodo) \in CallsType
    BY <1>2, ListsTyped DEF Traverse, StateInv
  <2> QED BY <1>1, <2>1, <2>2, CallNodeInv
<1>3. CASE Work
  <2>1. PICK a \in {"ok", "fail", "skip"} : CallNode(Head(ctodo), a)
    BY <1>3 DEF Work
  <2>2. Head(ctodo) \in CallsType
    BY <1>3, ListsTyped DEF Work, StateInv
  <2> QED BY <1>1, <2>1, <2>2, CallNodeInv
<1>4. CASE ~(Traverse \/ Work)
  <2>1. UNCHANGED <<st, has>>
    BY <1>4 DEF Next, Main, Thread, Server, StartNodes, CreateThread, CreateFails, LeaveNodes,
                JoinThread, Signal, Connect, NoServer, Timeout, Registered, Hangup, ReceiveOther,
                Applied, Reply, Receive, Go, nodeVars
  <2>2. \A n : isSkipCase(n)' = isSkipCase(n)
    BY <1>1 DEF isSkipCase
  <2> QED BY <2>1, <2>2 DEF NodeInv
<1> QED BY <1>2, <1>3, <1>4

\* A step of something else changes nothing.
LEMMA StutterStep ==
    ASSUME NodeInv, BootInv, WorkInv, NoVideoInv, SparedInv, UNCHANGED vars
    PROVE  NodeInv' /\ BootInv' /\ WorkInv' /\ NoVideoInv' /\ SparedInv'
<1>1. UNCHANGED <<flags, conf, tmp, st, has, exist, faults, clash, main, mtodo, cc, ctodo, cmd,
                  overlap, dropped>>
  BY DEF vars, confVars, nodeVars, mainVars, cmdVars
<1>2. \A n : isSkipCase(n)' = isSkipCase(n)
  BY <1>1 DEF isSkipCase
<1>3. NodeInv'
  BY <1>1, <1>2 DEF NodeInv
<1>4. BootInv'
  BY <1>1, <1>2 DEF BootInv, Undisturbed, Inited, Level, Fresh, NoChannel
<1>5. WorkInv'
  <2> DEFINE At == \E k \in 0..7 : CommandAt(k) /\ Level(k) /\ NoChannel(k)
             Down == \E k \in 0..7 : mtodo = Rest(LeaveAll, k) /\ Level(k) /\ NoChannel(k)
  <2>1. ASSUME NEW k \in 0..7, Level(k)
        PROVE  Level(k)'
    BY <1>1, <1>2, <2>1 DEF Level
  <2>2. ASSUME NEW k \in 0..7, NoChannel(k)
        PROVE  NoChannel(k)'
    BY <1>1, <2>2 DEF NoChannel
  <2>3. ASSUME NEW r, NEW stale, Fresh(r, stale)
        PROVE  Fresh(r, stale)'
    BY <1>1, <2>3 DEF Fresh
  <2>4. ASSUME NEW n, NEW s, SetThen(n, s)
        PROVE  SetThen(n, s)'
    BY <1>1, <2>4 DEF SetThen
  <2>5. ASSUME NEW k \in 0..7, CommandAt(k)
        PROVE  CommandAt(k)'
    BY <1>1, <2>3, <2>4, <2>5 DEF CommandAt
  <2>6. At => At'
    BY <2>1, <2>2, <2>5
  <2>7. Down => Down'
    BY <1>1, <2>1, <2>2
  <2>8. Level(7) => Level(7)'
    BY <2>1
  <2>9. Undisturbed' => Undisturbed
    BY <1>1 DEF Undisturbed
  <2> QED BY <1>1, <2>6, <2>7, <2>8, <2>9 DEF WorkInv
<1>6. NoVideoInv'
  BY <1>1 DEF NoVideoInv, Undisturbed, NoStart, SetThen
<1>7. SparedInv'
  <2>1. Undisturbed' => Undisturbed
    BY <1>1 DEF Undisturbed
  <2>2. Spared => Spared'
    BY <1>1, SparedStays
  <2> QED BY <1>1, <2>1, <2>2 DEF SparedInv
<1> QED BY <1>3, <1>4, <1>5, <1>6, <1>7

\* The whole invariant holds of the initial states.
LEMMA Initially ==
    ASSUME Init
    PROVE  NodesInv
<1>1. StateInv
  BY StateInitially
<1>2. /\ main = "init" /\ cc = "none" /\ mtodo = <<PlainCall("init", "VB")>> /\ exist = {}
      /\ \A n \in Nodes : st[n] = "none"
  BY DEF Init, PlainCall
<1>3. RootInv /\ AcceptedRuns /\ WorkInv /\ NoVideoInv /\ SparedInv
  BY <1>2 DEF RootInv, AcceptedRuns, WorkInv, NoVideoInv, SparedInv
<1>4. NodeInv
  BY <1>2 DEF NodeInv
<1>5. BootInv
  <2>1. mtodo = CallsOf("init", NodesAt(7)) /\ 7 \in 0..7
    BY <1>2, NodesAtVB
  <2>2. Inited(7)
    BY <1>2, Numbering DEF Inited
  <2> QED BY <1>2, <2>1, <2>2 DEF BootInv
<1> QED BY <1>1, <1>3, <1>4, <1>5 DEF NodesInv

\* The invariant holds in every state: where main() and the command thread are in their
\* lists of calls tells the state of every node, and that a running one works with g_conf
\* but for the fields in Missed and those the calls left are made for; as long as no call
\* failed, none met a channel left behind, the two did not overlap, and, without video
\* control, no restart ended at a skipped root.
THEOREM NodesInvariant == Spec => []NodesInv
<1>1. Init => NodesInv
  BY Initially
<1>2. NodesInv /\ [Next]_vars => NodesInv'
  <2> SUFFICES ASSUME NodesInv, [Next]_vars PROVE NodesInv'
    OBVIOUS
  <2>1. /\ StateInv /\ RootInv /\ AcceptedRuns /\ NodeInv /\ BootInv /\ WorkInv /\ NoVideoInv
        /\ SparedInv
    BY DEF NodesInv
  <2>2. StateInv' /\ RootInv' /\ AcceptedRuns'
    BY <2>1, StateStep, RootStep
  <2>3. NodeInv' /\ BootInv' /\ WorkInv' /\ NoVideoInv' /\ SparedInv'
    BY <2>1, NodeStep, BootStep, WorkStep, NoVideoStep, SparedStep, StutterStep
  <2> QED BY <2>2, <2>3 DEF NodesInv
<1> QED BY <1>1, <1>2, PTL DEF Spec

\* Every variable stays within its type (TypeOK).
THEOREM TypeCorrect == Spec => []TypeOK
<1>1. NodesInv => TypeOK
  BY DEF NodesInv, StateInv
<1> QED BY <1>1, NodesInvariant, PTL

\* An accepted stream or layout configuration leaves the node it restarts running with it
\* (AcceptedRuns), whatever failed on the way.
THEOREM AcceptedRunsCorrect == Spec => []AcceptedRuns
<1>1. NodesInv => AcceptedRuns
  BY DEF NodesInv
<1> QED BY <1>1, NodesInvariant, PTL

\* Between two commands every node that is not skipped runs, with the values of g_conf it
\* reads but for the fields in Missed (Works), unless a call failed, one met a channel left
\* behind, or a restart ended at a skipped CHN or VB.
THEOREM WorksCorrect == Spec => []Works
<1>1. ASSUME NodesInv PROVE Works
  <2> SUFFICES ASSUME main = "ready", cc # "apply", faults = 0, ~clash, ~dropped,
                      NEW n \in Nodes, ~isSkipCase(n)
               PROVE  st[n] = "up" /\ \A u \in Uses[n] \ Missed[n] : has[n][u] = conf[u[1]][u[2]]
    BY DEF Works
  <2>1. Undisturbed /\ ctodo = <<>>
    BY <1>1 DEF NodesInv, StateInv, Undisturbed
  <2>2. Level(0) /\ Fresh(0, {})
    <3>1. CASE "no_video" \notin flags
      <4>1. PICK k \in 0..7 : CommandAt(k) /\ Level(k)
        BY <1>1, <2>1, <3>1 DEF NodesInv, WorkInv
      <4> QED BY <2>1, <4>1, NoCommand
    <3>2. CASE "no_video" \in flags
      BY <1>1, <2>1, <3>2, SparedIdle DEF NodesInv, SparedInv
    <3> QED BY <3>1, <3>2
  <2>3. PICK i \in 1..7 : Nth[i] = n
    BY Numbering
  <2>4. st[n] = "up"
    BY <2>2, <2>3 DEF Level
  <2>5. \A u \in Follows[n] : has[n][u] = conf[u[1]][u[2]]
    BY <2>2, <2>3, <2>4 DEF Fresh
  <2> QED BY <2>4, <2>5 DEF Follows
<1>2. NodesInv => Works
  BY <1>1
<1> QED BY <1>2, NodesInvariant, PTL

\* A running node's parents run, or are skipped (ParentsUp).
THEOREM ParentsUpCorrect == Spec => []ParentsUp
<1>1. ASSUME NodesInv PROVE ParentsUp
  <2> SUFFICES ASSUME Undisturbed, NEW n \in Nodes, st[n] = "up", NEW p \in Parents[n]
               PROVE  st[p] = "up" \/ isSkipCase(p)
    BY DEF ParentsUp, Undisturbed, Supported
  <2>1. PICK i \in 1..7 : Nth[i] = n
    BY Numbering
  <2>2. (\E m \in 1..7 : m > i /\ p = Nth[m]) /\ p \in {"VB", "DEV", "CHN"}
    BY <2>1, ParentsAbove
  <2>3. PICK m \in 1..7 : m > i /\ p = Nth[m]
    BY <2>2
  <2>4. ASSUME NEW k \in 0..7, Level(k)
        PROVE  st[p] = "up" \/ isSkipCase(p)
    <3>1. i > k
      BY <2>1, <2>4 DEF Level
    <3>2. m > k
      BY <2>3, <3>1
    <3> QED BY <2>3, <2>4, <3>2 DEF Level
  <2>5. main \in {"init", "start", "ready", "leave", "exited"}
    BY <1>1 DEF NodesInv, StateInv, TypeOK
  <2>6. CASE main = "init"
    <3>1. \E k \in 0..7 : Inited(k)
      BY <1>1, <2>6 DEF NodesInv, BootInv
    <3> QED BY <2>1, <3>1 DEF Inited
  <2>7. CASE main = "start"
    <3>1. \E k \in 0..7 : Level(k)
      BY <1>1, <2>7 DEF NodesInv, BootInv
    <3> QED BY <2>4, <3>1
  <2>8. CASE main \in {"ready", "leave", "exited"} /\ "no_video" \notin flags
    <3>1. \E k \in 0..7 : Level(k)
      BY <1>1, <2>8 DEF NodesInv, WorkInv
    <3> QED BY <2>4, <3>1
  <2>9. CASE "no_video" \in flags
    BY <2>2, <2>9, NotSkipped
  <2> QED BY <2>5, <2>6, <2>7, <2>8, <2>9
<1>2. NodesInv => ParentsUp
  BY <1>1
<1> QED BY <1>2, NodesInvariant, PTL

\* The program ends with everything stopped (ExitClean).
THEOREM ExitCleanCorrect == Spec => []ExitClean
<1>1. ASSUME NodesInv PROVE ExitClean
  <2> SUFFICES ASSUME main = "exited", Undisturbed, NEW n \in Nodes
               PROVE  st[n] \in {"none", "down"}
    BY DEF ExitClean, Undisturbed
  <2>1. st[n] \in {"none", "down", "half", "up"}
    BY <1>1 DEF NodesInv, StateInv, TypeOK
  <2>2. CASE "no_video" \in flags
    BY <1>1, <2>1, <2>2 DEF NodesInv, NoVideoInv
  <2>3. CASE "no_video" \notin flags
    <3>1. Level(7)
      BY <1>1, <2>3 DEF NodesInv, WorkInv
    <3>2. PICK i \in 1..7 : Nth[i] = n
      BY Numbering
    <3> QED BY <3>1, <3>2 DEF Level
  <2> QED BY <2>2, <2>3
<1>2. NodesInv => ExitClean
  BY <1>1
<1> QED BY <1>2, NodesInvariant, PTL
=============================================================================
