--------------------------- MODULE CCClientsProofs ---------------------------
(***************************************************************************)
(* The client table, for any number of slots, descriptors and names: its   *)
(* fields agree, every connection is in one place, routes are live,        *)
(* nothing is carried out before the registration, and a host's stream is  *)
(* answered in order and to its end.                                       *)
(***************************************************************************)
EXTENDS CCClients, SequenceTheorems, FiniteSetTheorems, WellFoundedInduction, TLAPS

\* Natural numbers have a least one.
LEMMA LeastExists ==
    ASSUME NEW T, T \subseteq Nat, T # {}
    PROVE  \E x \in T : \A y \in T : x <= y
<1> DEFINE R == OpToRel(<, Nat)
<1>1. IsWellFoundedOn(R, Nat)
  BY NatLessThanWellFounded
<1>2. PICK x \in T : \A y \in T : <<y, x>> \notin R
  <2> HIDE DEF R
  <2> QED BY <1>1, WFMin
<1>3. \A y \in T : ~(y < x)
  BY <1>2 DEF OpToRel
<1> QED BY <1>3

\* A set of slots that is not empty has a first one.
LEMMA FirstExists ==
    ASSUME NEW T, T \subseteq Slot, T # {}
    PROVE  \E i \in T : \A j \in T : i <= j
<1>1. T \subseteq Nat
  BY ClientsAssumption DEF Slot
<1> QED BY <1>1, LeastExists

\* accept() puts a socket in a slot that is free, when count_active_client says
\* that there is one.
LEMMA FirstFreeIsFree == RoomForClient => FirstFree \in Slot /\ client[FirstFree].sd = NoSd
<1> SUFFICES ASSUME RoomForClient PROVE FirstFree \in Slot \ Taken
  BY DEF Taken
<1>1. Slot \ Taken # {} /\ Slot \ Taken \subseteq Slot
  BY DEF RoomForClient, Taken
<1>2. \E i \in Slot \ Taken : \A j \in Slot \ Taken : i <= j
  BY <1>1, FirstExists
<1> QED BY <1>2 DEF FirstFree

----------------------------------------------------------------------------
(* Types. *)

\* What read() returns fits in the buffer, and is nothing only at the end or when it is full.
LEMMA ChunkBounds ==
    ASSUME TypeOK, NEW i \in Slot, client[i].sd \in Conn
    PROVE  /\ Chunk(i) \in 0..Len(inbox[client[i].sd])
           /\ Chunk(i) <= BufCap - Len(client[i].buf)
           /\ Chunk(i) = 0 => inbox[client[i].sd] = <<>> \/ Len(client[i].buf) = BufCap
<1> DEFINE b == client[i].buf
           s == inbox[client[i].sd]
<1>1. b \in Seq(Unit) /\ s \in Seq(Unit) /\ Len(b) <= BufCap
  BY DEF TypeOK, Client
<1>2. Len(b) \in Nat /\ Len(s) \in Nat /\ BufCap \in Nat
  BY <1>1, LenProperties, ClientsAssumption
<1>3. Room(i) = BufCap - Len(b)
  BY DEF Room
<1>4. Chunk(i) = IF Room(i) < Len(s) THEN Room(i) ELSE Len(s)
  BY DEF Chunk
<1>5. Len(s) = 0 => s = <<>>
  BY <1>1, EmptySeq
<1> HIDE DEF b, s
<1>6. Chunk(i) \in 0..Len(s) /\ Chunk(i) <= BufCap - Len(b)
  BY <1>1, <1>2, <1>3, <1>4
<1>7. Chunk(i) = 0 => s = <<>> \/ Len(b) = BufCap
  BY <1>1, <1>2, <1>3, <1>4, <1>5
<1> QED BY <1>6, <1>7 DEF b, s

\* What read() leaves in the socket and in the buffer.
LEMMA Reads ==
    ASSUME TypeOK, NEW i \in Slot, client[i].sd \in Conn
    PROVE  /\ Arrived(i) \in Seq(Unit) /\ Len(Arrived(i)) <= BufCap
           /\ SubSeq(inbox[client[i].sd], Chunk(i) + 1, Len(inbox[client[i].sd])) \in Seq(Unit)
<1> DEFINE b == client[i].buf
           s == inbox[client[i].sd]
<1>1. b \in Seq(Unit) /\ s \in Seq(Unit) /\ Len(b) <= BufCap
  BY DEF TypeOK, Client
<1>2. Len(b) \in Nat /\ Len(s) \in Nat /\ BufCap \in Nat
  BY <1>1, LenProperties, ClientsAssumption
<1>3. Chunk(i) \in 0..Len(s) /\ Chunk(i) <= BufCap - Len(b)
  BY ChunkBounds
<1>4. \A k \in 1..Len(s) : s[k] \in Unit
  BY <1>1, ElementOfSeq
<1> HIDE DEF b, s
<1>5. SubSeq(s, 1, Chunk(i)) \in Seq(Unit) /\ Len(SubSeq(s, 1, Chunk(i))) = Chunk(i)
  <2>1. 1 \in Int /\ Chunk(i) \in Int /\ \A k \in 1..Chunk(i) : s[k] \in Unit
    BY <1>2, <1>3, <1>4
  <2>2. /\ SubSeq(s, 1, Chunk(i)) \in Seq(Unit)
        /\ Len(SubSeq(s, 1, Chunk(i))) = IF 1 <= Chunk(i) THEN Chunk(i) - 1 + 1 ELSE 0
    BY <2>1, SubSeqProperties
  <2> QED BY <1>3, <2>2
<1>6. SubSeq(s, Chunk(i) + 1, Len(s)) \in Seq(Unit)
  <2>1. Chunk(i) + 1 \in Int /\ Len(s) \in Int /\ \A k \in (Chunk(i) + 1)..Len(s) : s[k] \in Unit
    BY <1>2, <1>3, <1>4
  <2> QED BY <2>1, SubSeqProperties
<1>7. b \o SubSeq(s, 1, Chunk(i)) \in Seq(Unit) /\ Len(b \o SubSeq(s, 1, Chunk(i))) = Len(b) + Chunk(i)
  BY <1>1, <1>5, ConcatProperties
<1>8. Len(b) + Chunk(i) <= BufCap
  BY <1>2, <1>3
<1> QED BY <1>6, <1>7, <1>8 DEF Arrived, b, s

\* What the server's steps on one slot have in common: they are taken for a
\* socket, and change no other slot.
LEMMA ServesASocket ==
    ASSUME TypeOK, SlotsCoherent, NEW i \in Slot,
           Scanned(i) \/ cur = i
    PROVE  /\ i \in todo /\ client[i].sd \in Conn /\ client[i].sd # NoSd
           /\ client[i].state # "NONE" /\ client[i] \in Client
<1>1. i # 0
  BY ClientsAssumption DEF Slot
<1>2. i \in todo
  BY <1>1 DEF Scanned, SlotsCoherent
<1>3. client[i].sd # NoSd /\ client[i].state # "NONE"
  BY <1>2 DEF SlotsCoherent, Taken
<1> QED BY <1>2, <1>3 DEF TypeOK, Client

\* Replies written behind those of a connection leave all others as they are.
LEMMA AfterReplies ==
    ASSUME TypeOK, NEW c \in Conn, NEW r \in Seq(Reply),
           out' = [out EXCEPT ![c] = @ \o r]
    PROVE  /\ out' \in [Conn -> Seq(Reply)]
           /\ \A d \in Conn : \A k \in 1..Len(out[d]) : k \in 1..Len(out'[d]) /\ out'[d][k] = out[d][k]
           /\ \A d \in Conn : d # c => out'[d] = out[d]
           /\ \A k \in 1..Len(out'[c]) : k \notin 1..Len(out[c]) =>
                  k - Len(out[c]) \in 1..Len(r) /\ out'[c][k] = r[k - Len(out[c])]
<1>1. out[c] \in Seq(Reply) /\ Len(out[c]) \in Nat /\ Len(r) \in Nat
  BY LenProperties DEF TypeOK
<1>2. /\ out[c] \o r \in Seq(Reply)
      /\ Len(out[c] \o r) = Len(out[c]) + Len(r)
      /\ \A k \in 1..Len(out[c]) + Len(r) :
             (out[c] \o r)[k] = IF k <= Len(out[c]) THEN out[c][k] ELSE r[k - Len(out[c])]
  BY <1>1, ConcatProperties
<1>3. out' \in [Conn -> Seq(Reply)] /\ out'[c] = out[c] \o r /\ \A d \in Conn : d # c => out'[d] = out[d]
  BY <1>2 DEF TypeOK
<1>4. \A k \in 1..Len(out[c]) : k \in 1..Len(out'[c]) /\ out'[c][k] = out[c][k]
  BY <1>1, <1>2, <1>3
<1>5. \A k \in 1..Len(out'[c]) : k \notin 1..Len(out[c]) =>
          k - Len(out[c]) \in 1..Len(r) /\ out'[c][k] = r[k - Len(out[c])]
  BY <1>1, <1>2, <1>3
<1> QED BY <1>3, <1>4, <1>5

\* The replies that ReadModule and Extract write.
Confs(i) == [k \in 1..Cardinality({j \in 1..Len(Arrived(i)) : Arrived(i)[j] = "Get"}) |-> "conf"]

LEMMA ConfsAreReplies ==
    ASSUME NEW i, Arrived(i) \in Seq(Unit)
    PROVE  Confs(i) \in Seq(Reply) /\ \A k \in 1..Len(Confs(i)) : Confs(i)[k] = "conf"
<1> DEFINE gets == {j \in 1..Len(Arrived(i)) : Arrived(i)[j] = "Get"}
<1>1. IsFiniteSet(1..Len(Arrived(i)))
  BY LenProperties, FS_Interval
<1>2. Cardinality(gets) \in Nat
  BY <1>1, FS_Subset, FS_CardinalityType
<1> HIDE DEF gets
<1>3. [k \in 1..Cardinality(gets) |-> "conf"] \in [1..Cardinality(gets) -> Reply]
  BY DEF Reply
<1>4. [k \in 1..Cardinality(gets) |-> "conf"] \in Seq(Reply)
  BY <1>2, <1>3, SeqDef
<1>5. Len([k \in 1..Cardinality(gets) |-> "conf"]) = Cardinality(gets)
  BY <1>2, <1>3, <1>4, LenProperties
<1> QED BY <1>4, <1>5 DEF Confs, gets

----------------------------------------------------------------------------
(* One lemma per step: what it makes of the slot it serves, and what it     *)
(* writes.  The invariants need no more than this.                          *)

LEMMA PollMakes ==
    ASSUME TypeOK, Poll
    PROVE  /\ todo' \subseteq Taken /\ cur' = 0
           /\ \/ UNCHANGED <<client, backlog>>
              \/ /\ backlog # <<>> /\ backlog' = Tail(backlog)
                 /\ \E i \in Slot : /\ client[i].sd = NoSd
                                    /\ client' = [client EXCEPT ![i] =
                                          [@ EXCEPT !.sd = Head(backlog), !.state = "CONNECTING"]]
<1>1. CASE backlog # <<>> /\ RoomForClient
  BY <1>1, FirstFreeIsFree DEF Poll, Accept, ReadySlots
<1>2. CASE ~(backlog # <<>> /\ RoomForClient)
  BY <1>2 DEF Poll, Accept, ReadySlots
<1> QED BY <1>1, <1>2

\* A step that reads or extracts keeps the socket of the slot; its state and
\* identity change together, and only by a registration that is told.
Serves(i, new, replies) ==
    /\ client' = [client EXCEPT ![i] = new]
    /\ out' = [out EXCEPT ![client[i].sd] = @ \o replies]
    /\ new \in Client /\ Len(new.buf) <= BufCap /\ new.sd = client[i].sd
    /\ replies \in Seq(Reply)
    /\ \/ /\ new.state = client[i].state /\ new.cid = client[i].cid
          /\ \A k \in 1..Len(replies) :
                 replies[k] \in {"done", "conf"} => client[i].state = "CONNECTED"
       \/ /\ new.state = "CONNECTED" /\ new.cid # Invalid
          /\ Len(replies) = 1 /\ replies[1] = "registered"

LEMMA ReadModuleServes ==
    ASSUME TypeOK, SlotsCoherent, NEW i \in Slot, ReadModule(i)
    PROVE  \E new, replies : Serves(i, new, replies)
<1> DEFINE new == [client[i] EXCEPT !.buf = <<>>]
<1>1. client[i].sd \in Conn /\ client[i] \in Client
  BY ServesASocket DEF ReadModule
<1>2. Confs(i) \in Seq(Reply) /\ client[i].state = "CONNECTED"
  BY <1>1, Reads, ConfsAreReplies DEF ReadModule, IsModule
<1>3. new \in Client /\ Len(new.buf) <= BufCap /\ new.sd = client[i].sd
      /\ new.state = client[i].state /\ new.cid = client[i].cid
  <2>1. <<>> \in Seq(Unit) /\ Len(<<>>) <= BufCap
    BY EmptySeq, ClientsAssumption
  <2> QED BY <1>1, <2>1 DEF Client
<1>4. client' = [client EXCEPT ![i] = new] /\ out' = [out EXCEPT ![client[i].sd] = @ \o Confs(i)]
  BY DEF ReadModule, Confs
<1>5. Serves(i, new, Confs(i))
  BY <1>2, <1>3, <1>4 DEF Serves
<1> QED BY <1>5

LEMMA ReadJsonServes ==
    ASSUME TypeOK, SlotsCoherent, NEW i \in Slot, ReadJson(i)
    PROVE  \E new, replies : Serves(i, new, replies)
<1> DEFINE new == [client[i] EXCEPT !.buf = Arrived(i)]
<1>1. client[i].sd \in Conn /\ client[i] \in Client
  BY ServesASocket DEF ReadJson
<1>2. new \in Client /\ Len(new.buf) <= BufCap /\ new.sd = client[i].sd
      /\ new.state = client[i].state /\ new.cid = client[i].cid
  BY <1>1, Reads DEF Client
<1>3. <<>> \in Seq(Reply) /\ Len(<<>>) = 0 /\ out[client[i].sd] \o <<>> = out[client[i].sd]
  BY <1>1, EmptySeq, ConcatEmptySeq DEF TypeOK
<1>4. out' = [out EXCEPT ![client[i].sd] = @ \o <<>>] /\ client' = [client EXCEPT ![i] = new]
  BY <1>1, <1>3 DEF ReadJson, TypeOK
<1>5. Serves(i, new, <<>>)
  BY <1>2, <1>3, <1>4 DEF Serves
<1> QED BY <1>5

LEMMA FinishServes ==
    ASSUME TypeOK, SlotsCoherent, NEW i \in Slot, Finish(i)
    PROVE  \E new, replies : Serves(i, new, replies)
<1> DEFINE kept == IF Incomplete(client[i].buf) THEN client[i].buf ELSE <<>>
           new == [client[i] EXCEPT !.buf = kept]
<1>1. client[i].sd \in Conn /\ client[i] \in Client
  BY ServesASocket DEF Finish
<1>2. kept \in Seq(Unit) /\ Len(kept) <= BufCap
  BY <1>1, EmptySeq, ClientsAssumption DEF TypeOK, Client
<1>3. client' = [client EXCEPT ![i] = new]
  BY DEF Finish
<1> HIDE DEF kept
<1>4. new \in Client /\ Len(new.buf) <= BufCap /\ new.sd = client[i].sd
      /\ new.state = client[i].state /\ new.cid = client[i].cid
  BY <1>1, <1>2 DEF Client
<1>5. <<>> \in Seq(Reply) /\ Len(<<>>) = 0 /\ out[client[i].sd] \o <<>> = out[client[i].sd]
  BY <1>1, EmptySeq, ConcatEmptySeq DEF TypeOK
<1>6. out' = [out EXCEPT ![client[i].sd] = @ \o <<>>]
  BY <1>1, <1>5 DEF Finish, TypeOK
<1>7. Serves(i, new, <<>>)
  BY <1>3, <1>4, <1>5, <1>6 DEF Serves
<1> QED BY <1>7

LEMMA ExtractServes ==
    ASSUME TypeOK, SlotsCoherent, NEW i \in Slot, NEW k, Extract(i, k)
    PROVE  /\ \E new, replies : Serves(i, new, replies)
           /\ lastCid' \in Name \cup {Invalid}
<1> DEFINE u == client[i].buf[1]
           rest == AfterFrame(i, k)
           told == Answer(i, u) = "registered"
           new == IF told
                  THEN [client[i] EXCEPT !.state = "CONNECTED", !.cid = Identity(u), !.buf = rest]
                  ELSE [client[i] EXCEPT !.buf = rest]
<1>1. client[i].sd \in Conn /\ client[i] \in Client
  BY ServesASocket DEF Extract
<1>2. client[i].buf \in Seq(Unit) /\ Len(client[i].buf) \in Nat /\ Len(client[i].buf) <= BufCap
  BY <1>1, LenProperties DEF TypeOK, Client
<1>3. k \in 1..Len(client[i].buf)
  BY DEF Extract, FrameAt
<1>4. rest \in Seq(Unit) /\ Len(rest) <= BufCap
  <2>1. k + 1 \in Int /\ Len(client[i].buf) \in Int
    BY <1>2, <1>3
  <2>2. \A j \in (k + 1)..Len(client[i].buf) : client[i].buf[j] \in Unit
    BY <1>2, <1>3, ElementOfSeq
  <2>3. /\ rest \in Seq(Unit)
        /\ Len(rest) = IF k + 1 <= Len(client[i].buf) THEN Len(client[i].buf) - (k + 1) + 1 ELSE 0
    BY <2>1, <2>2, SubSeqProperties DEF AfterFrame
  <2> HIDE DEF rest
  <2> QED BY <2>3, <1>2, <1>3, ClientsAssumption
<1>5. Answer(i, u) \in Reply
  BY DEF Answer, Reply
<1>6. Identity(u) \in Name \cup {Invalid}
  BY DEF Identity, TypeOK
<1>7. told => Identity(u) \in Name /\ Identity(u) # Invalid
  BY <1>6, ClientsAssumption DEF Answer
<1>8. Answer(i, u) \in {"done", "conf"} => client[i].state = "CONNECTED"
  BY DEF Answer
<1>9. lastCid' \in Name \cup {Invalid}
  BY <1>6 DEF Extract, TypeOK
<1>10. client' = [client EXCEPT ![i] = new]
  BY DEF Extract
<1>11. out' = [out EXCEPT ![client[i].sd] = @ \o <<Answer(i, u)>>]
  <2>1. out[client[i].sd] \in Seq(Reply)
    BY <1>1 DEF TypeOK
  <2>2. Append(out[client[i].sd], Answer(i, u)) = out[client[i].sd] \o <<Answer(i, u)>>
    BY <2>1, <1>5, AppendIsConcat
  <2> QED BY <2>2, <1>1 DEF Extract, TypeOK
<1> HIDE DEF rest, u
<1>12. /\ new \in Client /\ Len(new.buf) <= BufCap /\ new.sd = client[i].sd
       /\ ~told => new.state = client[i].state /\ new.cid = client[i].cid
       /\ told => new.state = "CONNECTED" /\ new.cid # Invalid
  BY <1>1, <1>4, <1>7 DEF Client, State
<1>13. <<Answer(i, u)>> \in Seq(Reply) /\ Len(<<Answer(i, u)>>) = 1 /\ <<Answer(i, u)>>[1] = Answer(i, u)
  BY <1>5
<1> HIDE DEF new
<1>14. Serves(i, new, <<Answer(i, u)>>)
  BY <1>8, <1>10, <1>11, <1>12, <1>13 DEF Serves
<1> QED BY <1>9, <1>14

----------------------------------------------------------------------------
(* The inductive invariant. *)

\* A connected client has been told so on the socket it has now: without this
\* RegisteredFirst would not survive the next command's reply.
ConnectedIsTold ==
    \A i \in Slot : client[i].state = "CONNECTED" =>
        \E k \in 1..Len(out[client[i].sd]) : out[client[i].sd][k] = "registered"

IInv == TypeOK /\ SlotsCoherent /\ OnePlace /\ ConnectedIsTold /\ RegisteredFirst

\* The steps that read or extract keep every part of it.
LEMMA ServesKeepsTypes ==
    ASSUME TypeOK, NEW i \in Slot, client[i].sd \in Conn, NEW new, NEW replies, Serves(i, new, replies)
    PROVE  /\ client' \in [Slot -> Client] /\ \A j \in Slot : Len(client'[j].buf) <= BufCap
           /\ out' \in [Conn -> Seq(Reply)]
           /\ \A j \in Slot : client'[j].sd = client[j].sd
           /\ \A j \in Slot : j # i => client'[j] = client[j]
<1>1. out' \in [Conn -> Seq(Reply)]
  BY AfterReplies DEF Serves
<1>2. client' \in [Slot -> Client] /\ client'[i] = new /\ \A j \in Slot : j # i => client'[j] = client[j]
  BY DEF Serves, TypeOK
<1> QED BY <1>1, <1>2 DEF Serves, TypeOK

LEMMA ServesKeepsSlots ==
    ASSUME TypeOK, SlotsCoherent, NEW i \in Slot, Scanned(i) \/ cur = i,
           NEW new, NEW replies, Serves(i, new, replies)
    PROVE  \A j \in Slot : /\ client'[j].sd = NoSd <=> client'[j].state = "NONE"
                           /\ client'[j].cid # Invalid <=> client'[j].state = "CONNECTED"
                           /\ client'[j].sd = NoSd => client'[j].buf = <<>>
<1>1. client[i].sd \in Conn /\ client[i].sd # NoSd /\ client[i].state # "NONE"
  BY ServesASocket
<1>2. \A j \in Slot : j # i => client'[j] = client[j]
  BY <1>1, ServesKeepsTypes
<1>3. client'[i] = new /\ new.sd = client[i].sd
  BY DEF Serves, TypeOK
<1>4. /\ new.state # "NONE"
      /\ new.cid # Invalid <=> new.state = "CONNECTED"
  BY <1>1 DEF Serves, SlotsCoherent
<1> QED BY <1>1, <1>2, <1>3, <1>4 DEF SlotsCoherent

LEMMA ServesKeepsPlaces ==
    ASSUME OnePlace, \A j \in Slot : client'[j].sd = client[j].sd,
           UNCHANGED <<backlog, peer>>
    PROVE  OnePlace'
BY DEF OnePlace, Accepted

LEMMA ServesKeepsReplies ==
    ASSUME IInv, NEW i \in Slot, Scanned(i) \/ cur = i,
           NEW new, NEW replies, Serves(i, new, replies)
    PROVE  ConnectedIsTold' /\ RegisteredFirst'
<1> DEFINE c == client[i].sd
<1>1. c \in Conn
  BY ServesASocket DEF IInv
<1>2. /\ \A d \in Conn : \A k \in 1..Len(out[d]) : k \in 1..Len(out'[d]) /\ out'[d][k] = out[d][k]
      /\ \A d \in Conn : d # c => out'[d] = out[d]
      /\ \A k \in 1..Len(out'[c]) : k \notin 1..Len(out[c]) =>
             k - Len(out[c]) \in 1..Len(replies) /\ out'[c][k] = replies[k - Len(out[c])]
  <2>1. TypeOK /\ replies \in Seq(Reply) /\ out' = [out EXCEPT ![c] = @ \o replies]
    BY DEF IInv, Serves
  <2> HIDE DEF c
  <2> QED BY <1>1, <2>1, AfterReplies
<1>3. Len(out[c]) \in Nat /\ Len(replies) \in Nat /\ Len(out'[c]) = Len(out[c]) + Len(replies)
      /\ \A k \in 1..Len(replies) : out'[c][Len(out[c]) + k] = replies[k]
  <2>1. out[c] \in Seq(Reply) /\ replies \in Seq(Reply) /\ out'[c] = out[c] \o replies
    BY <1>1 DEF IInv, TypeOK, Serves
  <2>2. Len(out[c]) \in Nat /\ Len(replies) \in Nat
    BY <2>1, LenProperties
  <2>3. \A k \in 1..Len(replies) :
            /\ Len(out[c]) + k \in 1..(Len(out[c]) + Len(replies))
            /\ ~(Len(out[c]) + k <= Len(out[c])) /\ Len(out[c]) + k - Len(out[c]) = k
    BY <2>2
  <2> HIDE DEF c
  <2>4. /\ Len(out'[c]) = Len(out[c]) + Len(replies)
        /\ \A j \in 1..(Len(out[c]) + Len(replies)) :
               out'[c][j] = IF j <= Len(out[c]) THEN out[c][j] ELSE replies[j - Len(out[c])]
    BY <2>1, ConcatProperties
  <2>5. ASSUME NEW k \in 1..Len(replies) PROVE out'[c][Len(out[c]) + k] = replies[k]
    <3> DEFINE j == Len(out[c]) + k
    <3>1. /\ j \in 1..(Len(out[c]) + Len(replies))
          /\ ~(j <= Len(out[c])) /\ j - Len(out[c]) = k
      BY <2>3
    <3>2. out'[c][j] = replies[k]
      <4> HIDE DEF j
      <4> QED BY <2>4, <3>1
    <3> QED BY <3>2
  <2> QED BY <2>2, <2>4, <2>5
<1>4. \A j \in Slot : j # i => client'[j] = client[j]
  BY <1>1, ServesKeepsTypes DEF IInv
<1>5. client'[i] = new /\ new.sd = c
  BY DEF Serves, IInv, TypeOK
<1>6. ConnectedIsTold'
  <2> SUFFICES ASSUME NEW j \in Slot, client'[j].state = "CONNECTED"
               PROVE  \E k \in 1..Len(out'[client'[j].sd]) : out'[client'[j].sd][k] = "registered"
    BY DEF ConnectedIsTold
  <2>1. CASE client[j].state = "CONNECTED"
    <3>1. client'[j].sd = client[j].sd
      BY <1>4, <1>5
    <3>2. client[j].sd \in Conn
      BY <2>1 DEF IInv, TypeOK, SlotsCoherent, Client
    <3>3. PICK k \in 1..Len(out[client[j].sd]) : out[client[j].sd][k] = "registered"
      BY <2>1 DEF IInv, ConnectedIsTold
    <3> QED BY <3>1, <3>2, <3>3, <1>2
  <2>2. CASE client[j].state # "CONNECTED"
    <3>1. j = i /\ Len(replies) = 1 /\ replies[1] = "registered"
      BY <2>2, <1>4, <1>5 DEF Serves
    <3>2. Len(out[c]) + 1 \in 1..Len(out'[c]) /\ out'[c][Len(out[c]) + 1] = "registered"
      BY <3>1, <1>3
    <3> QED BY <3>1, <3>2, <1>5
  <2> QED BY <2>1, <2>2
<1>7. RegisteredFirst'
  <2> SUFFICES ASSUME NEW d \in Conn, NEW k \in 1..Len(out'[d]), out'[d][k] \in {"done", "conf"}
               PROVE  \E j \in 1..(k - 1) : out'[d][j] = "registered"
    BY DEF RegisteredFirst
  <2>1. CASE k \in 1..Len(out[d])
    <3>1. PICK j \in 1..(k - 1) : out[d][j] = "registered"
      BY <2>1, <1>2 DEF IInv, RegisteredFirst
    <3>2. j \in 1..Len(out[d])
      <4>1. Len(out[d]) \in Nat
        BY LenProperties DEF IInv, TypeOK
      <4> QED BY <4>1, <2>1, <3>1
    <3> QED BY <3>1, <3>2, <1>2
  <2>2. CASE k \notin 1..Len(out[d])
    <3>1. d = c
      BY <2>2, <1>2
    <3>2. k - Len(out[c]) \in 1..Len(replies) /\ out'[c][k] = replies[k - Len(out[c])]
      BY <3>1, <2>2, <1>2
    <3>3. client[i].state = "CONNECTED"
      BY <3>1, <3>2 DEF Serves
    <3>4. PICK j \in 1..Len(out[c]) : out[c][j] = "registered"
      BY <3>3 DEF IInv, ConnectedIsTold
    <3>5. j \in 1..(k - 1)
      BY <3>1, <3>2, <3>4, <1>3
    <3> QED BY <3>1, <3>4, <3>5, <1>1, <1>2
  <2> QED BY <2>1, <2>2
<1> QED BY <1>6, <1>7

----------------------------------------------------------------------------
(* The steps of the loop, one lemma for each group of actions.              *)

\* ReadModule, ReadJson, Extract and Finish.
LEMMA ServeStep ==
    ASSUME IInv, NEW i \in Slot,
           ReadModule(i) \/ ReadJson(i) \/ Finish(i) \/ \E k \in 1..BufCap : Extract(i, k)
    PROVE  IInv'
<1>1. \E new, replies : Serves(i, new, replies)
  BY ReadModuleServes, ReadJsonServes, FinishServes, ExtractServes DEF IInv
<1>2. PICK new, replies : Serves(i, new, replies)
  BY <1>1
<1>3. Scanned(i) \/ cur = i
  BY DEF ReadModule, ReadJson, Finish, Extract
<1>4. client[i].sd \in Conn /\ i \in todo
  BY <1>3, ServesASocket DEF IInv
<1>5. /\ client' \in [Slot -> Client] /\ \A j \in Slot : Len(client'[j].buf) <= BufCap
      /\ out' \in [Conn -> Seq(Reply)]
      /\ \A j \in Slot : client'[j].sd = client[j].sd
  BY <1>2, <1>4, ServesKeepsTypes DEF IInv
<1>6. lastCid' \in Name \cup {Invalid}
  BY ExtractServes DEF IInv, TypeOK, ReadModule, ReadJson, Finish
<1>7. inbox' \in [Conn -> Seq(Unit)]
  <2>1. CASE ReadModule(i) \/ ReadJson(i)
    <3>1. inbox' = [inbox EXCEPT ![client[i].sd] = SubSeq(@, Chunk(i) + 1, Len(@))]
      BY <2>1 DEF ReadModule, ReadJson
    <3>2. SubSeq(inbox[client[i].sd], Chunk(i) + 1, Len(inbox[client[i].sd])) \in Seq(Unit)
      BY <1>4, Reads DEF IInv
    <3> QED BY <3>1, <3>2, <1>4 DEF IInv, TypeOK
  <2>2. CASE Finish(i) \/ \E k \in 1..BufCap : Extract(i, k)
    BY <2>2 DEF Finish, Extract, IInv, TypeOK
  <2> QED BY <2>1, <2>2
<1>8. /\ UNCHANGED <<backlog, peer, script, left>>
      /\ \/ todo' = todo /\ cur' = i
         \/ todo' = todo \ {i} /\ cur' = 0
         \/ todo' = todo /\ cur' = cur
  <2>1. CASE ReadModule(i)
    BY <2>1 DEF ReadModule, Scanned, peerVars
  <2>2. CASE ReadJson(i)
    BY <2>2 DEF ReadJson, peerVars
  <2>3. CASE Finish(i)
    BY <2>3 DEF Finish, peerVars
  <2>4. CASE \E k \in 1..BufCap : Extract(i, k)
    BY <2>4 DEF Extract, peerVars
  <2> QED BY <2>1, <2>2, <2>3, <2>4
<1>9. TypeOK'
  BY <1>5, <1>6, <1>7, <1>8 DEF IInv, TypeOK
<1>10. SlotsCoherent'
  <2>1. Taken' = Taken
    BY <1>5 DEF Taken
  <2>2. todo' \subseteq Taken' /\ (cur' # 0 => cur' \in todo')
    <3>1. todo \subseteq Taken /\ (cur # 0 => cur \in todo)
      BY DEF IInv, SlotsCoherent
    <3> QED BY <3>1, <2>1, <1>4, <1>8
  <2> QED BY <2>2, <1>2, <1>3, ServesKeepsSlots DEF IInv, SlotsCoherent
<1>11. OnePlace'
  BY <1>5, <1>8, ServesKeepsPlaces DEF IInv
<1>12. ConnectedIsTold' /\ RegisteredFirst'
  BY <1>2, <1>3, ServesKeepsReplies
<1> QED BY <1>9, <1>10, <1>11, <1>12 DEF IInv

\* A closed socket's number is in no other slot and not in the backlog.
LEMMA DisconnectStep ==
    ASSUME IInv, NEW i \in Slot, Disconnect(i)
    PROVE  IInv'
<1> DEFINE c == client[i].sd
<1>1. c \in Conn /\ c # NoSd /\ i \in todo
  BY ServesASocket DEF IInv, Disconnect
<1>2. FreeSlot \in Client /\ Len(FreeSlot.buf) <= BufCap
  BY EmptySeq, ClientsAssumption DEF FreeSlot, Client, State
<1>3. /\ client' \in [Slot -> Client] /\ client'[i] = FreeSlot
      /\ \A j \in Slot : j # i => client'[j] = client[j]
  BY <1>2 DEF Disconnect, ResetSlot, IInv, TypeOK
<1>4. \A j \in Slot : j # i => client[j].sd # c
  BY <1>1 DEF IInv, OnePlace
<1>5. /\ peer' = [peer EXCEPT ![c] = "unused"] /\ out' = [out EXCEPT ![c] = <<>>]
      /\ UNCHANGED <<lastCid, cur, backlog>> /\ todo' = todo \ {i} /\ cur = 0
  BY DEF Disconnect, Scanned
<1>6. TypeOK'
  <2>1. /\ <<>> \in Seq(Unit) /\ <<>> \in Seq(Reply)
    BY EmptySeq
  <2>2. script' \in [Conn -> Seq(Unit)] /\ left' \in [Conn -> Seq(Unit)] /\ inbox' \in [Conn -> Seq(Unit)]
    BY <2>1 DEF Disconnect, IInv, TypeOK
  <2>3. peer' \in [Conn -> {"unused", "open", "shut"}] /\ out' \in [Conn -> Seq(Reply)]
    BY <2>1, <1>5 DEF IInv, TypeOK
  <2>4. \A j \in Slot : Len(client'[j].buf) <= BufCap
    BY <1>2, <1>3 DEF IInv, TypeOK
  <2> QED BY <2>2, <2>3, <2>4, <1>3, <1>5 DEF IInv, TypeOK
<1>7. SlotsCoherent'
  <2>1. Taken' = Taken \ {i}
    BY <1>3 DEF Taken, FreeSlot
  <2>2. /\ FreeSlot.sd = NoSd /\ FreeSlot.state = "NONE" /\ FreeSlot.cid = Invalid /\ FreeSlot.buf = <<>>
    BY DEF FreeSlot
  <2> QED BY <2>1, <2>2, <1>3, <1>5 DEF IInv, SlotsCoherent
<1>8. OnePlace'
  <2>1. \A d \in Conn : d # c =>
            /\ (\E j \in Slot : client'[j].sd = d) <=> (\E j \in Slot : client[j].sd = d)
            /\ peer'[d] = peer[d]
    <3>1. \A d \in Conn : d # c => peer'[d] = peer[d]
      BY <1>5 DEF IInv, TypeOK
    <3>2. \A d \in Conn : d # NoSd
      BY ClientsAssumption
    <3>3. client'[i].sd = NoSd
      BY <1>3 DEF FreeSlot
    <3> QED BY <3>1, <3>2, <3>3, <1>3
  <2>2. (\A j \in Slot : client'[j].sd # c) /\ peer'[c] = "unused"
    <3>1. client'[i].sd = NoSd
      BY <1>3 DEF FreeSlot
    <3>2. peer'[c] = "unused"
      BY <1>1, <1>5 DEF IInv, TypeOK
    <3> QED BY <3>1, <3>2, <1>1, <1>3, <1>4
  <2>3. \A j \in 1..Len(backlog) : backlog[j] # c /\ backlog[j] \in Conn
    BY ElementOfSeq DEF IInv, OnePlace, TypeOK, Accepted
  <2>4. \A j, k \in Slot : client'[j].sd = client'[k].sd /\ j # k => client'[j].sd = NoSd
    BY <1>3 DEF IInv, OnePlace, FreeSlot
  <2>5. \A j \in 1..Len(backlog) : \A k \in Slot : client'[k].sd # backlog[j]
    BY <2>1, <2>3 DEF IInv, OnePlace, Accepted
  <2>6. \A d \in Conn : peer'[d] # "unused" <=>
            (\E j \in Slot : client'[j].sd = d) \/ \E j \in 1..Len(backlog) : backlog[j] = d
    <3> TAKE d \in Conn
    <3>1. CASE d = c
      BY <3>1, <2>2, <2>3
    <3>2. CASE d # c
      BY <3>2, <2>1 DEF IInv, OnePlace, Accepted
    <3> QED BY <3>1, <3>2
  <2>7. backlog' = backlog /\ \A j, k \in 1..Len(backlog) : backlog[j] = backlog[k] => j = k
    BY <1>5 DEF IInv, OnePlace
  <2> HIDE DEF c
  <2> QED BY <2>4, <2>5, <2>6, <2>7 DEF OnePlace, Accepted
<1>9. ConnectedIsTold' /\ RegisteredFirst'
  <2>1. out'[c] = <<>> /\ \A d \in Conn : d # c => out'[d] = out[d]
    BY <1>1, <1>5 DEF IInv, TypeOK
  <2>2. RegisteredFirst'
    BY <2>1, EmptySeq DEF IInv, RegisteredFirst
  <2>3. ConnectedIsTold'
    <3> SUFFICES ASSUME NEW j \in Slot, client'[j].state = "CONNECTED"
                 PROVE  \E k \in 1..Len(out'[client'[j].sd]) : out'[client'[j].sd][k] = "registered"
      BY DEF ConnectedIsTold
    <3>1. j # i
      BY <1>3 DEF FreeSlot
    <3>2. client'[j] = client[j] /\ client[j].sd # c
      BY <3>1, <1>3, <1>4
    <3>3. client[j].sd \in Conn
      BY <3>2 DEF IInv, TypeOK, SlotsCoherent, Client
    <3> QED BY <3>2, <3>3, <2>1 DEF IInv, ConnectedIsTold
  <2> QED BY <2>2, <2>3
<1> QED BY <1>6, <1>7, <1>8, <1>9 DEF IInv

\* The accepted socket leaves the backlog for a slot that was free.
LEMMA PollStep ==
    ASSUME IInv, Poll
    PROVE  IInv'
<1>1. UNCHANGED <<lastCid, peer, script, left, inbox, out>> /\ todo' \subseteq Taken /\ cur' = 0
  BY PollMakes DEF Poll, peerVars, IInv
<1>2. CASE UNCHANGED <<client, backlog>>
  <2>1. TypeOK'
    BY <1>1, <1>2, ClientsAssumption DEF IInv, TypeOK, Taken
  <2>2. SlotsCoherent'
    BY <1>1, <1>2 DEF IInv, SlotsCoherent, Taken
  <2>3. OnePlace'
    BY <1>1, <1>2 DEF IInv, OnePlace, Accepted
  <2>4. ConnectedIsTold' /\ RegisteredFirst'
    BY <1>1, <1>2 DEF IInv, ConnectedIsTold, RegisteredFirst
  <2> QED BY <2>1, <2>2, <2>3, <2>4 DEF IInv
<1>3. CASE ~UNCHANGED <<client, backlog>>
  <2>1. PICK i \in Slot : /\ backlog # <<>> /\ backlog' = Tail(backlog)
                          /\ client[i].sd = NoSd
                          /\ client' = [client EXCEPT ![i] =
                                [@ EXCEPT !.sd = Head(backlog), !.state = "CONNECTING"]]
    BY <1>3, PollMakes DEF IInv
  <2> DEFINE h == Head(backlog)
  <2>2. /\ backlog \in Seq(Conn) /\ Len(backlog) \in Nat \ {0} /\ h \in Conn /\ h = backlog[1]
        /\ Tail(backlog) \in Seq(Conn) /\ Len(Tail(backlog)) = Len(backlog) - 1
        /\ \A k \in 1..Len(Tail(backlog)) : Tail(backlog)[k] = backlog[k + 1]
    <3>1. backlog \in Seq(Conn) /\ backlog # <<>>
      BY <2>1 DEF IInv, TypeOK
    <3>2. Head(backlog) = backlog[1]
      BY <3>1
    <3> QED BY <3>1, <3>2, HeadTailProperties, EmptySeq
  <2>3. h # NoSd
    BY <2>2, ClientsAssumption
  <2>4. client[i].state = "NONE" /\ client[i].cid = Invalid /\ client[i] \in Client
    BY <2>1 DEF IInv, SlotsCoherent, TypeOK
  <2> HIDE DEF h
  <2>5. /\ client'[i].sd = h /\ client'[i].state = "CONNECTING" /\ client'[i].cid = Invalid
        /\ client'[i] \in Client /\ client'[i].buf = client[i].buf
        /\ \A j \in Slot : j # i => client'[j] = client[j]
        /\ client' \in [Slot -> Client]
    BY <2>1, <2>2, <2>4 DEF IInv, TypeOK, Client, State, h
  <2>6. TypeOK'
    <3>1. \A j \in Slot : Len(client'[j].buf) <= BufCap
      BY <2>5 DEF IInv, TypeOK
    <3>2. todo' \subseteq Slot /\ cur' \in Slot \cup {0}
      BY <1>1 DEF Taken
    <3> QED BY <3>1, <3>2, <1>1, <2>1, <2>2, <2>5 DEF IInv, TypeOK
  <2>7. SlotsCoherent'
    <3>1. Taken \subseteq Taken'
      BY <2>1, <2>5 DEF Taken
    <3> QED BY <3>1, <1>1, <2>3, <2>5 DEF IInv, SlotsCoherent
  <2>8. OnePlace'
    <3>1. \A j \in Slot : client[j].sd # h
      BY <2>2, <2>3 DEF IInv, OnePlace, Accepted
    <3>2. \A j, k \in Slot : client'[j].sd = client'[k].sd /\ j # k => client'[j].sd = NoSd
      BY <3>1, <2>5 DEF IInv, OnePlace
    <3>3. Len(backlog') = Len(backlog) - 1 /\ \A k \in 1..Len(backlog') :
              k \in Int /\ k + 1 \in 1..Len(backlog) /\ k + 1 # 1 /\ backlog'[k] = backlog[k + 1]
      BY <2>1, <2>2
    <3>4. \A j, k \in 1..Len(backlog') : backlog'[j] = backlog'[k] => j = k
      <4> SUFFICES ASSUME NEW j \in 1..Len(backlog'), NEW k \in 1..Len(backlog'),
                          backlog'[j] = backlog'[k]
                   PROVE  j = k
        OBVIOUS
      <4>1. j + 1 = k + 1
        BY <3>3 DEF IInv, OnePlace
      <4> QED BY <4>1, <3>3
    <3>5. \A k \in 1..Len(backlog') : backlog'[k] # h
      BY <3>3, <2>2 DEF IInv, OnePlace
    <3>6. \A k \in 1..Len(backlog') : \A j \in Slot : client'[j].sd # backlog'[k]
      BY <3>3, <3>5, <2>5 DEF IInv, OnePlace, Accepted
    <3>7. \A d \in Conn : (\E j \in Slot : client'[j].sd = d) <=> (\E j \in Slot : client[j].sd = d) \/ d = h
      BY <2>1, <2>5, ClientsAssumption
    <3>8. \A d \in Conn : (\E k \in 1..Len(backlog) : backlog[k] = d) <=>
              (\E k \in 1..Len(backlog') : backlog'[k] = d) \/ d = h
      <4> TAKE d \in Conn
      <4>1. ASSUME NEW k \in 1..Len(backlog), backlog[k] = d, d # h
            PROVE  \E j \in 1..Len(backlog') : backlog'[j] = d
        <5>1. k # 1 /\ k \in Int
          BY <4>1, <2>2
        <5>2. k - 1 \in 1..Len(backlog') /\ (k - 1) + 1 = k
          BY <5>1, <3>3, <2>2
        <5>3. backlog'[k - 1] = backlog[(k - 1) + 1]
          BY <5>2, <3>3
        <5> QED BY <5>2, <5>3, <4>1
      <4>2. 1 \in 1..Len(backlog) /\ backlog[1] = h
        BY <2>2
      <4>3. \A k \in 1..Len(backlog') : k + 1 \in 1..Len(backlog) /\ backlog[k + 1] = backlog'[k]
        BY <3>3
      <4> QED BY <4>1, <4>2, <4>3, Zenon
    <3>9. \A d \in Conn : peer'[d] # "unused" <=>
              (\E j \in Slot : client'[j].sd = d) \/ \E k \in 1..Len(backlog') : backlog'[k] = d
      BY <3>7, <3>8, <1>1 DEF IInv, OnePlace, Accepted
    <3> QED BY <3>2, <3>4, <3>6, <3>9 DEF OnePlace, Accepted
  <2>9. ConnectedIsTold' /\ RegisteredFirst'
    <3>1. RegisteredFirst'
      BY <1>1 DEF IInv, RegisteredFirst
    <3>2. ConnectedIsTold'
      BY <1>1, <2>5 DEF IInv, ConnectedIsTold
    <3> QED BY <3>1, <3>2
  <2> QED BY <2>6, <2>7, <2>8, <2>9 DEF IInv
<1> QED BY <1>2, <1>3

----------------------------------------------------------------------------
(* The peers. *)

LEMMA ConnectStep ==
    ASSUME IInv, NEW c \in Conn, NEW s \in Script, Connect(c, s)
    PROVE  IInv'
<1>1. /\ UNCHANGED <<client, lastCid, todo, cur, inbox, out>>
      /\ peer[c] = "unused" /\ peer' = [peer EXCEPT ![c] = "open"] /\ backlog' = Append(backlog, c)
  BY DEF Connect, serverVars
<1>2. /\ backlog \in Seq(Conn) /\ Len(backlog) \in Nat
      /\ backlog' \in Seq(Conn) /\ Len(backlog') = Len(backlog) + 1
      /\ \A k \in 1..Len(backlog) : backlog'[k] = backlog[k]
      /\ backlog'[Len(backlog) + 1] = c
  <2>1. backlog \in Seq(Conn)
    BY DEF IInv, TypeOK
  <2> QED BY <2>1, <1>1, AppendProperties, LenProperties
<1>3. TypeOK'
  <2>1. s \in Seq(Unit)
    BY ClientsAssumption
  <2>2. script' \in [Conn -> Seq(Unit)] /\ left' \in [Conn -> Seq(Unit)]
    BY <2>1 DEF Connect, IInv, TypeOK
  <2>3. peer' \in [Conn -> {"unused", "open", "shut"}]
    BY <1>1 DEF IInv, TypeOK
  <2> QED BY <2>2, <2>3, <1>1, <1>2 DEF IInv, TypeOK
<1>4. SlotsCoherent' /\ ConnectedIsTold' /\ RegisteredFirst'
  BY <1>1 DEF IInv, SlotsCoherent, Taken, ConnectedIsTold, RegisteredFirst
<1>5. OnePlace'
  <2>1. (\A j \in Slot : client[j].sd # c) /\ \A k \in 1..Len(backlog) : backlog[k] # c
    BY <1>1 DEF IInv, OnePlace, Accepted
  <2>2. \A k \in 1..Len(backlog') :
            \/ k \in 1..Len(backlog) /\ backlog'[k] = backlog[k]
            \/ k = Len(backlog) + 1 /\ backlog'[k] = c
    BY <1>2
  <2>3. \A j, k \in 1..Len(backlog') : backlog'[j] = backlog'[k] => j = k
    BY <2>1, <2>2 DEF IInv, OnePlace
  <2>4. \A k \in 1..Len(backlog') : \A j \in Slot : client[j].sd # backlog'[k]
    BY <2>1, <2>2 DEF IInv, OnePlace, Accepted
  <2>5. \A d \in Conn : (\E k \in 1..Len(backlog') : backlog'[k] = d) <=>
            (\E k \in 1..Len(backlog) : backlog[k] = d) \/ d = c
    <3>1. Len(backlog) + 1 \in 1..Len(backlog') /\ \A k \in 1..Len(backlog) : k \in 1..Len(backlog')
      BY <1>2
    <3> QED BY <3>1, <2>2, <1>2
  <2>6. peer'[c] # "unused" /\ \A d \in Conn : d # c => peer'[d] = peer[d]
    BY <1>1 DEF IInv, TypeOK
  <2>7. \A d \in Conn : peer'[d] # "unused" <=>
            (\E j \in Slot : client[j].sd = d) \/ \E k \in 1..Len(backlog') : backlog'[k] = d
    BY <2>5, <2>6 DEF IInv, OnePlace, Accepted
  <2>8. \A j, k \in Slot : client[j].sd = client[k].sd /\ j # k => client[j].sd = NoSd
    BY DEF IInv, OnePlace
  <2> QED BY <2>3, <2>4, <2>7, <2>8, <1>1 DEF OnePlace, Accepted
<1> QED BY <1>3, <1>4, <1>5 DEF IInv

LEMMA PeerStep ==
    ASSUME IInv, NEW c \in Conn, Send(c) \/ Shut(c)
    PROVE  IInv'
<1>1. /\ UNCHANGED <<client, lastCid, todo, cur, backlog, script, out>>
      /\ peer' \in [Conn -> {"unused", "open", "shut"}]
      /\ \A d \in Conn : peer'[d] = "unused" <=> peer[d] = "unused"
  BY DEF Send, Shut, serverVars, IInv, TypeOK
<1>2. inbox' \in [Conn -> Seq(Unit)] /\ left' \in [Conn -> Seq(Unit)]
  <2>1. CASE Send(c)
    <3>1. left[c] \in Seq(Unit) /\ left[c] # <<>> /\ inbox[c] \in Seq(Unit)
      BY <2>1 DEF Send, IInv, TypeOK
    <3>2. Head(left[c]) \in Unit /\ Tail(left[c]) \in Seq(Unit)
      BY <3>1, HeadTailProperties
    <3>3. Append(inbox[c], Head(left[c])) \in Seq(Unit)
      BY <3>1, <3>2, AppendProperties
    <3> QED BY <2>1, <3>2, <3>3 DEF Send, IInv, TypeOK
  <2>2. CASE Shut(c)
    BY <2>2 DEF Shut, IInv, TypeOK
  <2> QED BY <2>1, <2>2
<1>3. TypeOK'
  BY <1>1, <1>2 DEF IInv, TypeOK
<1>4. SlotsCoherent' /\ ConnectedIsTold' /\ RegisteredFirst'
  BY <1>1 DEF IInv, SlotsCoherent, Taken, ConnectedIsTold, RegisteredFirst
<1>5. OnePlace'
  BY <1>1 DEF IInv, OnePlace, Accepted
<1> QED BY <1>3, <1>4, <1>5 DEF IInv

\* From the start every part of the invariant holds ...
LEMMA TableInit ==
    ASSUME Init
    PROVE  IInv
<1>1. FreeSlot \in Client /\ Len(FreeSlot.buf) <= BufCap
  BY EmptySeq, ClientsAssumption DEF FreeSlot, Client, State
<1>2. <<>> \in Seq(Unit) /\ <<>> \in Seq(Reply) /\ <<>> \in Seq(Conn)
  BY EmptySeq
<1>3. TypeOK
  BY <1>1, <1>2 DEF Init, TypeOK
<1>4. \A i \in Slot : client[i] = FreeSlot
  BY DEF Init
<1>5. SlotsCoherent
  BY <1>4 DEF Init, SlotsCoherent, FreeSlot
<1>6. OnePlace
  BY <1>4, EmptySeq, ClientsAssumption DEF Init, OnePlace, Accepted, FreeSlot
<1>7. ConnectedIsTold
  BY <1>4 DEF ConnectedIsTold, FreeSlot
<1>8. RegisteredFirst
  BY EmptySeq DEF Init, RegisteredFirst
<1> QED BY <1>3, <1>5, <1>6, <1>7, <1>8 DEF IInv

\* ... and every step keeps it.
LEMMA TableStep ==
    ASSUME IInv, [Next]_vars
    PROVE  IInv'
<1>1. CASE Poll
  BY <1>1, PollStep
<1>2. ASSUME NEW i \in Slot, Disconnect(i) PROVE IInv'
  BY <1>2, DisconnectStep
<1>3. ASSUME NEW i \in Slot,
             ReadModule(i) \/ ReadJson(i) \/ Finish(i) \/ \E k \in 1..BufCap : Extract(i, k)
      PROVE  IInv'
  BY <1>3, ServeStep
<1>4. ASSUME NEW c \in Conn, NEW s \in Script, Connect(c, s) PROVE IInv'
  BY <1>4, ConnectStep
<1>5. ASSUME NEW c \in Conn, Send(c) \/ Shut(c) PROVE IInv'
  BY <1>5, PeerStep
<1>6. CASE UNCHANGED vars
  BY <1>6 DEF vars, IInv, TypeOK, SlotsCoherent, Taken, OnePlace, Accepted,
              ConnectedIsTold, RegisteredFirst
<1> QED BY <1>1, <1>2, <1>3, <1>4, <1>5, <1>6 DEF Next, Server, Peers

----------------------------------------------------------------------------
(* What hosts send, and what is due to them.                                 *)

\* A step of the walk along a stream.
DueAfter(s, due, k) ==
    IF k = 0 THEN <<>>
    ELSE IF s[k] \in Completes THEN Append(due[k - 1], Due(s, k)) ELSE due[k - 1]

\* The walk comes to the end of any stream.
LEMMA WalkExists ==
    ASSUME NEW s, NEW n \in Nat
    PROVE  \E f : f = [k \in 0..n |-> DueAfter(s, f, k)]
<1> DEFINE T == {m \in Nat : ~ \E f : \A k \in 0..m : f[k] = DueAfter(s, f, k)}
<1>1. ASSUME T # {} PROVE FALSE
  <2>1. PICK m \in T : \A y \in T : m <= y
    <3>1. T \subseteq Nat
      OBVIOUS
    <3> HIDE DEF T
    <3> QED BY <1>1, <3>1, LeastExists
  <2>2. m \in Nat /\ m # 0
    <3>1. \A k \in 0..0 : [j \in 0..0 |-> <<>>][k] = DueAfter(s, [j \in 0..0 |-> <<>>], k)
      BY DEF DueAfter
    <3> QED BY <3>1
  <2>3. PICK g : \A k \in 0..(m - 1) : g[k] = DueAfter(s, g, k)
    BY <2>1, <2>2
  <2> DEFINE f == [k \in 0..m |-> IF k = m THEN DueAfter(s, g, m) ELSE g[k]]
  <2>4. ASSUME NEW k \in 0..m PROVE f[k] = DueAfter(s, f, k)
    <3>1. k # 0 => f[k - 1] = g[k - 1]
      BY <2>2
    <3>2. DueAfter(s, f, k) = DueAfter(s, g, k)
      BY <3>1 DEF DueAfter
    <3> QED BY <2>2, <2>3, <3>2
  <2> QED BY <2>1, <2>4
<1>2. PICK g : \A k \in 0..n : g[k] = DueAfter(s, g, k)
  BY <1>1
<1> DEFINE f == [k \in 0..n |-> g[k]]
<1>3. \A k \in 0..n : DueAfter(s, g, k) = DueAfter(s, f, k)
  BY DEF DueAfter
<1>4. f = [k \in 0..n |-> DueAfter(s, f, k)]
  BY <1>2, <1>3
<1> QED BY <1>4

\* Each unit adds a reply or none.
LEMMA ExpectedStep ==
    ASSUME NEW s \in Seq(Unit)
    PROVE  /\ Expected(s, 0) = <<>>
           /\ \A k \in 1..Len(s) :
                  Expected(s, k) = IF s[k] \in Completes
                                   THEN Append(Expected(s, k - 1), Due(s, k))
                                   ELSE Expected(s, k - 1)
<1> DEFINE n == Len(s)
           f == CHOOSE f : f = [k \in 0..n |-> DueAfter(s, f, k)]
<1>1. n \in Nat
  BY LenProperties
<1>2. \A k \in 0..n : f[k] = DueAfter(s, f, k)
  <2>1. f = [k \in 0..n |-> DueAfter(s, f, k)]
    BY <1>1, WalkExists
  <2> HIDE DEF f
  <2>2. ASSUME NEW g, g = [k \in 0..n |-> DueAfter(s, g, k)]
        PROVE  \A k \in 0..n : g[k] = DueAfter(s, g, k)
    BY <2>2
  <2> QED BY <2>1, <2>2
<1>3. \A k : Expected(s, k) = f[k]
  BY DEF Expected, DueAfter
<1> HIDE DEF f
<1>4. Expected(s, 0) = <<>>
  BY <1>1, <1>2, <1>3 DEF DueAfter
<1>5. ASSUME NEW k \in 1..n
      PROVE  Expected(s, k) = IF s[k] \in Completes
                              THEN Append(Expected(s, k - 1), Due(s, k))
                              ELSE Expected(s, k - 1)
  <2>1. k \in 0..n /\ k # 0
    BY <1>1, <1>5
  <2> QED BY <2>1, <1>2, <1>3 DEF DueAfter
<1> QED BY <1>4, <1>5

\* Units that complete nothing add no reply.
LEMMA ExpectedSame ==
    ASSUME NEW s \in Seq(Unit), NEW a \in Nat, NEW b \in a..Len(s),
           \A k \in (a + 1)..b : s[k] \notin Completes
    PROVE  Expected(s, b) = Expected(s, a)
<1> DEFINE T == {k \in a..b : Expected(s, k) # Expected(s, a)}
<1>1. Len(s) \in Nat
  BY LenProperties
<1>2. ASSUME T # {} PROVE FALSE
  <2>1. PICK k \in T : \A j \in T : k <= j
    <3>1. T \subseteq Nat
      BY <1>1
    <3> HIDE DEF T
    <3> QED BY <1>2, <3>1, LeastExists
  <2>2. k \in a..b /\ Expected(s, k) # Expected(s, a)
    BY <2>1
  <2>3. k # a
    BY <2>2
  <2>4. k - 1 \in a..b /\ k - 1 \notin T /\ k \in (a + 1)..b /\ k \in 1..Len(s)
    <3>1. k - 1 \in a..b /\ ~(k <= k - 1) /\ k \in (a + 1)..b /\ k \in 1..Len(s)
      BY <1>1, <2>2, <2>3
    <3> HIDE DEF T
    <3> QED BY <3>1, <2>1
  <2>5. Expected(s, k - 1) = Expected(s, a)
    BY <2>4
  <2>6. Expected(s, k) = Expected(s, k - 1)
    BY <2>4, ExpectedStep
  <2> QED BY <2>2, <2>5, <2>6
<1>3. b \in a..b
  BY <1>1
<1> QED BY <1>2, <1>3

\* What is in the buffer between two passes, or cut from it, completes at most its end.
LEMMA Pieces == \A u \in {"Head", "Mid"} : u \notin Completes /\ u \notin Name
  BY ClientsAssumption DEF Completes

\* A whole request at the front of what is left of a host's stream: its reply is
\* the next one due.
LEMMA RequestDue ==
    ASSUME NEW s \in Seq(Unit), HonestHost(s), NEW p \in Nat, NEW b \in Seq(Unit),
           p + Len(b) <= Len(s), \A j \in 1..Len(b) : b[j] = s[p + j],
           NEW k, FrameAt(b, k)
    PROVE  /\ k \in 1..Len(b) /\ p + k \in 1..Len(s) /\ s[p + k] \in Completes
           /\ Expected(s, p + k) = Append(Expected(s, p), Due(s, p + k))
           /\ b[1] \in HostName <=> s[p + k] \in Name
           /\ b[1] \in HostName <=> IsRegistration(b[1])
           /\ \A j \in 1..(p + k) : j \in 1..p \/ j = p + k \/ s[j] \notin Name
<1>1. Len(s) \in Nat /\ Len(b) \in Nat /\ k \in 1..Len(b)
  BY LenProperties DEF FrameAt
<1>2. p + k \in 1..Len(s) /\ k \in Nat \ {0}
  BY <1>1
<1>3. \A j \in 1..Len(s) : s[j] \in HostName \cup {"Cmd", "Head", "Mid", "Tail"}
  BY DEF HonestHost
<1>4. b[1] = s[p + 1] /\ b[k] = s[p + k] /\ p + 1 \in 1..Len(s)
  BY <1>1, <1>2
<1>5. \A j \in (p + 1)..(p + k - 1) : s[j] \in {"Head", "Mid"}
  <2> SUFFICES ASSUME NEW j \in (p + 1)..(p + k - 1) PROVE s[j] \in {"Head", "Mid"}
    OBVIOUS
  <2>1. k > 1 /\ j - p \in 1..(k - 1) /\ j - p \in 1..Len(b) /\ s[j] = b[j - p]
    <3>1. j - p \in 1..(k - 1) /\ j - p \in 1..Len(b) /\ p + (j - p) = j
      BY <1>1, <1>2
    <3> QED BY <3>1, <1>2
  <2>2. b[1] = "Head" /\ \A m \in 2..(k - 1) : b[m] = "Mid"
    BY <2>1, <1>1 DEF FrameAt
  <2>3. j - p = 1 \/ j - p \in 2..(k - 1)
    BY <2>1, <1>2
  <2> QED BY <2>1, <2>2, <2>3
<1>6. s[p + k] \in Completes
  <2>1. CASE k = 1
    <3>1. b[1] \in Name \cup {BadName, "Cmd"}
      BY <2>1 DEF FrameAt
    <3>2. b[1] \in HostName \cup {"Cmd", "Head", "Mid", "Tail"}
      BY <1>3, <1>4
    <3>3. b[1] # BadName
      BY <3>2, ClientsAssumption DEF Name
    <3> QED BY <3>1, <3>3, <1>4, <2>1 DEF Completes
  <2>2. CASE k # 1
    BY <2>2, <1>1, <1>4 DEF FrameAt, Completes
  <2> QED BY <2>1, <2>2
<1>7. Expected(s, p + k - 1) = Expected(s, p)
  <2>1. p + k - 1 \in p..Len(s)
    BY <1>1, <1>2
  <2>2. \A j \in (p + 1)..(p + k - 1) : s[j] \notin Completes
    BY <1>5, Pieces
  <2> QED BY <2>1, <2>2, ExpectedSame
<1>8. Expected(s, p + k) = Append(Expected(s, p), Due(s, p + k))
  BY <1>2, <1>6, <1>7, ExpectedStep
<1>9. b[1] \in HostName <=> s[p + k] \in Name
  <2>1. CASE k = 1
    BY <2>1, <1>3, <1>4, ClientsAssumption DEF Name
  <2>2. CASE k # 1
    BY <2>2, <1>1, <1>4, ClientsAssumption DEF FrameAt, Name
  <2> QED BY <2>1, <2>2
<1>10. b[1] \in HostName <=> IsRegistration(b[1])
  <2>1. b[1] \in HostName \cup {"Cmd", "Head", "Mid", "Tail"}
    BY <1>3, <1>4
  <2> QED BY <2>1, ClientsAssumption DEF IsRegistration, Name
<1>11. \A j \in 1..(p + k) : j \in 1..p \/ j = p + k \/ s[j] \notin Name
  <2>1. \A j \in 1..(p + k) : j \in 1..p \/ j = p + k \/ j \in (p + 1)..(p + k - 1)
    BY <1>2
  <2> QED BY <2>1, <1>5, Pieces
<1> QED BY <1>1, <1>2, <1>6, <1>8, <1>9, <1>10, <1>11

\* Behind a whole request of a host there is a whole request, or the beginning of one.
LEMMA NoRequestYet ==
    ASSUME NEW s \in Seq(Unit), HonestHost(s), NEW p \in Nat, NEW b \in Seq(Unit),
           p + Len(b) <= Len(s), \A j \in 1..Len(b) : b[j] = s[p + j],
           p = 0 \/ s[p] \in Completes,
           \A k \in 1..Len(b) : ~FrameAt(b, k)
    PROVE  Incomplete(b)
<1> DEFINE T == {j \in 1..Len(b) : b[j] # (IF j = 1 THEN "Head" ELSE "Mid")}
<1>1. Len(s) \in Nat /\ Len(b) \in Nat
  BY LenProperties
<1>2. \A k \in 1..Len(s) : /\ s[k] \in HostName \cup {"Cmd", "Head", "Mid", "Tail"}
                           /\ s[k] \in {"Mid", "Tail"} <=> (k > 1 /\ s[k - 1] \in {"Head", "Mid"})
  BY DEF HonestHost
<1>3. ASSUME T # {} PROVE FALSE
  <2>1. PICK j \in T : \A k \in T : j <= k
    <3>1. T \subseteq Nat
      BY <1>1
    <3> HIDE DEF T
    <3> QED BY <1>3, <3>1, LeastExists
  <2>2. j \in 1..Len(b) /\ b[j] # (IF j = 1 THEN "Head" ELSE "Mid")
    BY <2>1
  <2>3. ASSUME NEW k \in 1..Len(b), k < j PROVE b[k] = IF k = 1 THEN "Head" ELSE "Mid"
    <3>1. ~(j <= k)
      BY <2>2, <2>3
    <3>2. k \notin T
      <4> HIDE DEF T
      <4> QED BY <3>1, <2>1
    <3> QED BY <3>2
  <2>4. b[j] = s[p + j] /\ p + j \in 1..Len(s)
    BY <1>1, <2>2
  <2>5. CASE j = 1
    <3>1. p > 0 => s[p] \notin {"Head", "Mid"} /\ p + 1 - 1 = p
      BY Pieces
    <3>2. s[p + 1] \notin {"Mid", "Tail"}
      BY <3>1, <1>2, <2>4, <2>5
    <3>3. b[1] \in Name \cup {"Cmd"}
      BY <3>2, <1>2, <2>2, <2>4, <2>5 DEF Name
    <3>4. FrameAt(b, 1)
      BY <3>3, <2>2, <2>5 DEF FrameAt
    <3> QED BY <3>4, <2>2, <2>5
  <2>6. CASE j # 1
    <3>1. j - 1 \in 1..Len(b) /\ j - 1 < j /\ j > 1 /\ p + j - 1 = p + (j - 1)
      BY <1>1, <2>2, <2>6
    <3>2. b[j - 1] \in {"Head", "Mid"} /\ b[j - 1] = s[p + j - 1]
      BY <3>1, <2>3
    <3>3. s[p + j] \in {"Mid", "Tail"}
      BY <3>1, <3>2, <1>2, <2>4
    <3>4. b[j] = "Tail"
      BY <3>3, <2>2, <2>4, <2>6
    <3>5. b[1] = "Head" /\ \A k \in 2..(j - 1) : b[k] = "Mid"
      <4>1. 1 \in 1..Len(b) /\ 1 < j
        BY <1>1, <2>2, <3>1
      <4>2. \A k \in 2..(j - 1) : k \in 1..Len(b) /\ k < j /\ k # 1
        BY <1>1, <2>2
      <4> QED BY <4>1, <4>2, <2>3
    <3>6. FrameAt(b, j)
      BY <3>1, <3>4, <3>5, <2>2 DEF FrameAt
    <3> QED BY <3>6, <2>2
  <2> QED BY <2>5, <2>6
<1>4. \A j \in 1..Len(b) : b[j] = (IF j = 1 THEN "Head" ELSE "Mid")
  BY <1>3
<1> QED BY <1>4 DEF Incomplete

\* A buffer full of the beginning of a request is all that a host has sent and will.
LEMMA FullIsAll ==
    ASSUME NEW s \in Seq(Unit), HonestHost(s), NEW p \in Nat, NEW b \in Seq(Unit),
           p + Len(b) <= Len(s), \A j \in 1..Len(b) : b[j] = s[p + j],
           Incomplete(b), Len(b) = BufCap
    PROVE  p + Len(b) = Len(s)
<1> DEFINE k == p + BufCap + 1
<1> SUFFICES ASSUME p + Len(b) # Len(s) PROVE FALSE
  OBVIOUS
<1>1. Len(s) \in Nat /\ BufCap \in Nat \ {0}
  BY LenProperties, ClientsAssumption
<1>2. k \in 1..Len(s) /\ k > BufCap /\ k > 1 /\ k - 1 = p + BufCap
  BY <1>1
<1>3. \A j \in 1..BufCap : s[p + j] = IF j = 1 THEN "Head" ELSE "Mid"
  BY <1>1 DEF Incomplete
<1>4. s[k] \in {"Mid", "Tail"}
  <2>1. s[p + BufCap] \in {"Head", "Mid"}
    <3>1. BufCap \in 1..BufCap
      BY <1>1
    <3> QED BY <3>1, <1>3
  <2> QED BY <2>1, <1>2 DEF HonestHost
<1>5. \A j \in (k - BufCap + 1)..k : j = k \/ s[j] = "Mid"
  <2> TAKE j \in (k - BufCap + 1)..k
  <2>1. j = k \/ (j - p \in 1..BufCap /\ j - p # 1 /\ p + (j - p) = j)
    BY <1>1
  <2> HIDE DEF k
  <2> QED BY <2>1, <1>3
<1> HIDE DEF k
<1>6. CASE s[k] = "Mid"
  <2>1. \A j \in (k - BufCap + 1)..k : s[j] = "Mid"
    BY <1>5, <1>6
  <2> QED BY <2>1, <1>2 DEF HonestHost
<1>7. CASE s[k] = "Tail"
  <2>1. \A j \in (k - BufCap + 1)..k : s[j] # "Head"
    BY <1>5, <1>7
  <2> QED BY <2>1, <1>2, <1>7 DEF HonestHost
<1> QED BY <1>4, <1>6, <1>7

----------------------------------------------------------------------------
(* Where a host's stream is: cut into what was answered, the buffer of its  *)
(* slot, the socket, and what it has still to send.                          *)

\* A stream s of which l is not sent, and n not read.
Placed(s, l, n) ==
    /\ Len(l) + Len(n) <= Len(s)
    /\ \A k \in 1..Len(l) : l[k] = s[(Len(s) - Len(l)) + k]
    /\ \A k \in 1..Len(n) : n[k] = s[((Len(s) - Len(l)) - Len(n)) + k]

StreamInv ==
    \A c \in Conn : /\ Placed(script[c], left[c], inbox[c])
                    /\ ~Accepted(c) => Drawn(c) = 0 /\ out[c] = <<>>
                    /\ peer[c] = "unused" => script[c] = <<>>

\* What select() found readable is so until it is read.
TodoInv == \A i \in todo \ {cur} : Readable(client[i].sd)

\* A slot that serves the host's stream s, p units of which are answered with o; busy
\* while requests are cut from its buffer.
Serving(s, p, slot, o, busy) ==
    /\ p \in Nat /\ p + Len(slot.buf) <= Len(s)
    /\ \A k \in 1..Len(slot.buf) : slot.buf[k] = s[p + k]
    /\ p = 0 \/ s[p] \in Completes
    /\ busy \/ Incomplete(slot.buf)
    /\ slot.cid \notin ModuleName
    /\ slot.state = "CONNECTED" <=> \E j \in 1..p : s[j] \in Name
    /\ o = Expected(s, p)

ServesHost(i) ==
    client[i].sd \in Conn /\ HonestHost(script[client[i].sd]) =>
        Serving(script[client[i].sd], Consumed(i), client[i], out[client[i].sd], cur = i)

HostsInv == StreamInv /\ TodoInv /\ \A i \in Slot : ServesHost(i)

\* The lengths that Drawn and Consumed are made of.
LEMMA Lengths ==
    ASSUME TypeOK, StreamInv, NEW c \in Conn
    PROVE  /\ script[c] \in Seq(Unit) /\ left[c] \in Seq(Unit) /\ inbox[c] \in Seq(Unit)
           /\ Len(script[c]) \in Nat /\ Len(left[c]) \in Nat /\ Len(inbox[c]) \in Nat
           /\ Len(left[c]) + Len(inbox[c]) <= Len(script[c])
           /\ Drawn(c) = (Len(script[c]) - Len(left[c])) - Len(inbox[c])
           /\ Drawn(c) \in Nat
<1>1. script[c] \in Seq(Unit) /\ left[c] \in Seq(Unit) /\ inbox[c] \in Seq(Unit)
  BY DEF TypeOK
<1>2. Len(script[c]) \in Nat /\ Len(left[c]) \in Nat /\ Len(inbox[c]) \in Nat
  BY <1>1, LenProperties
<1>3. Len(left[c]) + Len(inbox[c]) <= Len(script[c])
  BY DEF StreamInv, Placed
<1>4. Drawn(c) = (Len(script[c]) - Len(left[c])) - Len(inbox[c])
  BY DEF Drawn, Sent
<1>5. Drawn(c) \in Nat
  <2> DEFINE a == Len(script[c])
             b == Len(left[c])
             d == Len(inbox[c])
  <2>1. a \in Nat /\ b \in Nat /\ d \in Nat /\ b + d <= a /\ Drawn(c) = (a - b) - d
    BY <1>2, <1>3, <1>4
  <2> HIDE DEF a, b, d
  <2> QED BY <2>1
<1> QED BY <1>1, <1>2, <1>3, <1>4, <1>5

\* What is read is gone from the front of the socket.
LEMMA PlacedRead ==
    ASSUME NEW s \in Seq(Unit), NEW l \in Seq(Unit), NEW n \in Seq(Unit), Placed(s, l, n),
           NEW h \in 0..Len(n)
    PROVE  /\ Len(SubSeq(n, h + 1, Len(n))) = Len(n) - h
           /\ Placed(s, l, SubSeq(n, h + 1, Len(n)))
<1> DEFINE m == SubSeq(n, h + 1, Len(n))
<1>1. Len(s) \in Nat /\ Len(l) \in Nat /\ Len(n) \in Nat /\ h \in Nat
  BY LenProperties
<1>2. Len(m) = Len(n) - h /\ \A k \in 1..(Len(n) - h) : m[k] = n[h + k]
  <2>1. h + 1 \in Int /\ Len(n) \in Int /\ \A k \in (h + 1)..Len(n) : n[k] \in Unit
    BY <1>1, ElementOfSeq
  <2>2. /\ Len(m) = IF h + 1 <= Len(n) THEN Len(n) - (h + 1) + 1 ELSE 0
        /\ \A k \in 1..(Len(n) - (h + 1) + 1) : m[k] = n[(h + 1) + k - 1]
    BY <2>1, SubSeqProperties
  <2>3. Len(n) - (h + 1) + 1 = Len(n) - h /\ \A k \in Int : (h + 1) + k - 1 = h + k
    BY <1>1
  <2>4. Len(m) = Len(n) - h
    <3>1. (IF h + 1 <= Len(n) THEN Len(n) - (h + 1) + 1 ELSE 0) = Len(n) - h
      BY <1>1
    <3> QED BY <2>2, <3>1
  <2>5. ASSUME NEW k \in 1..(Len(n) - h) PROVE m[k] = n[h + k]
    <3>1. k \in 1..(Len(n) - (h + 1) + 1) /\ (h + 1) + k - 1 = h + k
      BY <2>3
    <3> HIDE DEF m
    <3> QED BY <2>2, <3>1
  <2> QED BY <2>4, <2>5
<1> HIDE DEF m
<1>3. \A k \in 1..Len(m) : m[k] = s[((Len(s) - Len(l)) - Len(m)) + k]
  <2> TAKE k \in 1..Len(m)
  <2>1. h + k \in 1..Len(n) /\ ((Len(s) - Len(l)) - Len(m)) + k = ((Len(s) - Len(l)) - Len(n)) + (h + k)
    BY <1>1, <1>2
  <2> QED BY <2>1, <1>2 DEF Placed
<1>4. Len(l) + Len(m) <= Len(s)
  <2>1. Len(l) + Len(n) <= Len(s)
    BY DEF Placed
  <2> QED BY <2>1, <1>1, <1>2
<1> QED BY <1>2, <1>3, <1>4 DEF Placed, m

\* A slot that a step does not touch goes on as before.
LEMMA SlotKept ==
    ASSUME TypeOK, NEW i \in Slot, ServesHost(i), client'[i] = client[i],
           client[i].sd \in Conn =>
               /\ script'[client[i].sd] = script[client[i].sd]
               /\ out'[client[i].sd] = out[client[i].sd]
               /\ Drawn(client[i].sd)' = Drawn(client[i].sd),
           cur = i => cur' = i
    PROVE  ServesHost(i)'
<1> SUFFICES ASSUME client'[i].sd \in Conn, HonestHost(script'[client'[i].sd])
             PROVE  Serving(script'[client'[i].sd], Consumed(i)', client'[i], out'[client'[i].sd], cur' = i)
  BY DEF ServesHost
<1>1. Consumed(i)' = Consumed(i)
  <2>1. Consumed(i)' = Drawn(client[i].sd)' - Len(client[i].buf)
    BY DEF Consumed, Drawn, Sent
  <2> QED BY <2>1 DEF Consumed
<1>2. Serving(script[client[i].sd], Consumed(i), client[i], out[client[i].sd], cur = i)
  BY DEF ServesHost
<1> QED BY <1>1, <1>2 DEF Serving

\* What the server's steps on a slot have in common: they keep to it and its socket.
LEMMA ServerKeepsOthers ==
    ASSUME IInv, HostsInv, NEW i \in Slot,
           Disconnect(i) \/ ReadModule(i) \/ ReadJson(i) \/ Finish(i)
               \/ \E k \in 1..BufCap : Extract(i, k)
    PROVE  /\ client[i].sd \in Conn /\ client[i].sd # NoSd
           /\ \A j \in Slot : j # i => ServesHost(j)' /\ client'[j] = client[j]
           /\ \A d \in Conn : d # client[i].sd =>
                  /\ Placed(script'[d], left'[d], inbox'[d])
                  /\ ~Accepted(d)' => Drawn(d)' = 0 /\ out'[d] = <<>>
                  /\ peer'[d] = "unused" => script'[d] = <<>>
           /\ TodoInv'
<1> DEFINE c == client[i].sd
<1>1. c \in Conn /\ c # NoSd /\ i # 0
  <2>1. Scanned(i) \/ cur = i
    BY DEF Disconnect, ReadModule, ReadJson, Finish, Extract
  <2>2. i # 0
    BY ClientsAssumption DEF Slot
  <2> QED BY <2>1, <2>2, ServesASocket DEF IInv
<1>2. cur \in {0, i} /\ cur' \in {0, i} /\ todo' \ {cur'} \subseteq (todo \ {cur}) \ {i}
  <2>1. cur \in {0, i}
    BY DEF Disconnect, ReadModule, ReadJson, Finish, Extract, Scanned
  <2>2. \/ cur' = cur /\ todo' = todo \ {i}
        \/ cur' = i /\ todo' = todo
        \/ cur' = 0 /\ todo' = todo \ {i}
    BY DEF Disconnect, ReadModule, ReadJson, Finish, Extract
  <2>3. 0 \notin todo
    BY ClientsAssumption DEF IInv, TypeOK, Slot
  <2> QED BY <2>1, <2>2, <2>3
<1>3. \A j \in Slot : j # i => client'[j] = client[j] /\ client[j].sd # c
  <2>1. \A j \in Slot : j # i => client'[j] = client[j]
    BY DEF Disconnect, ReadModule, ReadJson, Finish, Extract, IInv, TypeOK
  <2> QED BY <2>1, <1>1 DEF IInv, OnePlace
<1>4. \A d \in Conn : d # c =>
          /\ script'[d] = script[d] /\ left'[d] = left[d] /\ inbox'[d] = inbox[d]
          /\ out'[d] = out[d] /\ peer'[d] = peer[d]
  BY DEF Disconnect, ReadModule, ReadJson, Finish, Extract, peerVars, IInv, TypeOK
<1>5. \A d \in Conn : d # c => Drawn(d)' = Drawn(d)
  BY <1>4 DEF Drawn, Sent
<1>6. ASSUME NEW j \in Slot, j # i PROVE ServesHost(j)'
  <2>1. cur = j => cur' = j
    BY <1>1, <1>2, <1>6, ClientsAssumption DEF Slot
  <2>2. client'[j] = client[j] /\ (client[j].sd \in Conn =>
            /\ script'[client[j].sd] = script[client[j].sd] /\ out'[client[j].sd] = out[client[j].sd]
            /\ Drawn(client[j].sd)' = Drawn(client[j].sd))
    BY <1>3, <1>4, <1>5, <1>6
  <2> QED BY <2>1, <2>2, SlotKept DEF IInv, HostsInv
<1>7. ASSUME NEW d \in Conn, d # c
      PROVE  /\ Placed(script'[d], left'[d], inbox'[d])
             /\ ~Accepted(d)' => Drawn(d)' = 0 /\ out'[d] = <<>>
             /\ peer'[d] = "unused" => script'[d] = <<>>
  <2>1. Accepted(d) => Accepted(d)'
    BY <1>3, <1>7 DEF Accepted
  <2> QED BY <2>1, <1>4, <1>5, <1>7 DEF HostsInv, StreamInv
<1>8. TodoInv'
  <2> SUFFICES ASSUME NEW j \in todo' \ {cur'} PROVE Readable(client[j].sd)'  /\ client'[j] = client[j]
    BY DEF TodoInv, Readable
  <2>1. j \in todo \ {cur} /\ j # i /\ j \in Slot
    BY <1>2 DEF IInv, TypeOK
  <2>2. client'[j] = client[j] /\ client[j].sd # c /\ client[j].sd \in Conn
    BY <2>1, <1>3 DEF IInv, TypeOK, SlotsCoherent, Taken, Client
  <2>3. Readable(client[j].sd)
    BY <2>1 DEF HostsInv, TodoInv
  <2>4. inbox'[client[j].sd] = inbox[client[j].sd] /\ peer'[client[j].sd] = peer[client[j].sd]
    BY <2>2, <1>4
  <2>5. Readable(client[j].sd)'
    BY <2>2, <2>3, <2>4 DEF Readable
  <2> QED BY <2>2, <2>5
<1> HIDE DEF c
<1> QED BY <1>1, <1>3, <1>6, <1>7, <1>8 DEF c

\* A step on a slot keeps all that is known, if it does so for the slot and its socket.
LEMMA HostsAfter ==
    ASSUME IInv, HostsInv, NEW i \in Slot,
           Disconnect(i) \/ ReadModule(i) \/ ReadJson(i) \/ Finish(i)
               \/ \E k \in 1..BufCap : Extract(i, k),
           NEW c \in Conn, client[i].sd = c, Placed(script'[c], left'[c], inbox'[c]),
           \/ client'[i].sd = c /\ peer'[c] # "unused"
           \/ Drawn(c)' = 0 /\ out'[c] = <<>> /\ script'[c] = <<>>,
           ServesHost(i)'
    PROVE  HostsInv'
<1>1. \A j \in Slot : ServesHost(j)'
  BY ServerKeepsOthers
<1>2. TodoInv'
  BY ServerKeepsOthers
<1>3. /\ Placed(script'[c], left'[c], inbox'[c])
      /\ ~Accepted(c)' => Drawn(c)' = 0 /\ out'[c] = <<>>
      /\ peer'[c] = "unused" => script'[c] = <<>>
  <2>1. client'[i].sd = c => Accepted(c)'
    BY DEF Accepted
  <2> QED BY <2>1
<1>4. StreamInv'
  <2> SUFFICES ASSUME NEW d \in Conn
               PROVE  /\ Placed(script'[d], left'[d], inbox'[d])
                      /\ ~Accepted(d)' => Drawn(d)' = 0 /\ out'[d] = <<>>
                      /\ peer'[d] = "unused" => script'[d] = <<>>
    BY DEF StreamInv
  <2>1. CASE d = c
    BY <2>1, <1>3
  <2>2. CASE d # c
    BY <2>2, ServerKeepsOthers
  <2> QED BY <2>1, <2>2
<1> QED BY <1>1, <1>2, <1>4 DEF HostsInv

\* The slot is free again, and so is the number of its socket.
LEMMA DisconnectHosts ==
    ASSUME IInv, HostsInv, NEW i \in Slot, Disconnect(i)
    PROVE  HostsInv'
<1>1. PICK c \in Conn : client[i].sd = c
  BY ServerKeepsOthers
<1>2. script'[c] = <<>> /\ left'[c] = <<>> /\ inbox'[c] = <<>> /\ out'[c] = <<>>
  BY <1>1 DEF Disconnect, IInv, TypeOK
<1>3. Placed(script'[c], left'[c], inbox'[c]) /\ Drawn(c)' = 0
  <2>1. Drawn(c)' = (Len(script'[c]) - Len(left'[c])) - Len(inbox'[c])
    BY DEF Drawn, Sent
  <2>2. Len(<<>>) = 0
    BY EmptySeq
  <2>3. Placed(<<>>, <<>>, <<>>)
    BY <2>2 DEF Placed
  <2>4. Placed(script'[c], left'[c], inbox'[c])
    BY <1>2, <2>3
  <2>5. Drawn(c)' = 0
    <3>1. Len(script'[c]) = 0 /\ Len(left'[c]) = 0 /\ Len(inbox'[c]) = 0
      BY <1>2, <2>2
    <3>2. Drawn(c)' = (0 - 0) - 0
      BY <2>1, <3>1, Zenon
    <3> QED BY <3>2
  <2> QED BY <2>4, <2>5
<1>4. client'[i].sd = NoSd
  BY DEF Disconnect, ResetSlot, FreeSlot, IInv, TypeOK
<1>5. ServesHost(i)'
  BY <1>4, ClientsAssumption DEF ServesHost
<1> QED BY <1>1, <1>2, <1>3, <1>5, HostsAfter

\* What was in the socket is in the buffer, behind what was there.
LEMMA ReadJsonHosts ==
    ASSUME IInv, HostsInv, NEW i \in Slot, ReadJson(i)
    PROVE  HostsInv'
<1>1. PICK c \in Conn : client[i].sd = c /\ TypeOK /\ StreamInv
  BY ServerKeepsOthers DEF IInv, HostsInv
<1> DEFINE s == script[c]
           n == inbox[c]
           h == Chunk(i)
           l == left[c]
           b == client[i].buf
           m == SubSeq(n, h + 1, Len(n))
           p == Consumed(i)
<1>2. /\ s \in Seq(Unit) /\ l \in Seq(Unit) /\ n \in Seq(Unit) /\ b \in Seq(Unit)
      /\ Len(s) \in Nat /\ Len(l) \in Nat /\ Len(n) \in Nat /\ Len(b) \in Nat
      /\ Drawn(c) = (Len(s) - Len(l)) - Len(n) /\ Drawn(c) \in Nat
      /\ Placed(s, l, n)
  BY <1>1, Lengths, LenProperties DEF IInv, TypeOK, Client, StreamInv
<1>3. h \in 0..Len(n)
  BY <1>1, ChunkBounds
<1>4. Len(m) = Len(n) - h /\ Placed(s, l, m)
  <2> HIDE DEF h, n, l, s
  <2> QED BY <1>2, <1>3, PlacedRead
<1>5. /\ client' = [client EXCEPT ![i].buf = Arrived(i)] /\ inbox' = [inbox EXCEPT ![c] = m]
      /\ cur' = i /\ UNCHANGED <<peer, script, left, out>>
  BY <1>1 DEF ReadJson, peerVars
<1>6. client'[i] = [client[i] EXCEPT !.buf = Arrived(i)] /\ client'[i].sd = c
      /\ client[i] \in Client /\ inbox'[c] = m
  BY <1>1, <1>5 DEF TypeOK, Client
<1>7. peer'[c] # "unused"
  BY <1>1, <1>5 DEF IInv, OnePlace, Accepted
<1>8. Len(Arrived(i)) = Len(b) + h
      /\ \A k \in 1..(Len(b) + h) : Arrived(i)[k] = IF k <= Len(b) THEN b[k] ELSE n[k - Len(b)]
  <2> DEFINE f == SubSeq(n, 1, h)
  <2>1. 1 \in Int /\ h \in Int /\ \A k \in 1..h : n[k] \in Unit
    BY <1>2, <1>3, ElementOfSeq
  <2>2. f \in Seq(Unit) /\ Len(f) = (IF 1 <= h THEN h - 1 + 1 ELSE 0)
        /\ \A k \in 1..(h - 1 + 1) : f[k] = n[1 + k - 1]
    <3> HIDE DEF h, n
    <3> QED BY <2>1, SubSeqProperties
  <2>3. Len(f) = h /\ \A k \in 1..h : f[k] = n[k]
    <3>1. (IF 1 <= h THEN h - 1 + 1 ELSE 0) = h /\ h - 1 + 1 = h /\ \A k \in Int : 1 + k - 1 = k
      BY <1>2, <1>3
    <3> HIDE DEF f, h, n
    <3> QED BY <2>2, <3>1
  <2>4. Arrived(i) = b \o f
    BY <1>1 DEF Arrived
  <2> HIDE DEF f, h, n, b
  <2>5. Len(b \o f) = Len(b) + h
        /\ \A k \in 1..(Len(b) + h) : (b \o f)[k] = IF k <= Len(b) THEN b[k] ELSE f[k - Len(b)]
    BY <1>2, <2>2, <2>3, ConcatProperties
  <2>6. \A k \in 1..(Len(b) + h) : k <= Len(b) \/ k - Len(b) \in 1..h
    BY <1>2, <1>3
  <2> QED BY <2>3, <2>4, <2>5, <2>6
<1>9. p = Drawn(c) - Len(b) /\ Consumed(i)' = p
  <2>1. p = Drawn(c) - Len(b)
    BY <1>1 DEF Consumed
  <2>2. Consumed(i)' = ((Len(s) - Len(l)) - Len(m)) - Len(Arrived(i))
    <3>1. client'[i].buf = Arrived(i)
      BY <1>6 DEF Client
    <3>2. script'[c] = s /\ left'[c] = l
      BY <1>5
    <3>3. Consumed(i)' = ((Len(script'[c]) - Len(left'[c])) - Len(inbox'[c])) - Len(client'[i].buf)
      BY <1>6 DEF Consumed, Drawn, Sent
    <3> HIDE DEF m, l, s
    <3> QED BY <3>1, <3>2, <3>3, <1>6
  <2> HIDE DEF p, b, m, h, n, l, s
  <2> QED BY <2>1, <2>2, <1>2, <1>3, <1>4, <1>8
<1>10. ServesHost(i)'
  <2> SUFFICES ASSUME HonestHost(s)
               PROVE  Serving(s, p, client'[i], out[c], TRUE)
    BY <1>5, <1>6, <1>9 DEF ServesHost, Serving
  <2>1. Serving(s, p, client[i], out[c], cur = i)
    BY <1>1 DEF HostsInv, ServesHost
  <2>2. client'[i].buf = Arrived(i) /\ client'[i].cid = client[i].cid /\ client'[i].state = client[i].state
    BY <1>6 DEF Client
  <2>3. p \in Nat /\ p + Len(b) <= Len(s) /\ \A k \in 1..Len(b) : b[k] = s[p + k]
    BY <2>1 DEF Serving
  <2>4. \A k \in 1..Len(n) : n[k] = s[Drawn(c) + k]
    BY <1>2 DEF Placed
  <2> HIDE DEF p, b, m, h, n, l, s
  <2>5. p + (Len(b) + h) <= Len(s)
    <3>1. p = ((Len(s) - Len(l)) - Len(n)) - Len(b)
      BY <1>2, <1>9
    <3> QED BY <3>1, <1>2, <1>3
  <2>6. ASSUME NEW k \in 1..(Len(b) + h) PROVE Arrived(i)[k] = s[p + k]
    <3>1. CASE k <= Len(b)
      <4>1. k \in 1..Len(b)
        BY <1>2, <1>3, <3>1
      <4> QED BY <4>1, <3>1, <1>8, <2>3
    <3>2. CASE ~(k <= Len(b))
      <4>1. k - Len(b) \in 1..Len(n) /\ Drawn(c) + (k - Len(b)) = p + k
        BY <1>2, <1>3, <1>9, <3>2
      <4> QED BY <4>1, <3>2, <1>8, <2>4
    <3> QED BY <3>1, <3>2
  <2> QED BY <2>1, <2>2, <2>5, <2>6, <1>8 DEF Serving
<1> HIDE DEF m
<1>11. Placed(script'[c], left'[c], inbox'[c])
  BY <1>4, <1>5, <1>6
<1> QED BY <1>1, <1>6, <1>7, <1>10, <1>11, HostsAfter

\* A host is never served as a module.
LEMMA ReadModuleHosts ==
    ASSUME IInv, HostsInv, NEW i \in Slot, ReadModule(i)
    PROVE  HostsInv'
<1>1. PICK c \in Conn : client[i].sd = c /\ TypeOK /\ StreamInv
  BY ServerKeepsOthers DEF IInv, HostsInv
<1> DEFINE n == inbox[c]
           h == Chunk(i)
           m == SubSeq(n, h + 1, Len(n))
<1>2. /\ script[c] \in Seq(Unit) /\ left[c] \in Seq(Unit) /\ n \in Seq(Unit)
      /\ Placed(script[c], left[c], n) /\ h \in 0..Len(n)
  BY <1>1, ChunkBounds DEF TypeOK, StreamInv
<1>3. Placed(script[c], left[c], m)
  <2> HIDE DEF h, n
  <2> QED BY <1>2, PlacedRead
<1>4. inbox'[c] = m /\ UNCHANGED <<peer, script, left>>
  BY <1>1 DEF ReadModule, peerVars, TypeOK
<1>5. client'[i].sd = c
  BY <1>1 DEF ReadModule, TypeOK, Client
<1>6. peer'[c] # "unused"
  BY <1>1, <1>4 DEF IInv, OnePlace, Accepted
<1>7. ~HonestHost(script[c])
  <2>1. client[i].cid \in ModuleName
    BY DEF ReadModule, IsModule
  <2> QED BY <2>1, <1>1 DEF HostsInv, ServesHost, Serving
<1>8. ServesHost(i)'
  BY <1>4, <1>5, <1>7 DEF ServesHost
<1> HIDE DEF m
<1> QED BY <1>1, <1>3, <1>4, <1>5, <1>6, <1>8, HostsAfter

\* What is left in a host's buffer is the beginning of a request, which is kept.
LEMMA FinishHosts ==
    ASSUME IInv, HostsInv, NEW i \in Slot, Finish(i)
    PROVE  HostsInv'
<1>1. PICK c \in Conn : client[i].sd = c /\ TypeOK
  BY ServerKeepsOthers DEF IInv
<1> DEFINE s == script[c]
           b == client[i].buf
<1>2. UNCHANGED <<peer, script, left, inbox, out>> /\ cur' = 0 /\ i # 0
  BY ClientsAssumption DEF Finish, peerVars, Slot
<1>3. client'[i] = [client[i] EXCEPT !.buf = IF Incomplete(@) THEN @ ELSE <<>>] /\ client'[i].sd = c
  BY <1>1 DEF Finish, TypeOK, Client
<1>4. peer'[c] # "unused"
  BY <1>1, <1>2 DEF IInv, OnePlace, Accepted
<1>5. ServesHost(i)'
  <2> SUFFICES ASSUME HonestHost(s)
               PROVE  Serving(s, Consumed(i)', client'[i], out[c], FALSE)
    BY <1>2, <1>3 DEF ServesHost, Serving
  <2>1. Serving(s, Consumed(i), client[i], out[c], cur = i)
    BY <1>1 DEF HostsInv, ServesHost
  <2>2. Incomplete(b)
    <3>1. s \in Seq(Unit) /\ b \in Seq(Unit) /\ \A k \in 1..Len(b) : ~FrameAt(b, k)
      BY <1>1 DEF TypeOK, Client, Finish
    <3>2. /\ Consumed(i) \in Nat /\ Consumed(i) + Len(b) <= Len(s)
          /\ \A j \in 1..Len(b) : b[j] = s[Consumed(i) + j]
          /\ Consumed(i) = 0 \/ s[Consumed(i)] \in Completes
      BY <2>1 DEF Serving
    <3> HIDE DEF s, b
    <3> QED BY <3>1, <3>2, NoRequestYet
  <2>3. client'[i] = client[i]
    BY <1>1, <1>3, <2>2 DEF TypeOK, Client
  <2>4. Consumed(i)' = Consumed(i)
    BY <1>2, <2>3 DEF Consumed, Drawn, Sent
  <2> QED BY <2>1, <2>2, <2>3, <2>4 DEF Serving
<1>6. Placed(script'[c], left'[c], inbox'[c])
  BY <1>1, <1>2 DEF HostsInv, StreamInv
<1> QED BY <1>1, <1>3, <1>4, <1>5, <1>6, HostsAfter

\* A request cut from a host's buffer is answered with what is due.
LEMMA ExtractHosts ==
    ASSUME IInv, HostsInv, NEW i \in Slot, NEW k \in 1..BufCap, Extract(i, k)
    PROVE  HostsInv'
<1>1. PICK c \in Conn : client[i].sd = c /\ TypeOK /\ StreamInv
  BY ServerKeepsOthers DEF IInv, HostsInv
<1> DEFINE s == script[c]
           b == client[i].buf
           u == b[1]
           rest == AfterFrame(i, k)
           told == Answer(i, u) = "registered"
           p == Consumed(i)
<1>2. /\ s \in Seq(Unit) /\ b \in Seq(Unit) /\ Len(s) \in Nat /\ Len(b) \in Nat
      /\ FrameAt(b, k) /\ k \in 1..Len(b) /\ client[i] \in Client
  BY <1>1, LenProperties DEF Extract, FrameAt, TypeOK, Client
<1>3. /\ UNCHANGED <<peer, script, left, inbox>> /\ cur' = i
      /\ client'[i] = IF told
                      THEN [client[i] EXCEPT !.state = "CONNECTED", !.cid = Identity(u), !.buf = rest]
                      ELSE [client[i] EXCEPT !.buf = rest]
      /\ out'[c] = Append(out[c], Answer(i, u))
  BY <1>1 DEF Extract, peerVars, TypeOK
<1>4. /\ client'[i].sd = c /\ client'[i].buf = rest
      /\ client'[i].state = IF told THEN "CONNECTED" ELSE client[i].state
      /\ client'[i].cid = IF told THEN Identity(u) ELSE client[i].cid
  <2> HIDE DEF rest, told, u
  <2> QED BY <1>1, <1>2, <1>3 DEF Client
<1>5. peer'[c] # "unused"
  BY <1>1, <1>3 DEF IInv, OnePlace, Accepted
<1>6. Len(rest) = Len(b) - k /\ \A j \in 1..(Len(b) - k) : rest[j] = b[k + j]
  <2>1. k \in Nat /\ k + 1 \in Int /\ Len(b) \in Int /\ \A j \in (k + 1)..Len(b) : b[j] \in Unit
    BY <1>2, ElementOfSeq
  <2>2. /\ Len(rest) = IF k + 1 <= Len(b) THEN Len(b) - (k + 1) + 1 ELSE 0
        /\ \A j \in 1..(Len(b) - (k + 1) + 1) : rest[j] = b[(k + 1) + j - 1]
    BY <2>1, SubSeqProperties DEF AfterFrame
  <2>3. (IF k + 1 <= Len(b) THEN Len(b) - (k + 1) + 1 ELSE 0) = Len(b) - k
    BY <1>2, <2>1
  <2>4. ASSUME NEW j \in 1..(Len(b) - k) PROVE rest[j] = b[k + j]
    <3>1. j \in 1..(Len(b) - (k + 1) + 1) /\ (k + 1) + j - 1 = k + j
      BY <1>2, <2>1
    <3> HIDE DEF rest, b
    <3> QED BY <2>2, <3>1
  <2> HIDE DEF rest, b
  <2> QED BY <2>2, <2>3, <2>4
<1>7. Consumed(i)' = p + k
  <2> DEFINE q == Drawn(c)
  <2>1. p = q - Len(b)
    BY <1>1 DEF Consumed
  <2>2. Consumed(i)' = q - Len(rest)
    BY <1>3, <1>4 DEF Consumed, Drawn, Sent
  <2>3. q \in Nat
    BY <1>1, Lengths
  <2> HIDE DEF q, p, b, rest
  <2> QED BY <2>1, <2>2, <2>3, <1>2, <1>6
<1>8. ServesHost(i)'
  <2> SUFFICES ASSUME HonestHost(s)
               PROVE  Serving(s, p + k, client'[i], out'[c], TRUE)
    BY <1>3, <1>4, <1>7 DEF ServesHost, Serving
  <2>1. /\ p \in Nat /\ p + Len(b) <= Len(s) /\ \A j \in 1..Len(b) : b[j] = s[p + j]
        /\ client[i].cid \notin ModuleName
        /\ client[i].state = "CONNECTED" <=> \E j \in 1..p : s[j] \in Name
        /\ out[c] = Expected(s, p)
    BY <1>1 DEF HostsInv, ServesHost, Serving
  <2> HIDE DEF p, s, b, rest
  <2>2. /\ p + k \in 1..Len(s) /\ s[p + k] \in Completes
        /\ Expected(s, p + k) = Append(Expected(s, p), Due(s, p + k))
        /\ u \in HostName <=> s[p + k] \in Name
        /\ u \in HostName <=> IsRegistration(u)
        /\ \A j \in 1..(p + k) : j \in 1..p \/ j = p + k \/ s[j] \notin Name
    BY <1>2, <2>1, RequestDue, ZenonT(60)
  <2>3. u \in HostName => Identity(u) = u /\ u # Invalid /\ u \notin ModuleName
    BY ClientsAssumption DEF Identity, Name
  <2> HIDE DEF u
  <2>4. (\E j \in 1..(p + k - 1) : s[j] \in Name) <=> client[i].state = "CONNECTED"
    <3>1. \A j \in 1..(p + k - 1) : j \in 1..(p + k) /\ j # p + k
      BY <1>2, <2>1
    <3>2. \A j \in 1..p : j \in 1..(p + k - 1)
      BY <1>2, <2>1
    <3> QED BY <3>1, <3>2, <2>1, <2>2
  <2>5. Answer(i, u) = Due(s, p + k)
    <3> DEFINE known == client[i].state = "CONNECTED"
    <3>1. Due(s, p + k) = IF s[p + k] \in Name THEN IF known THEN "failed" ELSE "registered"
                          ELSE IF known THEN "done" ELSE "notPermitted"
      <4>1. CASE known
        BY <1>2, <2>1, <2>4, <4>1 DEF Due
      <4>2. CASE ~known
        BY <1>2, <2>1, <2>4, <4>2 DEF Due
      <4> QED BY <4>1, <4>2
    <3>2. Answer(i, u) = IF known THEN IF u \in HostName THEN "failed" ELSE "done"
                         ELSE IF u \in HostName THEN "registered" ELSE "notPermitted"
      BY <2>2, <2>3 DEF Answer
    <3> QED BY <2>2, <3>1, <3>2
  <2>6. out'[c] = Expected(s, p + k)
    BY <1>3, <2>1, <2>2, <2>5
  <2>7. told => u \in HostName
    BY <2>2 DEF Answer
  <2>8. told <=> u \in HostName /\ client[i].state # "CONNECTED"
    BY <2>2, <2>3 DEF Answer
  <2> HIDE DEF told
  <2>9. client'[i].cid \notin ModuleName
    BY <1>4, <2>1, <2>3, <2>7
  <2>10. client'[i].state = "CONNECTED" <=> \E j \in 1..(p + k) : s[j] \in Name
    <3>1. p + k \in 1..(p + k) /\ \A j \in 1..p : j \in 1..(p + k)
      BY <1>2, <2>1, <2>2
    <3>2. (\E j \in 1..(p + k) : s[j] \in Name) <=> (\E j \in 1..p : s[j] \in Name) \/ s[p + k] \in Name
      BY <3>1, <2>2
    <3> QED BY <3>2, <1>4, <2>1, <2>2, <2>8
  <2>11. p + k \in Nat /\ (p + k) + Len(rest) <= Len(s)
    BY <1>2, <1>6, <2>1
  <2>12. ASSUME NEW j \in 1..Len(rest) PROVE rest[j] = s[(p + k) + j]
    <3>1. j \in 1..(Len(b) - k) /\ k + j \in 1..Len(b) /\ p + (k + j) = (p + k) + j
      BY <1>2, <1>6, <2>1
    <3> QED BY <3>1, <1>6, <2>1
  <2> QED BY <1>4, <2>2, <2>6, <2>9, <2>10, <2>11, <2>12 DEF Serving
<1>9. Placed(script'[c], left'[c], inbox'[c])
  BY <1>3 DEF HostsInv, StreamInv
<1> QED BY <1>1, <1>4, <1>5, <1>8, <1>9, HostsAfter

\* A socket comes out of the backlog with nothing read of its stream, and to a free slot.
LEMMA PollHosts ==
    ASSUME IInv, HostsInv, Poll
    PROVE  HostsInv'
<1>1. /\ UNCHANGED <<peer, script, left, inbox, out>> /\ cur = 0 /\ cur' = 0
      /\ todo' = ReadySlots /\ ReadySlots \subseteq Taken
  BY DEF Poll, peerVars, ReadySlots
<1>2. \A d \in Conn : Drawn(d)' = Drawn(d)
  BY <1>1 DEF Drawn, Sent
<1>3. \A j \in Slot : client'[j] = client[j] => ServesHost(j)'
  <2> TAKE j \in Slot
  <2> HAVE client'[j] = client[j]
  <2>1. client[j].sd \in Conn => /\ script'[client[j].sd] = script[client[j].sd]
                                 /\ out'[client[j].sd] = out[client[j].sd]
                                 /\ Drawn(client[j].sd)' = Drawn(client[j].sd)
    <3>1. UNCHANGED <<script, out>>
      BY <1>1
    <3>2. Drawn(client[j].sd)' = Drawn(client[j].sd)
      BY <1>1 DEF Drawn, Sent
    <3> QED BY <3>1, <3>2
  <2>2. cur = j => cur' = j
    BY <1>1
  <2> QED BY <2>1, <2>2, SlotKept DEF IInv, HostsInv
<1>4. \/ UNCHANGED client
      \/ \E i \in Slot : /\ backlog # <<>> /\ client[i].sd = NoSd
                         /\ client' = [client EXCEPT ![i] =
                               [@ EXCEPT !.sd = Head(backlog), !.state = "CONNECTING"]]
  BY PollMakes DEF IInv
<1>5. (\A j \in Taken : client'[j] = client[j]) /\ \A j \in Slot : ServesHost(j)'
  <2>1. CASE UNCHANGED client
    BY <2>1, <1>3
  <2>2. CASE ~UNCHANGED client
    <3>1. PICK i \in Slot : /\ backlog # <<>> /\ client[i].sd = NoSd
                            /\ client' = [client EXCEPT ![i] =
                                  [@ EXCEPT !.sd = Head(backlog), !.state = "CONNECTING"]]
      BY <2>2, <1>4
    <3>2. \A j \in Slot : j # i => client'[j] = client[j]
      BY <3>1 DEF IInv, TypeOK
    <3>3. PICK h \in Conn : h = Head(backlog) /\ ~Accepted(h)
      <4>1. backlog \in Seq(Conn) /\ Len(backlog) \in Nat
        BY LenProperties DEF IInv, TypeOK
      <4>2. Len(backlog) # 0
        BY <4>1, <3>1, EmptySeq
      <4>3. Head(backlog) = backlog[1] /\ 1 \in 1..Len(backlog)
        BY <4>1, <4>2
      <4> QED BY <4>1, <4>3, ElementOfSeq DEF IInv, OnePlace
    <3>4. client[i].buf = <<>> /\ client[i].cid = Invalid /\ client[i] \in Client
      BY <3>1 DEF IInv, SlotsCoherent, TypeOK
    <3>5. /\ client'[i].sd = h /\ client'[i].buf = <<>> /\ client'[i].cid = Invalid
          /\ client'[i].state = "CONNECTING"
      BY <3>1, <3>3, <3>4 DEF IInv, TypeOK, Client
    <3>6. Drawn(h)' = 0 /\ out'[h] = <<>> /\ script'[h] \in Seq(Unit)
      BY <3>3, <1>1, <1>2 DEF HostsInv, StreamInv, IInv, TypeOK
    <3>7. Consumed(i)' = 0
      <4>1. Consumed(i)' = Drawn(h)' - Len(<<>>)
        BY <3>5 DEF Consumed, Drawn, Sent
      <4>2. Len(<<>>) = 0
        BY EmptySeq
      <4>3. Consumed(i)' = 0 - 0
        BY <4>1, <4>2, <3>6, Zenon
      <4> QED BY <4>3
    <3>8. Serving(script'[h], 0, client'[i], out'[h], cur' = i)
      <4>1. Len(script'[h]) \in Nat /\ Len(<<>>) = 0
        BY <3>6, LenProperties, EmptySeq
      <4>2. Incomplete(<<>>) /\ Invalid \notin ModuleName
        BY <4>1, ClientsAssumption DEF Incomplete, Name
      <4>3. Expected(script'[h], 0) = <<>>
        BY <3>6, ExpectedStep
      <4>4. 0 + Len(<<>>) <= Len(script'[h]) /\ 1..Len(<<>>) = {} /\ 1..0 = {}
        BY <4>1
      <4> QED BY <3>5, <3>6, <4>2, <4>3, <4>4 DEF Serving
    <3>9. ServesHost(i)'
      BY <3>5, <3>7, <3>8 DEF ServesHost
    <3> QED BY <3>1, <3>2, <3>9, <1>3 DEF Taken
  <2> QED BY <2>1, <2>2
<1>6. StreamInv'
  <2>1. \A d \in Conn : Accepted(d) => Accepted(d)'
    <3> TAKE d \in Conn
    <3> HAVE Accepted(d)
    <3>1. PICK j \in Slot : client[j].sd = d
      BY DEF Accepted
    <3>2. j \in Taken
      BY <3>1, ClientsAssumption DEF Taken
    <3> QED BY <3>1, <3>2, <1>5 DEF Accepted
  <2> QED BY <2>1, <1>1, <1>2 DEF HostsInv, StreamInv
<1>7. TodoInv'
  <2> SUFFICES ASSUME NEW j \in ReadySlots PROVE Readable(client[j].sd)'
    BY <1>1 DEF TodoInv
  <2>1. Readable(client[j].sd) /\ client'[j] = client[j]
    BY <1>1, <1>5 DEF ReadySlots
  <2> QED BY <2>1, <1>1 DEF Readable
<1> QED BY <1>5, <1>6, <1>7 DEF HostsInv

\* A new connection has all of its stream before it.
LEMMA ConnectHosts ==
    ASSUME IInv, HostsInv, NEW c \in Conn, NEW s \in Script, Connect(c, s)
    PROVE  HostsInv'
<1>1. /\ UNCHANGED <<client, todo, cur, inbox, out>> /\ peer[c] = "unused"
      /\ script'[c] = s /\ left'[c] = s /\ peer'[c] = "open" /\ s \in Seq(Unit)
      /\ \A d \in Conn : d # c => script'[d] = script[d] /\ left'[d] = left[d] /\ peer'[d] = peer[d]
  BY ClientsAssumption DEF Connect, serverVars, IInv, TypeOK
<1>2. \A j \in Slot : client[j].sd # c
  BY <1>1 DEF IInv, OnePlace, Accepted
<1>3. inbox[c] = <<>>
  <2>1. /\ script[c] = <<>> /\ inbox[c] \in Seq(Unit)
        /\ Len(left[c]) \in Nat /\ Len(inbox[c]) \in Nat /\ Len(left[c]) + Len(inbox[c]) <= Len(script[c])
    BY <1>1, Lengths DEF IInv, HostsInv, StreamInv
  <2>2. Len(script[c]) = 0
    BY <2>1, EmptySeq
  <2> DEFINE x == Len(left[c])
             y == Len(inbox[c])
  <2>3. x \in Nat /\ y \in Nat /\ x + y <= 0
    BY <2>1, <2>2
  <2> HIDE DEF x, y
  <2>4. y = 0
    BY <2>3
  <2> QED BY <2>1, <2>4, EmptySeq DEF y
<1>4. Placed(s, s, <<>>) /\ (Len(s) - Len(s)) - Len(<<>>) = 0
  <2>1. Len(s) \in Nat /\ Len(<<>>) = 0
    BY <1>1, LenProperties, EmptySeq
  <2>2. \A n \in Nat : (n - n) - 0 = 0 /\ n + 0 <= n /\ \A k \in 1..n : (n - n) + k = k
    OBVIOUS
  <2>3. (Len(s) - Len(s)) - Len(<<>>) = 0
    BY <2>1, <2>2
  <2> QED BY <2>1, <2>2, <2>3 DEF Placed
<1>5. StreamInv'
  <2> SUFFICES ASSUME NEW d \in Conn
               PROVE  /\ Placed(script'[d], left'[d], inbox'[d])
                      /\ ~Accepted(d)' => Drawn(d)' = 0 /\ out'[d] = <<>>
                      /\ peer'[d] = "unused" => script'[d] = <<>>
    BY DEF StreamInv
  <2>1. CASE d = c
    <3>1. Drawn(c)' = (Len(s) - Len(s)) - Len(<<>>)
      BY <1>1, <1>3 DEF Drawn, Sent
    <3>2. out[c] = <<>>
      BY <1>2 DEF HostsInv, StreamInv, Accepted
    <3> QED BY <2>1, <3>1, <3>2, <1>1, <1>3, <1>4
  <2>2. CASE d # c
    <3>1. Drawn(d)' = Drawn(d)
      BY <2>2, <1>1 DEF Drawn, Sent
    <3>2. Accepted(d)' <=> Accepted(d)
      BY <1>1 DEF Accepted
    <3> QED BY <3>1, <3>2, <2>2, <1>1 DEF HostsInv, StreamInv
  <2> QED BY <2>1, <2>2
<1>6. TodoInv'
  <2>1. \A j \in Slot : Readable(client[j].sd) /\ client[j].sd \in Conn => Readable(client[j].sd)'
    BY <1>1, <1>2 DEF Readable
  <2>2. \A j \in todo : j \in Slot /\ client[j].sd \in Conn
    BY DEF IInv, TypeOK, SlotsCoherent, Taken, Client
  <2> QED BY <2>1, <2>2, <1>1 DEF HostsInv, TodoInv
<1>7. ASSUME NEW j \in Slot PROVE ServesHost(j)'
  <2>1. client[j].sd \in Conn => /\ script'[client[j].sd] = script[client[j].sd]
                                 /\ out'[client[j].sd] = out[client[j].sd]
                                 /\ Drawn(client[j].sd)' = Drawn(client[j].sd)
    BY <1>1, <1>2 DEF Drawn, Sent
  <2> QED BY <2>1, <1>1, SlotKept DEF IInv, HostsInv
<1> QED BY <1>5, <1>6, <1>7 DEF HostsInv

\* What is sent moves from what is to be sent into the socket.
LEMMA SendHosts ==
    ASSUME IInv, HostsInv, NEW c \in Conn, Send(c)
    PROVE  HostsInv'
<1> DEFINE s == script[c]
           l == left[c]
           n == inbox[c]
<1>1. /\ UNCHANGED <<client, todo, cur, peer, script, out>> /\ l # <<>>
      /\ inbox'[c] = Append(n, Head(l)) /\ left'[c] = Tail(l)
      /\ \A d \in Conn : d # c => inbox'[d] = inbox[d] /\ left'[d] = left[d]
  BY DEF Send, serverVars, IInv, TypeOK
<1>2. /\ s \in Seq(Unit) /\ l \in Seq(Unit) /\ n \in Seq(Unit) /\ Placed(s, l, n)
      /\ Len(s) \in Nat /\ Len(l) \in Nat /\ Len(n) \in Nat /\ Drawn(c) = (Len(s) - Len(l)) - Len(n)
  BY Lengths DEF IInv, HostsInv, StreamInv
<1>3. /\ Head(l) = l[1] /\ Head(l) \in Unit
      /\ Len(Tail(l)) = Len(l) - 1 /\ \A k \in 1..Len(Tail(l)) : Tail(l)[k] = l[k + 1]
      /\ Len(l) # 0
  <2> HIDE DEF l
  <2>1. Len(l) # 0 /\ Head(l) = l[1]
    BY <1>1, <1>2, EmptySeq
  <2> QED BY <2>1, <1>1, <1>2, HeadTailProperties
<1>4. /\ Len(Append(n, Head(l))) = Len(n) + 1
      /\ \A k \in 1..Len(n) : Append(n, Head(l))[k] = n[k]
      /\ Append(n, Head(l))[Len(n) + 1] = l[1]
  <2> HIDE DEF l, n
  <2> QED BY <1>2, <1>3, AppendProperties
<1>5. Placed(s, Tail(l), Append(n, Head(l)))
  <2> DEFINE t == Tail(l)
             m == Append(n, Head(l))
  <2>1. /\ Len(t) = Len(l) - 1 /\ Len(m) = Len(n) + 1
        /\ \A k \in 1..Len(t) : t[k] = l[k + 1]
        /\ \A k \in 1..Len(n) : m[k] = n[k]
        /\ m[Len(n) + 1] = l[1]
    BY <1>3, <1>4
  <2>2. /\ Len(l) + Len(n) <= Len(s)
        /\ \A k \in 1..Len(l) : l[k] = s[(Len(s) - Len(l)) + k]
        /\ \A k \in 1..Len(n) : n[k] = s[((Len(s) - Len(l)) - Len(n)) + k]
    BY <1>2 DEF Placed
  <2> HIDE DEF t, m, s, l, n
  <2>3. Len(t) + Len(m) <= Len(s)
    BY <2>1, <2>2, <1>2
  <2>4. ASSUME NEW k \in 1..Len(t) PROVE t[k] = s[(Len(s) - Len(t)) + k]
    <3>1. k + 1 \in 1..Len(l) /\ (Len(s) - Len(l)) + (k + 1) = (Len(s) - Len(t)) + k
      BY <1>2, <2>1
    <3> QED BY <3>1, <2>1, <2>2
  <2>5. ASSUME NEW k \in 1..Len(m) PROVE m[k] = s[((Len(s) - Len(t)) - Len(m)) + k]
    <3>1. ((Len(s) - Len(t)) - Len(m)) + k = ((Len(s) - Len(l)) - Len(n)) + k
      BY <1>2, <2>1
    <3>2. CASE k \in 1..Len(n)
      BY <3>1, <3>2, <2>1, <2>2
    <3>3. CASE k \notin 1..Len(n)
      <4>1. k = Len(n) + 1
        BY <1>2, <2>1, <3>3
      <4>2. ((Len(s) - Len(l)) - Len(n)) + k = (Len(s) - Len(l)) + 1
        BY <1>2, <4>1
      <4>3. 1 \in 1..Len(l)
        BY <1>2, <1>3
      <4> QED BY <3>1, <4>1, <4>2, <4>3, <2>1, <2>2
    <3> QED BY <3>2, <3>3
  <2> QED BY <2>3, <2>4, <2>5 DEF Placed, t, m
<1>6. \A d \in Conn : Drawn(d)' = Drawn(d)
  <2>1. Drawn(c)' = Drawn(c)
    <3>1. Drawn(c)' = (Len(script'[c]) - Len(left'[c])) - Len(inbox'[c])
      BY DEF Drawn, Sent
    <3> DEFINE x == Len(s)
               y == Len(l)
               z == Len(n)
    <3>2. Drawn(c)' = (x - (y - 1)) - (z + 1) /\ Drawn(c) = (x - y) - z
      BY <3>1, <1>1, <1>2, <1>3, <1>4
    <3>3. x \in Nat /\ y \in Nat /\ z \in Nat
      BY <1>2
    <3> HIDE DEF x, y, z
    <3> QED BY <3>2, <3>3
  <2>2. \A d \in Conn : d # c => Drawn(d)' = Drawn(d)
    BY <1>1 DEF Drawn, Sent
  <2> QED BY <2>1, <2>2
<1>7. StreamInv'
  <2> SUFFICES ASSUME NEW d \in Conn
               PROVE  /\ Placed(script'[d], left'[d], inbox'[d])
                      /\ ~Accepted(d)' => Drawn(d)' = 0 /\ out'[d] = <<>>
                      /\ peer'[d] = "unused" => script'[d] = <<>>
    BY DEF StreamInv
  <2>1. Placed(script'[d], left'[d], inbox'[d])
    BY <1>1, <1>5 DEF HostsInv, StreamInv
  <2>2. Accepted(d)' <=> Accepted(d)
    BY <1>1 DEF Accepted
  <2> QED BY <2>1, <2>2, <1>1, <1>6 DEF HostsInv, StreamInv
<1>8. TodoInv'
  <2>1. inbox'[c] # <<>>
    <3> HIDE DEF l, n
    <3> QED BY <1>1, <1>2, <1>3, AppendProperties
  <2>2. \A j \in Slot : client[j].sd \in Conn /\ Readable(client[j].sd) => Readable(client[j].sd)'
    BY <2>1, <1>1 DEF Readable
  <2>3. \A j \in todo : j \in Slot /\ client[j].sd \in Conn
    BY DEF IInv, TypeOK, SlotsCoherent, Taken, Client
  <2> QED BY <2>2, <2>3, <1>1 DEF HostsInv, TodoInv
<1>9. ASSUME NEW j \in Slot PROVE ServesHost(j)'
  <2>1. client[j].sd \in Conn => Drawn(client[j].sd)' = Drawn(client[j].sd)
    <3>1. client'[j].sd = client[j].sd
      BY <1>1
    <3>2. ASSUME NEW d \in Conn, client[j].sd = d PROVE Drawn(client[j].sd)' = Drawn(client[j].sd)
      BY <3>1, <3>2, <1>6 DEF Drawn, Sent
    <3> QED BY <3>2
  <2> QED BY <2>1, <1>1, SlotKept DEF IInv, HostsInv
<1> QED BY <1>7, <1>8, <1>9 DEF HostsInv

\* A peer that closes leaves its stream as it is, and its socket readable.
LEMMA ShutHosts ==
    ASSUME IInv, HostsInv, NEW c \in Conn, Shut(c)
    PROVE  HostsInv'
<1>1. /\ UNCHANGED <<client, todo, cur, script, left, inbox, out>>
      /\ peer'[c] = "shut" /\ peer[c] = "open" /\ \A d \in Conn : d # c => peer'[d] = peer[d]
  BY DEF Shut, serverVars, IInv, TypeOK
<1>2. \A d : Drawn(d)' = Drawn(d)
  BY <1>1 DEF Drawn, Sent
<1>3. StreamInv'
  <2>1. \A d \in Conn : Accepted(d)' <=> Accepted(d)
    BY <1>1 DEF Accepted
  <2>2. \A d \in Conn : peer'[d] = "unused" => peer[d] = "unused"
    BY <1>1
  <2> QED BY <2>1, <2>2, <1>1, <1>2 DEF HostsInv, StreamInv
<1>4. TodoInv'
  <2>1. \A j \in Slot : client[j].sd \in Conn /\ Readable(client[j].sd) => Readable(client[j].sd)'
    BY <1>1 DEF Readable
  <2>2. \A j \in todo : j \in Slot /\ client[j].sd \in Conn
    BY DEF IInv, TypeOK, SlotsCoherent, Taken, Client
  <2> QED BY <2>1, <2>2, <1>1 DEF HostsInv, TodoInv
<1>5. ASSUME NEW j \in Slot PROVE ServesHost(j)'
  <2>1. Drawn(client[j].sd)' = Drawn(client[j].sd)
    BY <1>1 DEF Drawn, Sent
  <2> QED BY <2>1, <1>1, SlotKept DEF IInv, HostsInv
<1> QED BY <1>3, <1>4, <1>5 DEF HostsInv

\* Every step keeps what is known of the hosts.
LEMMA HostsStep ==
    ASSUME IInv, HostsInv, [Next]_vars
    PROVE  HostsInv'
<1>1. CASE Poll
  BY <1>1, PollHosts
<1>2. ASSUME NEW i \in Slot, Disconnect(i) \/ ReadModule(i) \/ ReadJson(i) \/ Finish(i)
      PROVE  HostsInv'
  BY <1>2, DisconnectHosts, ReadModuleHosts, ReadJsonHosts, FinishHosts
<1>3. ASSUME NEW i \in Slot, NEW k \in 1..BufCap, Extract(i, k) PROVE HostsInv'
  BY <1>3, ExtractHosts
<1>4. ASSUME NEW c \in Conn, NEW s \in Script, Connect(c, s) PROVE HostsInv'
  BY <1>4, ConnectHosts
<1>5. ASSUME NEW c \in Conn, Send(c) \/ Shut(c) PROVE HostsInv'
  BY <1>5, SendHosts, ShutHosts
<1>6. CASE UNCHANGED vars
  <2>1. \A d : Drawn(d)' = Drawn(d)
    BY <1>6 DEF vars, Drawn, Sent
  <2>2. UNCHANGED <<client, todo, cur, peer, script, left, inbox, out>>
    BY <1>6 DEF vars
  <2>3. StreamInv' /\ TodoInv'
    BY <2>1, <2>2 DEF HostsInv, StreamInv, TodoInv, Accepted, Readable
  <2>4. ASSUME NEW j \in Slot PROVE ServesHost(j)'
    <3>1. Drawn(client[j].sd)' = Drawn(client[j].sd)
      BY <2>2 DEF Drawn, Sent
    <3> QED BY <3>1, <2>2, SlotKept DEF IInv, HostsInv
  <2> QED BY <2>3, <2>4 DEF HostsInv
<1> QED BY <1>1, <1>2, <1>3, <1>4, <1>5, <1>6 DEF Next, Server, Peers

\* Before the first connection there is no stream.
LEMMA HostsInit ==
    ASSUME Init
    PROVE  HostsInv
<1>1. \A c \in Conn : script[c] = <<>> /\ left[c] = <<>> /\ inbox[c] = <<>> /\ out[c] = <<>>
  BY DEF Init
<1>2. Len(<<>>) = 0 /\ Placed(<<>>, <<>>, <<>>)
  <2>1. Len(<<>>) = 0
    BY EmptySeq
  <2> QED BY <2>1 DEF Placed
<1>3. \A c \in Conn : Drawn(c) = 0
  <2> TAKE c \in Conn
  <2>1. Len(script[c]) = 0 /\ Len(left[c]) = 0 /\ Len(inbox[c]) = 0
    BY <1>1, <1>2
  <2>2. Drawn(c) = (0 - 0) - 0
    BY <2>1 DEF Drawn, Sent
  <2> QED BY <2>2
<1>4. StreamInv
  BY <1>1, <1>2, <1>3 DEF StreamInv
<1>5. TodoInv
  BY DEF Init, TodoInv
<1>6. \A i \in Slot : ServesHost(i)
  BY ClientsAssumption DEF Init, FreeSlot, ServesHost
<1> QED BY <1>4, <1>5, <1>6 DEF HostsInv

----------------------------------------------------------------------------
(* The theorems. *)

\* Every part of the invariant holds from the start, and through every step.
THEOREM TableInvariant == Spec => []IInv
<1>1. Init => IInv
  BY TableInit
<1>2. IInv /\ [Next]_vars => IInv'
  BY TableStep
<1> QED BY <1>1, <1>2, PTL DEF Spec

\* Every variable keeps its type, whatever arrives and in what pieces: no slot's
\* buffer grows past CC_JSON_STR_BUF_SIZE.
THEOREM TypeCorrect == Spec => []TypeOK
<1>1. IInv => TypeOK
  BY DEF IInv
<1> QED BY <1>1, TableInvariant, PTL

\* No socket is lost by the server, and none is in two slots.
THEOREM OnePlaceCorrect == Spec => []OnePlace
<1>1. IInv => OnePlace
  BY DEF IInv
<1> QED BY <1>1, TableInvariant, PTL

\* get_client_sd never names a socket whose client has gone.
THEOREM RouteIsLiveCorrect == Spec => []RouteIsLive
<1>1. IInv => RouteIsLive
  <2> SUFFICES ASSUME IInv, NEW m \in ModuleName, SlotsOf(m) # {}
               PROVE  \E i \in Slot : /\ client[i].sd = GetClientSd(m) /\ client[i].cid = m
                                      /\ client[i].state = "CONNECTED"
                                      /\ peer[client[i].sd] # "unused"
    BY DEF RouteIsLive
  <2> DEFINE i == CHOOSE i \in SlotsOf(m) : \A j \in SlotsOf(m) : i <= j
  <2>1. SlotsOf(m) \subseteq Slot
    BY DEF SlotsOf
  <2>2. \E n \in SlotsOf(m) : \A j \in SlotsOf(m) : n <= j
    BY <2>1, FirstExists
  <2>3. i \in SlotsOf(m)
    BY <2>2
  <2>4. GetClientSd(m) = client[i].sd
    BY DEF GetClientSd
  <2> HIDE DEF i
  <2>5. i \in Slot /\ client[i].cid = m
    BY <2>3 DEF SlotsOf
  <2>6. m # Invalid
    BY ClientsAssumption DEF Name
  <2>7. client[i].state = "CONNECTED" /\ client[i].sd # NoSd
    BY <2>5, <2>6 DEF IInv, SlotsCoherent
  <2>8. peer[client[i].sd] # "unused"
    BY <2>5, <2>7 DEF IInv, OnePlace, Accepted, TypeOK, Client
  <2> QED BY <2>4, <2>5, <2>7, <2>8
<1> QED BY <1>1, TableInvariant, PTL

\* No connection has a command carried out before it is told that it is registered.
THEOREM RegisteredFirstCorrect == Spec => []RegisteredFirst
<1>1. IInv => RegisteredFirst
  BY DEF IInv
<1> QED BY <1>1, TableInvariant, PTL

\* From the start, and through every step, each host's stream is where it should be.
THEOREM HostsInvariant == Spec => [](IInv /\ HostsInv)
<1>1. Init => IInv /\ HostsInv
  BY TableInit, HostsInit
<1>2. IInv /\ HostsInv /\ [Next]_vars => (IInv /\ HostsInv)'
  BY TableStep, HostsStep
<1> QED BY <1>1, <1>2, PTL DEF Spec

\* Each host is answered what it is due for what has been cut from its stream, in
\* order, however read() cut it and whoever used the socket's number before.
THEOREM AnswersInOrderCorrect == Spec => []AnswersInOrder
<1>1. IInv /\ HostsInv => AnswersInOrder
  <2> SUFFICES ASSUME IInv, HostsInv, NEW i \in Slot,
                      client[i].sd # NoSd, HonestHost(script[client[i].sd])
               PROVE  out[client[i].sd] = Expected(script[client[i].sd], Consumed(i))
    BY DEF AnswersInOrder
  <2>1. client[i].sd \in Conn
    BY DEF IInv, TypeOK, Client
  <2> QED BY <2>1 DEF HostsInv, ServesHost, Serving
<1> QED BY <1>1, HostsInvariant, PTL

\* A host's connection is closed only after the host closed it, with every whole
\* request answered: nothing that arrived is lost, and a full buffer is not the end.
THEOREM HonestKeptCorrect == Spec => HonestKept
<1>1. IInv /\ HostsInv /\ [Next]_vars
          => \A c \in Conn :
                 Accepted(c) /\ HonestHost(script[c]) /\ peer'[c] = "unused"
                     => peer[c] = "shut" /\ Len(out[c]) = Len(Expected(script[c], Sent(c)))
  <2> SUFFICES ASSUME IInv, HostsInv, [Next]_vars, NEW c \in Conn,
                      Accepted(c), HonestHost(script[c]), peer'[c] = "unused"
               PROVE  peer[c] = "shut" /\ Len(out[c]) = Len(Expected(script[c], Sent(c)))
    OBVIOUS
  <2>1. peer[c] # "unused"
    BY DEF IInv, OnePlace
  <2>2. PICK i \in Slot : Disconnect(i) /\ client[i].sd = c
    <3>1. UNCHANGED peer => FALSE
      BY <2>1
    <3>2. (\E d \in Conn : \E s \in Script : Connect(d, s)) => FALSE
      BY <2>1 DEF Connect, IInv, TypeOK
    <3>3. (\E d \in Conn : Send(d) \/ Shut(d)) => FALSE
      BY <2>1 DEF Send, Shut, IInv, TypeOK
    <3>4. PICK i \in Slot : Disconnect(i)
      BY <3>1, <3>2, <3>3 DEF Next, Server, Peers, Poll, ReadModule, ReadJson, Finish, Extract,
                              peerVars, vars
    <3>5. client[i].sd = c
      BY <2>1, <3>4 DEF Disconnect, IInv, TypeOK
    <3> QED BY <3>4, <3>5
  <2> DEFINE s == script[c]
             b == client[i].buf
             p == Consumed(i)
  <2>3. Serving(s, p, client[i], out[c], FALSE)
    <3>1. cur # i
      BY <2>2, ClientsAssumption DEF Disconnect, Scanned, Slot
    <3> QED BY <2>2, <3>1 DEF HostsInv, ServesHost, Serving
  <2>4. /\ s \in Seq(Unit) /\ b \in Seq(Unit) /\ Len(s) \in Nat /\ Len(b) \in Nat
        /\ inbox[c] \in Seq(Unit) /\ Len(inbox[c]) \in Nat /\ Len(left[c]) \in Nat
        /\ Len(left[c]) + Len(inbox[c]) <= Len(s)
        /\ Drawn(c) = (Len(s) - Len(left[c])) - Len(inbox[c])
    BY <2>2, Lengths, LenProperties DEF IInv, HostsInv, TypeOK, Client
  <2>5. /\ p \in Nat /\ p + Len(b) <= Len(s) /\ \A j \in 1..Len(b) : b[j] = s[p + j]
        /\ Incomplete(b) /\ out[c] = Expected(s, p) /\ HonestHost(s)
    BY <2>3 DEF Serving
  <2>6. p = Drawn(c) - Len(b)
    BY <2>2 DEF Consumed
  <2>7. inbox[c] = <<>>
    <3>1. inbox[c] = <<>> \/ Len(b) = BufCap
      BY <2>2, ChunkBounds DEF Disconnect, IInv
    <3>2. CASE Len(b) = BufCap
      <4>1. p + Len(b) = Len(s)
        <5> HIDE DEF s, b, p
        <5> QED BY <3>2, <2>4, <2>5, FullIsAll
      <4> DEFINE x == Len(s)
                 y == Len(left[c])
                 z == Len(inbox[c])
                 w == Len(b)
      <4>2. x \in Nat /\ y \in Nat /\ z \in Nat /\ w \in Nat /\ ((x - y) - z - w) + w = x
        BY <4>1, <2>4, <2>6
      <4> HIDE DEF x, y, z, w
      <4>3. z = 0
        BY <4>2
      <4> QED BY <4>3, <2>4, EmptySeq DEF z
    <3> QED BY <3>1, <3>2
  <2>8. peer[c] = "shut"
    <3>1. i \in todo \ {cur}
      BY <2>2, ClientsAssumption DEF Disconnect, Scanned, Slot
    <3> QED BY <3>1, <2>2, <2>7 DEF HostsInv, TodoInv, Readable
  <2>9. Expected(s, Sent(c)) = Expected(s, p)
    <3>1. Len(inbox[c]) = 0
      BY <2>7, EmptySeq
    <3>2. Sent(c) = p + Len(b) /\ p + Len(b) \in p..Len(s)
      <4> DEFINE y == Sent(c)
                 w == Len(b)
      <4>1. y \in Int /\ w \in Nat /\ p = (y - 0) - w
        BY <3>1, <2>4, <2>6 DEF Drawn, Sent
      <4>2. w \in Nat /\ p \in Nat /\ p + w <= Len(s) /\ Len(s) \in Nat
        BY <2>4, <2>5
      <4> HIDE DEF y, w, p, s
      <4>3. y = p + w /\ p + w \in p..Len(s)
        BY <4>1, <4>2
      <4> QED BY <4>3 DEF y, w
    <3>3. ASSUME NEW j \in (p + 1)..(p + Len(b)) PROVE s[j] \notin Completes
      <4> HIDE DEF s, b, p
      <4>1. j - p \in 1..Len(b) /\ p + (j - p) = j
        BY <2>4, <2>5
      <4>2. s[j] \in {"Head", "Mid"}
        BY <4>1, <2>5 DEF Incomplete
      <4> QED BY <4>2, Pieces
    <3> HIDE DEF s, b, p
    <3> QED BY <3>2, <3>3, <2>4, <2>5, ExpectedSame
  <2> QED BY <2>5, <2>8, <2>9
<1> QED BY <1>1, HostsInvariant, PTL DEF Spec, HonestKept

=============================================================================
