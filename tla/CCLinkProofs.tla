---------------------------- MODULE CCLinkProofs ----------------------------
(***************************************************************************)
(* The link between the central-control server and the event daemon, for   *)
(* any commands, sizes and values: while no SET came early, what is in the *)
(* socket is determined by where the two ends are.  So no message boundary *)
(* is lost, both ends hold the same configuration, and every step is one   *)
(* of ConfSync's or none.                                                  *)
(***************************************************************************)
EXTENDS CCLink, SequenceTheorems, TLAPS

\* A header is three words, and what follows it is found behind the third.
LEMMA HeaderFirst ==
    ASSUME NEW a \in Int, NEW n \in Int, NEW v \in Seq(Int)
    PROVE  LET s == Header(a, n) \o v
           IN /\ s \in Seq(Int) /\ Len(s) = Len(v) + 3 /\ s # <<>>
              /\ s[1] = a
              /\ SubSeq(s, 1, 3) = Header(a, n)
              /\ SubSeq(s, 4, Len(s)) = v
<1> DEFINE h == Header(a, n)
           s == h \o v
<1>1. h \in Seq(Int) /\ Len(h) = 3 /\ h[1] = a
  BY DEF Header
<1>2. Len(v) \in Nat
  BY LenProperties
<1> HIDE DEF h
<1>3. /\ s \in Seq(Int) /\ Len(s) = 3 + Len(v)
      /\ \A i \in 1..(3 + Len(v)) : s[i] = IF i <= 3 THEN h[i] ELSE v[i - 3]
  <2>1. /\ s \in Seq(Int) /\ Len(s) = Len(h) + Len(v)
        /\ \A i \in 1..(Len(h) + Len(v)) : s[i] = IF i <= Len(h) THEN h[i] ELSE v[i - Len(h)]
    BY <1>1, ConcatProperties
  <2> HIDE DEF s
  <2> QED BY <2>1, <1>1
<1> HIDE DEF s
<1>4. \A i \in 1..Len(s) : s[i] \in Int
  BY <1>3, ElementOfSeq
<1>5. /\ SubSeq(s, 1, 3) \in Seq(Int) /\ Len(SubSeq(s, 1, 3)) = 3
      /\ \A i \in 1..3 : SubSeq(s, 1, 3)[i] = s[i]
  <2>1. \A i \in 1..3 : s[i] \in Int
    BY <1>2, <1>3, <1>4
  <2> QED BY <2>1, SubSeqProperties
<1>6. SubSeq(s, 1, 3) = h
  <2>1. \A i \in 1..3 : SubSeq(s, 1, 3)[i] = h[i]
    BY <1>2, <1>3, <1>5
  <2> QED BY <2>1, <1>1, <1>5, SeqEqual
<1>7. /\ SubSeq(s, 4, Len(s)) \in Seq(Int) /\ Len(SubSeq(s, 4, Len(s))) = Len(v)
      /\ \A i \in 1..Len(v) : SubSeq(s, 4, Len(s))[i] = s[i + 3]
  <2>1. 4 \in Int /\ Len(s) \in Int /\ \A i \in 4..Len(s) : s[i] \in Int
    BY <1>2, <1>3, <1>4
  <2>2. /\ SubSeq(s, 4, Len(s)) \in Seq(Int)
        /\ Len(SubSeq(s, 4, Len(s))) = IF 4 <= Len(s) THEN Len(s) - 4 + 1 ELSE 0
        /\ \A i \in 1..(Len(s) - 4 + 1) : SubSeq(s, 4, Len(s))[i] = s[4 + i - 1]
    BY <2>1, SubSeqProperties
  <2>3. Len(SubSeq(s, 4, Len(s))) = Len(v)
    BY <2>2, <1>2, <1>3
  <2>4. Len(s) - 4 + 1 = Len(v) /\ \A i \in 1..Len(v) : 4 + i - 1 = i + 3
    BY <1>2, <1>3
  <2> QED BY <2>2, <2>3, <2>4
<1>8. SubSeq(s, 4, Len(s)) = v
  <2>1. \A i \in 1..Len(v) : SubSeq(s, 4, Len(s))[i] = v[i]
    <3> TAKE i \in 1..Len(v)
    <3>1. i + 3 \in 1..(3 + Len(v)) /\ ~(i + 3 <= 3) /\ (i + 3) - 3 = i
      BY <1>2
    <3> QED BY <3>1, <1>3, <1>7
  <2> QED BY <2>1, <1>7, SeqEqual
<1> QED BY <1>1, <1>2, <1>3, <1>6, <1>8 DEF s, h

\* read() of a header from a socket that begins with one.
LEMMA ReadsHeader ==
    ASSUME NEW a \in Int, NEW n \in Int, NEW v \in Seq(Int), s2m = Header(a, n) \o v
    PROVE  Got(3) = Header(a, n) /\ Rest(3) = v /\ s2m # <<>>
<1>1. Len(s2m) = Len(v) + 3 /\ Len(v) \in Nat
  BY HeaderFirst, LenProperties
<1>2. Min2(3, Len(s2m)) = 3
  BY <1>1 DEF Min2
<1>3. SubSeq(s2m, 1, 3) = Header(a, n) /\ SubSeq(s2m, 4, Len(s2m)) = v /\ s2m # <<>>
  BY HeaderFirst
<1>4. Got(3) = SubSeq(s2m, 1, 3) /\ Rest(3) = SubSeq(s2m, 4, Len(s2m))
  <2>1. 3 + 1 = 4
    OBVIOUS
  <2> QED BY <1>2, <2>1, Zenon DEF Got, Rest
<1> QED BY <1>3, <1>4

\* read() of all there is.
LEMMA ReadsAll ==
    ASSUME NEW v \in Seq(Int), s2m = v
    PROVE  Got(Len(v)) = v /\ Rest(Len(v)) = <<>>
<1>1. Len(v) \in Nat /\ Min2(Len(v), Len(s2m)) = Len(v)
  BY LenProperties DEF Min2
<1>2. SubSeq(s2m, 1, Len(v)) = v
  BY SubSeqFull
<1>3. SubSeq(s2m, Len(v) + 1, Len(v)) = <<>>
  BY <1>1, SubSeqEmpty
<1> QED BY <1>1, <1>2, <1>3 DEF Got, Rest

\* A header alone, which another word may follow.
LEMMA HeaderAlone ==
    ASSUME NEW a \in Int, NEW n \in Int
    PROVE  /\ Header(a, n) \in Seq(Int) /\ Len(Header(a, n)) = 3 /\ Header(a, n) # <<>>
           /\ Header(a, n)[1] = a /\ Header(a, n)[3] = n
           /\ Header(a, n) \o <<>> = Header(a, n) /\ <<>> \o Header(a, n) = Header(a, n)
           /\ SubSeq(Header(a, n), 4, Len(Header(a, n))) = <<>>
<1>1. /\ Header(a, n) \in Seq(Int) /\ Len(Header(a, n)) = 3 /\ Header(a, n) # <<>>
      /\ Header(a, n)[1] = a /\ Header(a, n)[3] = n
  BY DEF Header
<1>2. SubSeq(Header(a, n), 4, 3) = <<>>
  BY SubSeqEmpty
<1> HIDE DEF Header
<1> QED BY <1>1, <1>2, ConcatEmptySeq

LEMMA HeaderIsWords ==
    ASSUME NEW a \in Int, NEW n \in Int
    PROVE  Header(a, n) \in Seq(Int)
BY DEF Header

\* What any read() leaves and returns are words, and no more than asked for.
LEMMA ReadTypes ==
    ASSUME s2m \in Seq(Int), NEW n \in Nat
    PROVE  Got(n) \in Seq(Int) /\ Rest(n) \in Seq(Int) /\ Len(Got(n)) \in 0..n
<1>1. Len(s2m) \in Nat /\ \A i \in 1..Len(s2m) : s2m[i] \in Int
  BY LenProperties, ElementOfSeq
<1>2. Min2(n, Len(s2m)) \in 0..Len(s2m) /\ Min2(n, Len(s2m)) \in 0..n
  BY <1>1 DEF Min2
<1> DEFINE k == Min2(n, Len(s2m))
<1> HIDE DEF k
<1>3. SubSeq(s2m, 1, k) \in Seq(Int) /\ Len(SubSeq(s2m, 1, k)) = IF 1 <= k THEN k - 1 + 1 ELSE 0
  <2>1. 1 \in Int /\ k \in Int /\ \A i \in 1..k : s2m[i] \in Int
    BY <1>1, <1>2 DEF k
  <2> QED BY <2>1, SubSeqProperties
<1>4. SubSeq(s2m, k + 1, Len(s2m)) \in Seq(Int)
  <2>1. k + 1 \in Int /\ Len(s2m) \in Int /\ \A i \in (k + 1)..Len(s2m) : s2m[i] \in Int
    BY <1>1, <1>2 DEF k
  <2> QED BY <2>1, SubSeqProperties
<1>5. k \in 0..n
  BY <1>2 DEF k
<1>6. Len(SubSeq(s2m, 1, k)) = k
  BY <1>3, <1>5
<1> QED BY <1>3, <1>4, <1>5, <1>6 DEF Got, Rest, k

\* What is left behind the first words.
LEMMA RestTypes ==
    ASSUME NEW s \in Seq(Int), NEW n \in Nat, n <= Len(s)
    PROVE  SubSeq(s, n + 1, Len(s)) \in Seq(Int)
<1>1. Len(s) \in Nat /\ \A i \in 1..Len(s) : s[i] \in Int
  BY LenProperties, ElementOfSeq
<1>2. n + 1 \in Int /\ Len(s) \in Int /\ \A i \in (n + 1)..Len(s) : s[i] \in Int
  BY <1>1
<1> QED BY <1>2, SubSeqProperties

\* Commands and sizes are words.
LEMMA CmdIsWord ==
    ASSUME NEW c \in Cmd
    PROVE  c \in Int /\ Size[c] \in Int /\ Size[c] \in Nat \ {0}
BY LinkAssumption

\* Records are words.
LEMMA RecordIsData ==
    ASSUME NEW c \in Cmd, NEW v \in Record(c)
    PROVE  v \in Seq(Int) /\ Len(v) = Size[c] /\ v \in [1..Size[c] -> Int] /\ v # <<>>
           /\ Size[c] \in Nat \ {0} /\ c \in Nat \ {0}
<1>1. Size[c] \in Nat \ {0} /\ c \in Nat \ {0} /\ Data \subseteq Int
  BY LinkAssumption
<1>2. v \in [1..Size[c] -> Int]
  BY <1>1 DEF Record
<1>3. v \in Seq(Int)
  BY <1>1, <1>2, SeqDef
<1>4. Len(v) = Size[c]
  BY <1>1, <1>2, <1>3, LenProperties
<1> QED BY <1>1, <1>2, <1>3, <1>4, EmptySeq

----------------------------------------------------------------------------
(* Types, whether or not the two ends are in step. *)

WireOK ==
    /\ s2m \in Seq(Int) /\ m2s \in Seq(Int) /\ reqbuf \in Seq(Int)
    /\ hdr \in Seq(Int)
RecordsOK ==
    /\ \A c \in Cmd : db[c] \in Record(c) /\ conf[c] \in [1..Size[c] -> Int]
    /\ db \in [Cmd -> Seq(Int)] /\ conf \in [Cmd -> Seq(Int)]
ServerOK ==
    /\ spc \in {"idle", "data", "hdr", "rval", "requests", "inform"}
    /\ set = NoSet \/ (set.cmd \in Cmd /\ set.val \in Record(set.cmd))
    /\ set # NoSet <=> spc \in {"data", "hdr", "rval"}
    /\ serving \in Cmd
    /\ sets \in 0..MaxSets /\ early \in BOOLEAN
DaemonOK ==
    /\ mpc \in {"ask", "get", "getData", "header", "data", "reply", "ack", "spin", "stopped", "closed"}
    /\ mpc = "data" => hdr[1] \in Handled
    /\ mpc \in {"data", "reply"} => Len(hdr) = 3
    /\ gi \in 1..Len(Gets) /\ cnt \in 0..MaxRead
    /\ err \in Nat /\ ret \in {0, -1}

\* Besides the types: the records are functions, and an answer is sent, and data
\* are read, only for a whole header.
TypeInv == WireOK /\ RecordsOK /\ ServerOK /\ DaemonOK

\* It is stronger than TypeOK.
LEMMA TypeParts == TypeInv => TypeOK
  BY DEF TypeInv, TypeOK, WireOK, RecordsOK, ServerOK, DaemonOK

\* What main() asks for is a command with a record.
LEMMA AskedIsKnown ==
    ASSUME TypeInv
    PROVE  Asked \in Known /\ Asked \in Cmd /\ Asked \in Int /\ Size[Asked] \in Nat \ {0}
           /\ db[Asked] \in Record(Asked)
<1>1. gi \in 1..Len(Gets) /\ Gets \in Seq(Known)
  BY LinkAssumption DEF TypeInv, DaemonOK
<1>2. Asked \in Known
  BY <1>1, ElementOfSeq DEF Asked
<1> QED BY <1>2, LinkAssumption DEF TypeInv, RecordsOK

\* What a host or the server does keeps the types.
LEMMA ServerTypes ==
    ASSUME TypeInv, ServerStep \/ \E c \in Cmd : \E v \in Record(c) : HostSet(c, v)
    PROVE  TypeInv'
<1> USE DEF ghost, daemon, server
<1> USE DEF TypeInv
<1>1. ASSUME NEW c \in Cmd, NEW v \in Record(c), HostSet(c, v) PROVE TypeInv'
  <2>1. c \in Int /\ Size[c] \in Int
    BY RecordIsData
  <2>2. s2m' \in Seq(Int)
    BY <1>1, <2>1, HeaderIsWords, ConcatProperties DEF HostSet, WireOK
  <2>3. WireOK' /\ RecordsOK' /\ DaemonOK'
    BY <1>1, <2>2 DEF HostSet, WireOK, RecordsOK, DaemonOK
  <2>4. ServerOK'
    BY <1>1, NoSetAssumption, LinkAssumption DEF HostSet, ServerOK
  <2> QED BY <2>3, <2>4
<1>2. CASE SendData
  <2>1. set.val \in Seq(Int)
    BY <1>2, RecordIsData DEF SendData, ServerOK
  <2>2. s2m' \in Seq(Int)
    BY <1>2, <2>1, ConcatProperties DEF SendData, WireOK
  <2>3. WireOK' /\ RecordsOK' /\ DaemonOK' /\ ServerOK'
    BY <1>2, <2>2 DEF SendData, WireOK, RecordsOK, DaemonOK, ServerOK
  <2> QED BY <2>3
<1>3. CASE RecvHeader
  <2>1. m2s' \in Seq(Int)
    <3>1. m2s \in Seq(Int) /\ 3 <= Len(m2s) /\ m2s' = SubSeq(m2s, 3 + 1, Len(m2s)) /\ Len(m2s) \in Nat
      BY <1>3, LenProperties DEF RecvHeader, WireOK
    <3> QED BY <3>1, RestTypes
  <2>2. WireOK' /\ RecordsOK' /\ DaemonOK' /\ ServerOK'
    BY <1>3, <2>1 DEF RecvHeader, WireOK, RecordsOK, DaemonOK, ServerOK
  <2> QED BY <2>2
<1>4. CASE RecvRval
  <2>1. m2s' \in Seq(Int)
    BY <1>4, HeadTailProperties DEF RecvRval, WireOK
  <2>2. RecordsOK'
    <3>1. set.cmd \in Cmd /\ set.val \in Record(set.cmd) /\ set.val \in Seq(Int)
      BY <1>4, RecordIsData DEF RecvRval, ServerOK
    <3> QED BY <1>4, <3>1 DEF RecvRval, RecordsOK
  <2>3. WireOK' /\ DaemonOK' /\ ServerOK'
    BY <1>4, <2>1 DEF RecvRval, WireOK, DaemonOK, ServerOK
  <2> QED BY <2>2, <2>3
<1>5. CASE ReadRequests
  <2>1. reqbuf' \in Seq(Int) /\ m2s' \in Seq(Int)
    BY <1>5, ConcatProperties, EmptySeq DEF ReadRequests, WireOK
  <2>2. WireOK' /\ RecordsOK' /\ DaemonOK' /\ ServerOK'
    BY <1>5, <2>1 DEF ReadRequests, WireOK, RecordsOK, DaemonOK, ServerOK
  <2> QED BY <2>2
<1>6. CASE ServeRequest
  <2>1. reqbuf' \in Seq(Int)
    <3>1. reqbuf \in Seq(Int) /\ 3 <= Len(reqbuf) /\ reqbuf' = SubSeq(reqbuf, 3 + 1, Len(reqbuf))
      BY <1>6, LenProperties DEF ServeRequest, HeaderLeft, WireOK
    <3> QED BY <3>1, RestTypes
  <2>2. s2m' \in Seq(Int)
    <3>1. CASE reqbuf[1] \in Cmd
      <4>1. reqbuf[1] \in Int /\ Size[reqbuf[1]] \in Int
        BY <3>1, CmdIsWord
      <4>2. Header(reqbuf[1], Size[reqbuf[1]]) \in Seq(Int)
        BY <4>1, HeaderIsWords
      <4> QED BY <1>6, <3>1, <4>2, ConcatProperties DEF ServeRequest, WireOK
    <3>2. CASE reqbuf[1] \notin Cmd
      BY <1>6, <3>2 DEF ServeRequest, WireOK
    <3> QED BY <3>1, <3>2
  <2>3. WireOK' /\ RecordsOK' /\ DaemonOK' /\ ServerOK'
    BY <1>6, <2>1, <2>2 DEF ServeRequest, WireOK, RecordsOK, DaemonOK, ServerOK
  <2> QED BY <2>3
<1>7. CASE Inform
  <2>1. db[serving] \in Seq(Int)
    BY DEF RecordsOK, ServerOK
  <2>2. s2m' \in Seq(Int)
    BY <1>7, <2>1, ConcatProperties DEF Inform, WireOK
  <2>3. WireOK' /\ RecordsOK' /\ DaemonOK' /\ ServerOK'
    BY <1>7, <2>2 DEF Inform, WireOK, RecordsOK, DaemonOK, ServerOK
  <2> QED BY <2>3
<1>8. CASE RequestsDone
  BY <1>8 DEF RequestsDone, WireOK, RecordsOK, DaemonOK, ServerOK
<1> QED BY <1>1, <1>2, <1>3, <1>4, <1>5, <1>6, <1>7, <1>8 DEF ServerStep

\* What the daemon does keeps the types.
LEMMA DaemonTypes ==
    ASSUME TypeInv, DaemonStep
    PROVE  TypeInv'
<1> USE DEF ghost, daemon, server
<1> USE DEF TypeInv
<1>0. /\ GetFails => /\ mpc' \in {"ask", "stopped", "spin"} /\ gi' \in 1..Len(Gets) /\ cnt' \in 0..MaxRead
                     /\ err' \in Nat
      /\ GetSucceeds => /\ mpc' \in {"ask", "header"} /\ gi' \in 1..Len(Gets) /\ cnt' \in 0..MaxRead
                        /\ err' \in Nat
  <2>1. Len(Gets) \in Nat /\ MaxRead \in Nat \ {0}
    BY LinkAssumption, LenProperties
  <2> QED BY <2>1 DEF GetFails, GetSucceeds, DaemonOK
<1>1. CASE Ask
  <2>1. m2s' \in Seq(Int)
    BY <1>1, AskedIsKnown, HeaderIsWords, ConcatProperties DEF Ask, WireOK
  <2>2. WireOK' /\ RecordsOK' /\ DaemonOK' /\ ServerOK'
    BY <1>1, <2>1, LinkAssumption DEF Ask, WireOK, RecordsOK, DaemonOK, ServerOK
  <2> QED BY <2>2
<1>2. CASE GiveUp
  <2>1. WireOK' /\ RecordsOK' /\ ServerOK'
    BY <1>2 DEF GiveUp, WireOK, RecordsOK, ServerOK
  <2>2. DaemonOK'
    BY <1>2, <1>0 DEF GiveUp, DaemonOK
  <2> QED BY <2>1, <2>2
<1>3. CASE GetHeader
  <2>1. s2m' \in Seq(Int) /\ hdr' \in Seq(Int)
    BY <1>3, ReadTypes DEF GetHeader, WireOK
  <2>2. WireOK' /\ RecordsOK' /\ ServerOK'
    BY <1>3, <2>1 DEF GetHeader, WireOK, RecordsOK, ServerOK
  <2>3. MaxRead \in Nat /\ cnt \in 0..MaxRead /\ cnt < MaxRead
    BY <1>3, LinkAssumption DEF GetHeader, DaemonOK
  <2>4. DaemonOK'
    BY <1>3, <1>0, <2>3 DEF GetHeader, DaemonOK
  <2> QED BY <2>2, <2>4
<1>4. CASE GetData
  <2> DEFINE got == Got(Size[Asked])
             new == [j \in 1..Size[Asked] |->
                        IF j <= Len(got) /\ (gi < Len(Gets) \/ Len(got) = Size[Asked])
                        THEN got[j] ELSE conf[Asked][j]]
  <2>1. s2m' \in Seq(Int) /\ got \in Seq(Int) /\ Len(got) \in Nat
    BY <1>4, ReadTypes, AskedIsKnown, LenProperties DEF GetData, WireOK
  <2>2. \A j \in 1..Size[Asked] : j <= Len(got) => got[j] \in Int
    <3> HIDE DEF got
    <3>1. \A j \in 1..Size[Asked] : j <= Len(got) => j \in 1..Len(got)
      BY <2>1, AskedIsKnown
    <3> QED BY <2>1, <3>1, ElementOfSeq
  <2>3. new \in [1..Size[Asked] -> Int]
    <3>1. \A j \in 1..Size[Asked] : conf[Asked][j] \in Int
      BY AskedIsKnown DEF RecordsOK
    <3> HIDE DEF got
    <3> QED BY <2>2, <3>1
  <2>4. new \in Seq(Int)
    <3> HIDE DEF new
    <3> QED BY <2>3, AskedIsKnown, SeqDef
  <2>5. conf' = [conf EXCEPT ![Asked] = new]
    BY <1>4 DEF GetData
  <2> HIDE DEF new, got
  <2>6. RecordsOK'
    BY <1>4, <2>3, <2>4, <2>5, AskedIsKnown DEF GetData, RecordsOK
  <2>7. WireOK' /\ ServerOK'
    BY <1>4, <2>1 DEF GetData, WireOK, ServerOK
  <2>8. DaemonOK'
    BY <1>4, <1>0 DEF GetData, DaemonOK
  <2> QED BY <2>6, <2>7, <2>8
<1>5. CASE CloseLink
  BY <1>5 DEF CloseLink, WireOK, RecordsOK, ServerOK, DaemonOK
<1>6. CASE ReadHeader
  <2>1. s2m' \in Seq(Int) /\ hdr' \in Seq(Int)
    BY <1>6, ReadTypes DEF ReadHeader, WireOK
  <2>2. WireOK' /\ RecordsOK' /\ ServerOK'
    BY <1>6, <2>1 DEF ReadHeader, WireOK, RecordsOK, ServerOK
  <2>3. Len(hdr') \in 0..3
    BY <1>6, ReadTypes DEF ReadHeader, WireOK
  <2>4. DaemonOK'
    <3>1. CASE Len(hdr') < 3
      BY <1>6, <3>1 DEF ReadHeader, DaemonOK
    <3>2. CASE ~(Len(hdr') < 3)
      <4>1. Len(hdr') = 3 /\ err' = 0 /\ UNCHANGED <<gi, cnt>>
        BY <1>6, <2>3, <3>2 DEF ReadHeader
      <4>2. \/ mpc' = "data" /\ hdr'[1] \in Handled /\ ret' = ret
            \/ mpc' = "reply" /\ ret' \in {-1, 0}
        BY <1>6, <3>2 DEF ReadHeader
      <4> QED BY <4>1, <4>2 DEF DaemonOK
    <3> QED BY <3>1, <3>2
  <2> QED BY <2>2, <2>4
<1>7. CASE ReadData
  <2> DEFINE c == hdr[1]
             got == Got(Size[c])
  <2>1. c \in Cmd /\ Size[c] \in Nat
    BY <1>7, LinkAssumption DEF ReadData, DaemonOK
  <2>2. s2m' \in Seq(Int) /\ got \in Seq(Int)
    BY <1>7, <2>1, ReadTypes DEF ReadData, WireOK
  <2>3. Len(got) = Size[c] => got \in [1..Size[c] -> Int]
    <3> HIDE DEF got, c
    <3> QED BY <2>2, LenProperties
  <2>4. conf' = (IF Len(got) = Size[c] THEN [conf EXCEPT ![c] = got] ELSE conf)
        /\ ret' \in {0, -1} /\ mpc' = "reply"
    BY <1>7 DEF ReadData
  <2> HIDE DEF got, c
  <2>5. RecordsOK'
    BY <1>7, <2>1, <2>2, <2>3, <2>4 DEF ReadData, RecordsOK
  <2>6. WireOK' /\ ServerOK' /\ DaemonOK'
    BY <1>7, <2>2, <2>4 DEF ReadData, WireOK, ServerOK, DaemonOK
  <2> QED BY <2>5, <2>6
<1>8. CASE SendReply
  <2>1. hdr[1] \in Int
    <3>1. hdr \in Seq(Int) /\ Len(hdr) = 3
      <4>1. mpc = "reply" /\ hdr \in Seq(Int)
        BY <1>8 DEF SendReply, WireOK
      <4> QED BY <4>1 DEF DaemonOK
    <3>2. 1 \in 1..3
      OBVIOUS
    <3> QED BY <3>1, <3>2, ElementOfSeq
  <2>2. m2s' \in Seq(Int)
    <3>1. Header(hdr[1], 1) \in Seq(Int)
      BY <2>1 DEF Header
    <3> QED BY <1>8, <3>1, ConcatProperties DEF SendReply, WireOK
  <2>3. WireOK' /\ RecordsOK' /\ ServerOK' /\ DaemonOK'
    BY <1>8, <2>2 DEF SendReply, WireOK, RecordsOK, ServerOK, DaemonOK
  <2> QED BY <2>3
<1>9. CASE SendAck
  <2>1. m2s' \in Seq(Int)
    BY <1>9, AppendProperties DEF SendAck, WireOK, DaemonOK
  <2>2. WireOK' /\ RecordsOK' /\ ServerOK' /\ DaemonOK'
    BY <1>9, <2>1 DEF SendAck, WireOK, RecordsOK, ServerOK, DaemonOK
  <2> QED BY <2>2
<1> QED BY <1>1, <1>2, <1>3, <1>4, <1>5, <1>6, <1>7, <1>8, <1>9 DEF DaemonStep


\* The types hold at first.
LEMMA TypeInitially == Init => TypeInv
<1> SUFFICES ASSUME Init PROVE TypeInv
  OBVIOUS
<1>1. Gets[1] \in Cmd /\ 1 \in 1..Len(Gets)
  <2>1. Gets \in Seq(Known) /\ 1 \in 1..Len(Gets) /\ Known \subseteq Cmd
    BY LinkAssumption, LenProperties
  <2> QED BY <2>1, ElementOfSeq
<1>2. \A c \in Cmd : Blank(c) \in [1..Size[c] -> Int] /\ Blank(c) \in Seq(Int)
  <2> TAKE c \in Cmd
  <2>1. Size[c] \in Nat /\ Blank(c) \in [1..Size[c] -> Int]
    BY CmdIsWord DEF Blank
  <2> QED BY <2>1, SeqDef
<1>3. RecordsOK
  <2>1. \A c \in Cmd : db[c] \in Record(c) /\ db[c] \in Seq(Int)
    BY RecordIsData DEF Init
  <2>2. db \in [Cmd -> Seq(Int)]
    BY <2>1 DEF Init
  <2>3. \A c \in Cmd : conf[c] = Blank(c)
    BY DEF Init
  <2>4. conf \in [Cmd -> Seq(Int)]
    BY <1>2 DEF Init
  <2> QED BY <1>2, <2>1, <2>2, <2>3, <2>4 DEF RecordsOK
<1>4. WireOK
  <2>1. <<>> \in Seq(Int) /\ Header(0, 0) \in Seq(Int)
    BY HeaderIsWords
  <2> QED BY <2>1 DEF Init, WireOK
<1>5. ServerOK
  <2>1. spc = "idle" /\ set = NoSet /\ serving = Gets[1] /\ sets = 0 /\ early = FALSE
        /\ MaxSets \in Nat
    BY LinkAssumption DEF Init
  <2>2. serving \in Cmd
    BY <1>1, <2>1
  <2>3. sets \in 0..MaxSets
    BY <2>1
  <2>4. early \in BOOLEAN
    BY <2>1, Zenon
  <2>5. spc \notin {"data", "hdr", "rval"}
    BY <2>1
  <2>6. spc \in {"idle", "data", "hdr", "rval", "requests", "inform"}
    BY <2>1
  <2> HIDE <1>1
  <2> QED BY <2>1, <2>2, <2>3, <2>4, <2>5, <2>6, Zenon DEF ServerOK
<1>6. DaemonOK
  <2>1. mpc = "ask" /\ gi = 1 /\ cnt = 0 /\ err = 0 /\ ret = 0 /\ MaxRead \in Nat
    BY LinkAssumption DEF Init
  <2> QED BY <1>1, <2>1 DEF DaemonOK
<1> QED BY <1>3, <1>4, <1>5, <1>6 DEF TypeInv

\* Every step keeps the types.
LEMMA TypesKept == TypeInv /\ [Next]_vars => TypeInv'
<1> SUFFICES ASSUME TypeInv, [Next]_vars PROVE TypeInv'
  OBVIOUS
<1>1. CASE UNCHANGED vars
  BY <1>1 DEF vars, TypeInv, WireOK, RecordsOK, ServerOK, DaemonOK
<1> QED BY <1>1, ServerTypes, DaemonTypes DEF Next

\* Every state has its type, in step or not: in particular an index of Gets is
\* never past its end.
THEOREM TypeCorrect == Spec => []TypeOK
BY TypeInitially, TypesKept, TypeParts, PTL DEF Spec
----------------------------------------------------------------------------
(* Where the two ends are, and what is then in the socket, while no SET     *)
(* came early.                                                              *)

\* Nothing in the socket, nor in the server's buffer.
Empty == s2m = <<>> /\ m2s = <<>> /\ reqbuf = <<>>
Requests == spc \in {"idle", "requests"}

\* The start-up, between two GETs and along one.
BeforeGet     == mpc = "ask" /\ Requests /\ Empty
RequestSent   == mpc = "get" /\ Requests /\ s2m = <<>> /\ m2s = Header(Asked, 0) /\ reqbuf = <<>>
RequestRead   == mpc = "get" /\ spc = "requests" /\ s2m = <<>> /\ m2s = <<>> /\ reqbuf = Header(Asked, 0)
AnswerBegun   == /\ mpc = "get" /\ spc = "inform" /\ serving = Asked
                 /\ s2m = Header(Asked, Size[Asked]) /\ m2s = <<>> /\ reqbuf = <<>>
HeaderTaken   == mpc = "getData" /\ spc = "inform" /\ serving = Asked /\ Empty
AnswerSent    == /\ mpc = "get" /\ Requests
                 /\ s2m = Header(Asked, Size[Asked]) \o db[Asked] /\ m2s = <<>> /\ reqbuf = <<>>
DataSent      == mpc = "getData" /\ Requests /\ s2m = db[Asked] /\ m2s = <<>> /\ reqbuf = <<>>

Starting ==
    /\ set = NoSet /\ err = 0 /\ (mpc = "get" => cnt = 0)
    /\ \/ BeforeGet \/ RequestSent \/ RequestRead \/ AnswerBegun
       \/ HeaderTaken \/ AnswerSent \/ DataSent

\* The command thread, between two SETs and along one.
BeforeSet     == mpc = "header" /\ Requests /\ set = NoSet /\ Empty
SetBegun      == /\ mpc = "header" /\ spc = "data"
                 /\ s2m = Header(set.cmd, Size[set.cmd]) /\ m2s = <<>> /\ reqbuf = <<>>
SetAwaited    == /\ mpc = "data" /\ spc = "data" /\ hdr = Header(set.cmd, Size[set.cmd]) /\ Empty
SetSent       == /\ mpc = "header" /\ spc = "hdr"
                 /\ s2m = Header(set.cmd, Size[set.cmd]) \o set.val /\ m2s = <<>> /\ reqbuf = <<>>
SetFollows    == /\ mpc = "data" /\ spc = "hdr" /\ hdr = Header(set.cmd, Size[set.cmd])
                 /\ s2m = set.val /\ m2s = <<>> /\ reqbuf = <<>>
SetApplied    == /\ mpc = "reply" /\ spc = "hdr" /\ hdr = Header(set.cmd, Size[set.cmd])
                 /\ ret = 0 /\ Empty
ReplyBegun    == /\ mpc = "ack" /\ spc = "hdr" /\ ret = 0
                 /\ s2m = <<>> /\ m2s = Header(set.cmd, 1) /\ reqbuf = <<>>
ResultAwaited == mpc = "ack" /\ spc = "rval" /\ ret = 0 /\ Empty
ReplySent     == /\ mpc = "header" /\ spc = "hdr"
                 /\ s2m = <<>> /\ m2s = Header(set.cmd, 1) \o <<0>> /\ reqbuf = <<>>
ResultFollows == mpc = "header" /\ spc = "rval" /\ s2m = <<>> /\ m2s = <<0>> /\ reqbuf = <<>>

\* The daemon has the new value.
Taken == SetApplied \/ ReplyBegun \/ ResultAwaited \/ ReplySent \/ ResultFollows
Setting ==
    /\ set # NoSet /\ set.cmd \in Handled
    /\ SetBegun \/ SetAwaited \/ SetSent \/ SetFollows \/ (Taken /\ conf[set.cmd] = set.val)

Running == gi = Len(Gets) /\ err = 0 /\ (BeforeSet \/ Setting)

\* What was loaded and is not being set is the same at both ends.
Loaded(g) == (StartedUp \/ g < gi) /\ (set = NoSet \/ Gets[g] # set.cmd)
Agree == \A g \in 1..Len(Gets) : Loaded(g) => conf[Gets[g]] = db[Gets[g]]

LinkInv == ~early => (Starting \/ Running) /\ Agree
IInv == TypeInv /\ LinkInv

\* A step of ConfSync's, or one that it does not see.
SyncStep == Sync!Next \/ UNCHANGED <<db, conf, set, early>>

\* What the steps below need of the SET under way.
LEMMA SetIsWords ==
    ASSUME TypeInv, set # NoSet
    PROVE  /\ set.cmd \in Cmd /\ set.cmd \in Int /\ Size[set.cmd] \in Int
           /\ set.val \in Record(set.cmd) /\ set.val \in Seq(Int) /\ set.val # <<>>
           /\ Len(set.val) = Size[set.cmd]
BY RecordIsData, CmdIsWord DEF TypeInv, ServerOK

\* The server's steps lead from one of these places to another.
LEMMA ServerInStep ==
    ASSUME IInv, ~early',
           ServerStep \/ \E c \in Cmd : \E v \in Record(c) : HostSet(c, v)
    PROVE  (Starting \/ Running)' /\ Agree' /\ SyncStep
<1> USE DEF ghost, daemon
<1>0. TypeInv /\ ~early /\ (Starting \/ Running) /\ Agree
  <2>1. early => early'
    BY DEF ServerStep, HostSet, SendData, RecvHeader, RecvRval, ReadRequests, ServeRequest,
           Inform, RequestsDone
  <2> QED BY <2>1 DEF IInv, LinkInv
<1>a. /\ Len(<<>>) = 0
      /\ Asked \in Cmd /\ Asked \in Int /\ Size[Asked] \in Int /\ db[Asked] \in Seq(Int)
  BY <1>0, AskedIsKnown, RecordIsData
<1>1. ASSUME NEW c \in Cmd, NEW v \in Record(c), HostSet(c, v)
      PROVE  (Starting \/ Running)' /\ Agree' /\ SyncStep
  <2>1. StartedUp /\ c \in Handled /\ spc = "idle"
    BY <1>1 DEF HostSet
  <2>2. Running /\ BeforeSet
    BY <1>0, <2>1 DEF Starting, Running, Setting, StartedUp, BeforeGet, RequestSent, RequestRead,
       AnswerBegun, HeaderTaken, AnswerSent, DataSent, SetBegun, SetAwaited, SetSent, SetFollows,
       Taken, SetApplied, ReplyBegun, ResultAwaited, ReplySent, ResultFollows
  <2>3. s2m' = Header(c, Size[c])
    <3>1. <<>> \o Header(c, Size[c]) = Header(c, Size[c])
      BY CmdIsWord, HeaderAlone
    <3> QED BY <1>1, <2>2, <3>1 DEF HostSet, BeforeSet, Empty
  <2>4. set' = [cmd |-> c, val |-> v] /\ set' # NoSet /\ set'.cmd = c
    BY <1>1, NoSetAssumption DEF HostSet
  <2>5. Running'
    BY <1>1, <2>1, <2>2, <2>3, <2>4 DEF HostSet, Running, Setting, BeforeSet, SetBegun, Empty
  <2>6. Agree'
    BY <1>0, <1>1, <2>2 DEF HostSet, Agree, Loaded, StartedUp, BeforeSet
  <2>7. SyncStep
    <3>1. early' = early
      <4>1. early = FALSE
        BY <1>0, Zenon DEF TypeInv, ServerOK
      <4>2. early' = (early \/ ~StartedUp \/ c \notin Handled)
        BY <1>1 DEF HostSet
      <4> QED BY <2>1, <4>1, <4>2, Zenon
    <3>2. UNCHANGED <<db, conf>> /\ set = NoSet
      BY <1>1, <2>2 DEF HostSet, BeforeSet
    <3> QED BY <1>0, <2>4, <3>1, <3>2 DEF SyncStep, Sync!Next, Sync!Begin
  <2> QED BY <2>5, <2>6, <2>7
<1>2. CASE SendData
  <2>1. Running /\ Setting /\ (SetBegun \/ SetAwaited)
    BY <1>0, <1>2 DEF SendData, Starting, Running, Setting, Requests, BeforeGet, RequestSent,
       RequestRead, AnswerBegun, HeaderTaken, AnswerSent, DataSent, BeforeSet, SetSent, SetFollows,
       Taken, SetApplied, ReplyBegun, ResultAwaited, ReplySent, ResultFollows
  <2>2. ASSUME SetBegun PROVE Running'
    BY <1>2, <2>1, <2>2 DEF SendData, Running, Setting, SetBegun, SetSent
  <2>3. ASSUME SetAwaited PROVE Running'
    <3>1. <<>> \o set.val = set.val
      BY <1>0, <2>1, SetIsWords, ConcatEmptySeq DEF Setting
    <3> QED BY <1>2, <2>1, <2>3, <3>1 DEF SendData, Running, Setting, SetAwaited, SetFollows, Empty
  <2>4. Agree'
    BY <1>0, <1>2 DEF SendData, Agree, Loaded, StartedUp
  <2>5. SyncStep
    BY <1>2 DEF SendData, SyncStep
  <2> QED BY <2>1, <2>2, <2>3, <2>4, <2>5
<1>3. CASE RecvHeader
  <2>0. m2s # <<>>
    BY <1>3, <1>a DEF RecvHeader
  <2>1. Running /\ Setting /\ (ReplyBegun \/ ReplySent) /\ conf[set.cmd] = set.val
    BY <1>0, <1>3, <2>0, Zenon DEF RecvHeader, Starting, Running, Setting, Requests, Empty, BeforeGet,
       RequestSent, RequestRead, AnswerBegun, HeaderTaken, AnswerSent, DataSent, BeforeSet,
       SetBegun, SetAwaited, SetSent, SetFollows, Taken, SetApplied, ResultAwaited, ResultFollows
  <2>2. set.cmd \in Int
    BY <1>0, <2>1, SetIsWords DEF Setting
  <2>3. ASSUME ReplyBegun PROVE Running'
    <3>1. m2s' = <<>>
      <4>1. SubSeq(Header(set.cmd, 1), 4, Len(Header(set.cmd, 1))) = <<>>
        <5> 1 \in Int
          OBVIOUS
        <5> QED BY <2>2, HeaderAlone
      <4> QED BY <1>3, <2>3, <4>1 DEF RecvHeader, ReplyBegun
    <3> QED BY <1>3, <2>1, <2>3, <3>1 DEF RecvHeader, Running, Setting, Taken, ReplyBegun,
       ResultAwaited, Empty
  <2>4. ASSUME ReplySent PROVE Running'
    <3>1. m2s' = <<0>>
      <4>1. <<0>> \in Seq(Int)
        OBVIOUS
      <4>2. SubSeq(Header(set.cmd, 1) \o <<0>>, 4, Len(Header(set.cmd, 1) \o <<0>>)) = <<0>>
        <5> 1 \in Int
          OBVIOUS
        <5> QED BY <2>2, <4>1, HeaderFirst
      <4> QED BY <1>3, <2>4, <4>2 DEF RecvHeader, ReplySent
    <3> QED BY <1>3, <2>1, <2>4, <3>1 DEF RecvHeader, Running, Setting, Taken, ReplySent,
       ResultFollows
  <2>5. Agree'
    BY <1>0, <1>3 DEF RecvHeader, Agree, Loaded, StartedUp
  <2>6. SyncStep
    BY <1>3 DEF RecvHeader, SyncStep
  <2> QED BY <2>1, <2>3, <2>4, <2>5, <2>6
<1>4. CASE RecvRval
  <2>1. Running /\ Setting /\ ResultFollows /\ conf[set.cmd] = set.val
    BY <1>0, <1>4 DEF RecvRval, Starting, Running, Setting, Requests, Empty, BeforeGet,
       RequestSent, RequestRead, AnswerBegun, HeaderTaken, AnswerSent, DataSent, BeforeSet,
       SetBegun, SetAwaited, SetSent, SetFollows, Taken, SetApplied, ReplyBegun, ResultAwaited,
       ReplySent
  <2>2. m2s' = <<>> /\ db' = [db EXCEPT ![set.cmd] = set.val] /\ spc' = "idle" /\ set' = NoSet
        /\ UNCHANGED <<s2m, reqbuf, conf, gi, err, mpc>>
    <3>1. Head(<<0>>) = 0 /\ Tail(<<0>>) = <<>>
      OBVIOUS
    <3> QED BY <1>4, <2>1, <3>1 DEF RecvRval, ResultFollows
  <2>3. Running'
    BY <2>1, <2>2 DEF Running, BeforeSet, Requests, Empty, ResultFollows
  <2>4. Agree'
    <3>1. \A g \in 1..Len(Gets) : Gets[g] # set.cmd => conf[Gets[g]] = db[Gets[g]]
      BY <1>0, <2>1 DEF Agree, Loaded, StartedUp, ResultFollows
    <3>2. db \in [Cmd -> Seq(Int)] /\ set.cmd \in Cmd /\ set.val \in Seq(Int)
      BY <1>0, <2>1, SetIsWords DEF TypeInv, RecordsOK, Setting
    <3>3. \A g \in 1..Len(Gets) : Gets[g] \in Cmd
      BY ElementOfSeq, LinkAssumption
    <3> HIDE <1>0
    <3>4. \A g \in 1..Len(Gets) : conf'[Gets[g]] = db'[Gets[g]]
      BY <2>1, <2>2, <3>1, <3>2, <3>3
    <3> QED BY <3>4 DEF Agree
  <2>5. SyncStep
    BY <1>0, <1>4, <2>1, <2>2 DEF RecvRval, Setting, SyncStep, Sync!Next, Sync!Commit
  <2> QED BY <2>3, <2>4, <2>5
<1>5. CASE ReadRequests
  <2>1. Starting /\ RequestSent
    BY <1>0, <1>5 DEF ReadRequests, Starting, Running, Setting, Requests, Empty, BeforeGet,
       RequestRead, AnswerBegun, HeaderTaken, AnswerSent, DataSent, BeforeSet,
       SetBegun, SetAwaited, SetSent, SetFollows, Taken, SetApplied, ReplyBegun, ResultAwaited,
       ReplySent, ResultFollows
  <2>2. reqbuf' = Header(Asked, 0)
    BY <1>5, <1>a, <2>1, HeaderAlone DEF ReadRequests, RequestSent
  <2>3. Asked' = Asked
    BY <1>5 DEF ReadRequests, Asked
  <2>4. Starting'
    BY <1>5, <2>1, <2>2, <2>3 DEF ReadRequests, Starting, RequestSent, RequestRead
  <2>5. Agree'
    BY <1>0, <1>5 DEF ReadRequests, Agree, Loaded, StartedUp
  <2>6. SyncStep
    BY <1>5 DEF ReadRequests, SyncStep
  <2> QED BY <2>4, <2>5, <2>6
<1>6. CASE ServeRequest
  <2>0. spc = "requests" /\ reqbuf # <<>>
    BY <1>6, <1>a DEF ServeRequest, HeaderLeft
  <2>1. Starting /\ RequestRead
    BY <1>0, <2>0 DEF Starting, Running, Setting, Requests, Empty,
       BeforeGet, RequestSent, AnswerBegun, HeaderTaken, AnswerSent, DataSent, BeforeSet,
       SetBegun, SetAwaited, SetSent, SetFollows, Taken, SetApplied, ReplyBegun, ResultAwaited,
       ReplySent, ResultFollows
  <2>2. reqbuf[1] = Asked /\ SubSeq(reqbuf, 4, Len(reqbuf)) = <<>>
    <3>1. 0 \in Int
      OBVIOUS
    <3>2. Header(Asked, 0)[1] = Asked /\ SubSeq(Header(Asked, 0), 4, Len(Header(Asked, 0))) = <<>>
      BY <1>a, <3>1, HeaderAlone
    <3> QED BY <2>1, <3>2 DEF RequestRead
  <2>3. <<>> \o Header(Asked, Size[Asked]) = Header(Asked, Size[Asked])
    BY <1>a, HeaderAlone
  <2>4. Asked' = Asked
    BY <1>6 DEF ServeRequest, Asked
  <2>5. Starting'
    BY <1>6, <1>a, <2>1, <2>2, <2>3, <2>4 DEF ServeRequest, Starting, RequestRead, AnswerBegun
  <2>6. Agree'
    BY <1>0, <1>6 DEF ServeRequest, Agree, Loaded, StartedUp
  <2>7. SyncStep
    BY <1>6 DEF ServeRequest, SyncStep
  <2> QED BY <2>5, <2>6, <2>7
<1>7. CASE Inform
  <2>1. Starting /\ (AnswerBegun \/ HeaderTaken)
    BY <1>0, <1>7 DEF Inform, Starting, Running, Setting, Requests, BeforeGet,
       RequestSent, RequestRead, AnswerSent, DataSent, BeforeSet,
       SetBegun, SetAwaited, SetSent, SetFollows, Taken, SetApplied, ReplyBegun, ResultAwaited,
       ReplySent, ResultFollows
  <2>2. Asked' = Asked /\ <<>> \o db[Asked] = db[Asked]
    BY <1>7, <1>a, ConcatEmptySeq DEF Inform, Asked
  <2>3. Starting'
    BY <1>7, <2>1, <2>2 DEF Inform, Starting, AnswerBegun, HeaderTaken, AnswerSent, DataSent,
       Requests, Empty
  <2>4. Agree'
    BY <1>0, <1>7 DEF Inform, Agree, Loaded, StartedUp
  <2>5. SyncStep
    BY <1>7 DEF Inform, SyncStep
  <2> QED BY <2>3, <2>4, <2>5
<1>8. CASE RequestsDone
  <2>1. ~RequestRead
    BY <1>8, <1>a, HeaderAlone DEF RequestsDone, HeaderLeft, RequestRead
  <2>2. Asked' = Asked
    BY <1>8 DEF RequestsDone, Asked
  <2>3. (Starting \/ Running)'
    <3>1. CASE Starting
      BY <1>8, <2>1, <2>2, <3>1 DEF RequestsDone, Starting, Requests, Empty, BeforeGet, RequestSent,
         AnswerBegun, HeaderTaken, AnswerSent, DataSent
    <3>2. CASE Running
      <4>1. BeforeSet
        BY <1>8, <3>2 DEF RequestsDone, Running, Setting, SetBegun, SetAwaited, SetSent,
           SetFollows, Taken, SetApplied, ReplyBegun, ResultAwaited, ReplySent, ResultFollows
      <4> QED BY <1>8, <3>2, <4>1 DEF RequestsDone, Running, BeforeSet, Requests, Empty
    <3> QED BY <1>0, <3>1, <3>2
  <2>4. Agree'
    BY <1>0, <1>8 DEF RequestsDone, Agree, Loaded, StartedUp
  <2>5. SyncStep
    BY <1>8 DEF RequestsDone, SyncStep
  <2> QED BY <2>3, <2>4, <2>5
<1> QED BY <1>1, <1>2, <1>3, <1>4, <1>5, <1>6, <1>7, <1>8 DEF ServerStep

\* What a read by the daemon takes from the socket and leaves in it.
LEMMA GetsHeader ==
    ASSUME TypeInv, s2m = Header(Asked, Size[Asked]) \/ s2m = Header(Asked, Size[Asked]) \o db[Asked]
    PROVE  /\ Got(3) = Header(Asked, Size[Asked])
           /\ s2m = Header(Asked, Size[Asked]) => Rest(3) = <<>>
           /\ s2m = Header(Asked, Size[Asked]) \o db[Asked] => Rest(3) = db[Asked]
<1>1. Asked \in Int /\ Size[Asked] \in Int /\ db[Asked] \in Seq(Int) /\ <<>> \in Seq(Int)
  BY AskedIsKnown, RecordIsData
<1>2. Header(Asked, Size[Asked]) = Header(Asked, Size[Asked]) \o <<>>
  BY <1>1, HeaderAlone
<1>3. ASSUME s2m = Header(Asked, Size[Asked])
      PROVE  Got(3) = Header(Asked, Size[Asked]) /\ Rest(3) = <<>>
  <2>1. s2m = Header(Asked, Size[Asked]) \o <<>>
    BY <1>2, <1>3
  <2> QED BY <1>1, <2>1, ReadsHeader
<1>4. ASSUME s2m = Header(Asked, Size[Asked]) \o db[Asked]
      PROVE  Got(3) = Header(Asked, Size[Asked]) /\ Rest(3) = db[Asked]
  BY <1>1, <1>4, ReadsHeader
<1> QED BY <1>3, <1>4

\* The same of a SET.
LEMMA SetHeader ==
    ASSUME TypeInv, set # NoSet,
           s2m = Header(set.cmd, Size[set.cmd]) \/ s2m = Header(set.cmd, Size[set.cmd]) \o set.val
    PROVE  /\ Got(3) = Header(set.cmd, Size[set.cmd])
           /\ s2m = Header(set.cmd, Size[set.cmd]) => Rest(3) = <<>>
           /\ s2m = Header(set.cmd, Size[set.cmd]) \o set.val => Rest(3) = set.val
<1>1. set.cmd \in Int /\ Size[set.cmd] \in Int /\ set.val \in Seq(Int) /\ <<>> \in Seq(Int)
  BY SetIsWords
<1>2. Header(set.cmd, Size[set.cmd]) = Header(set.cmd, Size[set.cmd]) \o <<>>
  BY <1>1, HeaderAlone
<1>3. ASSUME s2m = Header(set.cmd, Size[set.cmd])
      PROVE  Got(3) = Header(set.cmd, Size[set.cmd]) /\ Rest(3) = <<>>
  <2>1. s2m = Header(set.cmd, Size[set.cmd]) \o <<>>
    BY <1>2, <1>3
  <2> QED BY <1>1, <2>1, ReadsHeader
<1>4. ASSUME s2m = Header(set.cmd, Size[set.cmd]) \o set.val
      PROVE  Got(3) = Header(set.cmd, Size[set.cmd]) /\ Rest(3) = set.val
  BY <1>1, <1>4, ReadsHeader
<1> QED BY <1>3, <1>4

\* ... and so do the daemon's.
LEMMA DaemonInStep ==
    ASSUME IInv, ~early', DaemonStep
    PROVE  (Starting \/ Running)' /\ Agree' /\ SyncStep
<1> USE DEF ghost, server
<1>0. TypeInv /\ ~early /\ (Starting \/ Running) /\ Agree
  <2>1. early' = early
    BY DEF DaemonStep, Ask, GiveUp, GetHeader, GetData, CloseLink, ReadHeader, ReadData, SendReply,
           SendAck
  <2> QED BY <2>1 DEF IInv, LinkInv
<1>a. /\ Asked \in Cmd /\ Asked \in Known /\ Asked \in Int /\ Size[Asked] \in Int
      /\ db[Asked] \in Seq(Int) /\ Len(db[Asked]) = Size[Asked]
  BY <1>0, AskedIsKnown, RecordIsData
<1>b. gi \in 1..Len(Gets) /\ Len(Gets) \in Nat /\ MaxErr \in Nat /\ MaxRead \in Nat \ {0}
  BY <1>0, LinkAssumption, LenProperties DEF TypeInv, DaemonOK
<1>1. CASE Ask
  <2>1. Starting /\ BeforeGet
    BY <1>0, <1>1 DEF Ask, Starting, Running, Setting, BeforeGet, RequestSent,
       RequestRead, AnswerBegun, HeaderTaken, AnswerSent, DataSent, BeforeSet, SetBegun, SetAwaited,
       SetSent, SetFollows, Taken, SetApplied, ReplyBegun, ResultAwaited, ReplySent, ResultFollows
  <2>2. Asked' = Asked /\ <<>> \o Header(Asked, 0) = Header(Asked, 0)
    <3>1. 0 \in Int
      OBVIOUS
    <3> QED BY <1>1, <1>a, <3>1, HeaderAlone DEF Ask, Asked
  <2>3. Starting'
    BY <1>1, <2>1, <2>2 DEF Ask, Starting, BeforeGet, RequestSent, Requests, Empty
  <2>4. Agree'
    BY <1>0, <1>1 DEF Ask, Agree, Loaded, StartedUp
  <2>5. SyncStep
    BY <1>1 DEF Ask, SyncStep
  <2> QED BY <2>3, <2>4, <2>5
<1>2. CASE GiveUp
  <2>1. mpc = "get" /\ cnt # 0
    BY <1>2, <1>b DEF GiveUp
  <2> QED BY <1>0, <2>1 DEF Starting, Running, Setting, BeforeSet, SetBegun, SetAwaited,
       SetSent, SetFollows, Taken, SetApplied, ReplyBegun, ResultAwaited, ReplySent, ResultFollows
<1>3. CASE GetHeader
  <2>0. mpc = "get" /\ s2m # <<>>
    BY <1>3 DEF GetHeader
  <2>1. Starting /\ (AnswerBegun \/ AnswerSent)
    BY <1>0, <2>0 DEF Starting, Running, Setting, Empty, BeforeGet, RequestSent,
       RequestRead, HeaderTaken, DataSent, BeforeSet, SetBegun, SetAwaited,
       SetSent, SetFollows, Taken, SetApplied, ReplyBegun, ResultAwaited, ReplySent, ResultFollows
  <2>2. /\ Got(3) = Header(Asked, Size[Asked])
        /\ AnswerBegun => Rest(3) = <<>>
        /\ AnswerSent => Rest(3) = db[Asked]
    BY <1>0, <2>1, GetsHeader DEF AnswerBegun, AnswerSent
  <2>3. Len(hdr') = 3 /\ hdr'[1] = Asked /\ hdr'[3] = Size[Asked] /\ s2m' = Rest(3)
    <3>1. hdr' = Header(Asked, Size[Asked]) /\ s2m' = Rest(3)
      BY <1>3, <2>2 DEF GetHeader
    <3> QED BY <1>a, <3>1, HeaderAlone
  <2>4. mpc' = "getData" /\ UNCHANGED <<gi, err, conf, m2s, server, ghost>>
    <3>1. Fits(hdr') /\ hdr'[1] \in Known /\ ~(Len(hdr') < 3)
      BY <1>a, <2>3 DEF Fits
    <3> QED BY <1>3, <2>3, <3>1 DEF GetHeader
  <2>5. Asked' = Asked
    BY <2>4 DEF Asked
  <2>6. Starting'
    BY <2>1, <2>2, <2>3, <2>4, <2>5 DEF Starting, AnswerBegun, AnswerSent, HeaderTaken, DataSent,
       Requests, Empty
  <2>7. Agree'
    BY <1>0, <2>0, <2>4 DEF Agree, Loaded, StartedUp
  <2>8. SyncStep
    BY <2>4 DEF SyncStep
  <2> QED BY <2>6, <2>7, <2>8
<1>4. CASE GetData
  <2>0. mpc = "getData" /\ s2m # <<>>
    BY <1>4 DEF GetData
  <2>1. Starting /\ DataSent
    BY <1>0, <2>0 DEF Starting, Running, Setting, Empty, BeforeGet, RequestSent,
       RequestRead, HeaderTaken, AnswerBegun, AnswerSent, BeforeSet, SetBegun, SetAwaited,
       SetSent, SetFollows, Taken, SetApplied, ReplyBegun, ResultAwaited, ReplySent, ResultFollows
  <2>2. Got(Size[Asked]) = db[Asked] /\ Rest(Size[Asked]) = <<>>
    BY <1>a, <2>1, ReadsAll DEF DataSent
  <2>3. GetSucceeds /\ s2m' = <<>> /\ UNCHANGED <<m2s, server, ghost>>
    BY <1>4, <1>a, <2>2 DEF GetData
  <2>4. conf' = [conf EXCEPT ![Asked] = db[Asked]]
    <3> DEFINE new == [j \in 1..Size[Asked] |->
                 IF j <= Len(db[Asked]) /\ (gi < Len(Gets) \/ Len(db[Asked]) = Size[Asked])
                 THEN db[Asked][j] ELSE conf[Asked][j]]
    <3>1. conf' = [conf EXCEPT ![Asked] = new]
      BY <1>4, <2>2 DEF GetData
    <3>2. new = db[Asked]
      <4>1. db[Asked] = [j \in 1..Size[Asked] |-> db[Asked][j]]
        BY <1>a, LenProperties
      <4>2. \A j \in 1..Size[Asked] : new[j] = db[Asked][j]
        BY <1>a
      <4> QED BY <4>1, <4>2
    <3> QED BY <3>1, <3>2
  <2>5. (Starting \/ Running)'
    <3>1. CASE gi < Len(Gets)
      <4>1. mpc' = "ask" /\ err' = 0
        BY <2>3, <3>1 DEF GetSucceeds
      <4> QED BY <2>1, <2>3, <4>1 DEF Starting, DataSent, BeforeGet, Requests, Empty
    <3>2. CASE gi = Len(Gets)
      <4>1. mpc' = "header" /\ err' = 0 /\ gi' = gi
        BY <2>3, <3>2 DEF GetSucceeds
      <4> QED BY <2>1, <2>3, <3>2, <4>1 DEF Starting, DataSent, Running, BeforeSet, Requests, Empty
    <3> QED BY <1>b, <3>1, <3>2
  <2>6. Agree'
    <3>1. db' = db /\ set = NoSet /\ conf \in [Cmd -> Seq(Int)] /\ ~StartedUp
      BY <1>0, <2>0, <2>1, <2>3 DEF Starting, TypeInv, RecordsOK, StartedUp
    <3>2. \A g \in 1..Len(Gets) : g < gi => conf[Gets[g]] = db[Gets[g]]
      BY <1>0, <3>1 DEF Agree, Loaded
    <3>3. \A g \in 1..Len(Gets) : Gets[g] \in Cmd
      BY ElementOfSeq, LinkAssumption
    <3>4. \A g \in 1..Len(Gets) : g <= gi => conf'[Gets[g]] = db[Gets[g]]
      BY <1>a, <1>b, <2>4, <3>1, <3>2, <3>3 DEF Asked
    <3>5. \A g \in 1..Len(Gets) : Loaded(g)' => g <= gi
      <4>1. CASE gi < Len(Gets)
        <5>1. mpc' = "ask" /\ gi' = gi + 1
          BY <2>3, <4>1 DEF GetSucceeds
        <5> QED BY <1>b, <5>1 DEF Loaded, StartedUp
      <4>2. CASE gi = Len(Gets)
        BY <4>2
      <4> QED BY <1>b, <4>1, <4>2
    <3> QED BY <3>1, <3>4, <3>5 DEF Agree
  <2>7. SyncStep
    BY <1>0, <1>a, <2>3, <2>4 DEF SyncStep, Sync!Next, Sync!Load
  <2> QED BY <2>5, <2>6, <2>7
<1>5. CASE CloseLink
  <2>1. mpc = "header" /\ err # 0
    BY <1>5, <1>b DEF CloseLink
  <2> QED BY <1>0, <2>1 DEF Starting, Running
<1>6. CASE ReadHeader
  <2>0. mpc = "header" /\ s2m # <<>>
    BY <1>6 DEF ReadHeader
  <2>1. Running /\ Setting /\ (SetBegun \/ SetSent)
    BY <1>0, <2>0 DEF Starting, Running, Setting, Empty, BeforeGet, RequestSent,
       RequestRead, AnswerBegun, HeaderTaken, AnswerSent, DataSent, BeforeSet, SetAwaited,
       SetFollows, Taken, SetApplied, ReplyBegun, ResultAwaited, ReplySent, ResultFollows
  <2>2. /\ set.cmd \in Int /\ Size[set.cmd] \in Int /\ set.cmd \in Handled
    BY <1>0, <2>1, SetIsWords DEF Setting
  <2>3. /\ Got(3) = Header(set.cmd, Size[set.cmd])
        /\ SetBegun => Rest(3) = <<>>
        /\ SetSent => Rest(3) = set.val
    BY <1>0, <2>1, SetHeader DEF Setting, SetBegun, SetSent
  <2>4. hdr' = Header(set.cmd, Size[set.cmd]) /\ s2m' = Rest(3)
    BY <1>6, <2>3 DEF ReadHeader
  <2>5. Len(hdr') = 3 /\ hdr'[1] = set.cmd /\ hdr'[3] = Size[set.cmd]
    BY <2>2, <2>4, HeaderAlone
  <2>6. mpc' = "data" /\ err' = 0 /\ UNCHANGED <<gi, conf, m2s, server, ghost>>
    <3>1. ~(Len(hdr') < 3)
      BY <2>5
    <3> QED BY <1>6, <2>2, <2>5, <3>1 DEF ReadHeader
  <2>7. Running'
    <3>1. ASSUME SetBegun PROVE Running'
      BY <2>1, <2>3, <2>4, <2>6, <3>1 DEF Running, Setting, SetBegun, SetAwaited, Empty
    <3>2. ASSUME SetSent PROVE Running'
      BY <2>1, <2>3, <2>4, <2>6, <3>2 DEF Running, Setting, SetSent, SetFollows
    <3> QED BY <2>1, <3>1, <3>2
  <2>8. Agree'
    BY <1>0, <2>0, <2>6 DEF Agree, Loaded, StartedUp
  <2>9. SyncStep
    BY <2>6 DEF SyncStep
  <2> QED BY <2>7, <2>8, <2>9
<1>7. CASE ReadData
  <2>0. mpc = "data" /\ s2m # <<>>
    BY <1>7 DEF ReadData
  <2>1. Running /\ Setting /\ SetFollows
    BY <1>0, <2>0 DEF Starting, Running, Setting, Empty, BeforeGet, RequestSent,
       RequestRead, AnswerBegun, HeaderTaken, AnswerSent, DataSent, BeforeSet, SetAwaited,
       SetBegun, SetSent, Taken, SetApplied, ReplyBegun, ResultAwaited, ReplySent, ResultFollows
  <2>2. /\ set.cmd \in Int /\ Size[set.cmd] \in Int /\ set.cmd \in Cmd
        /\ set.val \in Seq(Int) /\ Len(set.val) = Size[set.cmd]
    BY <1>0, <2>1, SetIsWords DEF Setting
  <2>3. Got(Size[set.cmd]) = set.val /\ Rest(Size[set.cmd]) = <<>>
    BY <2>1, <2>2, ReadsAll DEF SetFollows
  <2>4. hdr[1] = set.cmd
    BY <2>1, <2>2, HeaderAlone DEF SetFollows
  <2>5. /\ s2m' = <<>> /\ conf' = [conf EXCEPT ![set.cmd] = set.val] /\ ret' = 0 /\ mpc' = "reply"
        /\ UNCHANGED <<m2s, gi, err, hdr, server, ghost>>
    BY <1>7, <2>2, <2>3, <2>4 DEF ReadData
  <2>6. conf \in [Cmd -> Seq(Int)]
    BY <1>0 DEF TypeInv, RecordsOK
  <2>7. Running'
    <3>1. conf'[set.cmd] = set.val
      BY <2>2, <2>5, <2>6
    <3> QED BY <2>1, <2>5, <3>1 DEF Running, Setting, SetFollows, Taken, SetApplied, Empty
  <2>8. Agree'
    <3>1. \A g \in 1..Len(Gets) : Gets[g] # set.cmd => conf[Gets[g]] = db[Gets[g]]
      BY <1>0, <2>0 DEF Agree, Loaded, StartedUp
    <3>2. \A g \in 1..Len(Gets) : Gets[g] # set.cmd => conf'[Gets[g]] = db'[Gets[g]]
      BY <2>5, <3>1, <2>2, <2>6
    <3> QED BY <2>1, <2>5, <3>2 DEF Agree, Loaded, Setting
  <2>9. SyncStep
    BY <1>0, <2>1, <2>5 DEF Setting, SyncStep, Sync!Next, Sync!Apply
  <2> QED BY <2>7, <2>8, <2>9
<1>8. CASE SendReply
  <2>0. mpc = "reply"
    BY <1>8 DEF SendReply
  <2>1. Running /\ Setting /\ SetApplied /\ conf[set.cmd] = set.val
    BY <1>0, <2>0 DEF Starting, Running, Setting, BeforeGet, RequestSent,
       RequestRead, AnswerBegun, HeaderTaken, AnswerSent, DataSent, BeforeSet, SetAwaited,
       SetBegun, SetSent, SetFollows, Taken, ReplyBegun, ResultAwaited, ReplySent, ResultFollows
  <2>2. set.cmd \in Int /\ Size[set.cmd] \in Int /\ 1 \in Int
    BY <1>0, <2>1, SetIsWords DEF Setting
  <2>3. hdr[1] = set.cmd /\ <<>> \o Header(set.cmd, 1) = Header(set.cmd, 1)
    BY <2>1, <2>2, HeaderAlone DEF SetApplied
  <2>4. Running'
    BY <1>8, <2>1, <2>3 DEF SendReply, Running, Setting, Taken, SetApplied, ReplyBegun, Empty
  <2>5. Agree'
    BY <1>0, <1>8 DEF SendReply, Agree, Loaded, StartedUp
  <2>6. SyncStep
    BY <1>8 DEF SendReply, SyncStep
  <2> QED BY <2>4, <2>5, <2>6
<1>9. CASE SendAck
  <2>0. mpc = "ack"
    BY <1>9 DEF SendAck
  <2>1. Running /\ Setting /\ (ReplyBegun \/ ResultAwaited) /\ conf[set.cmd] = set.val
    BY <1>0, <2>0 DEF Starting, Running, Setting, BeforeGet, RequestSent,
       RequestRead, AnswerBegun, HeaderTaken, AnswerSent, DataSent, BeforeSet, SetAwaited,
       SetBegun, SetSent, SetFollows, Taken, SetApplied, ReplySent, ResultFollows
  <2>2. ASSUME ReplyBegun PROVE Running'
    <3>1. Append(Header(set.cmd, 1), 0) = Header(set.cmd, 1) \o <<0>>
      BY DEF Header
    <3>2. m2s' = Header(set.cmd, 1) \o <<0>>
      BY <1>9, <2>2, <3>1 DEF SendAck, ReplyBegun
    <3> QED BY <1>9, <2>1, <2>2, <3>2 DEF SendAck, Running, Setting, Taken, ReplyBegun, ReplySent
  <2>3. ASSUME ResultAwaited PROVE Running'
    <3>1. Append(<<>>, 0) = <<0>>
      OBVIOUS
    <3>2. m2s' = <<0>>
      BY <1>9, <2>3, <3>1 DEF SendAck, ResultAwaited, Empty
    <3> QED BY <1>9, <2>1, <2>3, <3>2 DEF SendAck, Running, Setting, Taken, ResultAwaited,
       ResultFollows, Empty
  <2>4. Agree'
    BY <1>0, <1>9 DEF SendAck, Agree, Loaded, StartedUp
  <2>5. SyncStep
    BY <1>9 DEF SendAck, SyncStep
  <2> QED BY <2>1, <2>2, <2>3, <2>4, <2>5
<1> QED BY <1>1, <1>2, <1>3, <1>4, <1>5, <1>6, <1>7, <1>8, <1>9 DEF DaemonStep

\* The two ends start in one of those places.
LEMMA InvInitially == Init => IInv
<1> SUFFICES ASSUME Init PROVE IInv
  OBVIOUS
<1>1. Starting
  BY DEF Init, Starting, BeforeGet, Requests, Empty
<1>2. Agree
  BY DEF Init, Agree, Loaded, StartedUp
<1> QED BY <1>1, <1>2, TypeInitially DEF IInv, LinkInv

\* Every step keeps the invariant and is one of ConfSync's, or none.
LEMMA InvKept ==
    ASSUME IInv, [Next]_vars
    PROVE  IInv' /\ [Sync!Next]_(Sync!vars) /\ (early => early')
<1>1. CASE UNCHANGED vars
  <2>1. TypeInv'
    BY <1>1, TypesKept DEF IInv
  <2>2. LinkInv'
    <3>1. ASSUME ~early PROVE (Starting \/ Running)' /\ Agree'
      <4>1. Starting \/ Running => (Starting \/ Running)'
        BY <1>1 DEF vars, Starting, Running, Setting, Requests, Empty, Asked, BeforeGet, RequestSent,
           RequestRead, AnswerBegun, HeaderTaken, AnswerSent, DataSent, BeforeSet, SetAwaited,
           SetBegun, SetSent, SetFollows, Taken, SetApplied, ReplyBegun, ResultAwaited, ReplySent,
           ResultFollows
      <4>2. Agree'
        BY <1>1, <3>1 DEF vars, IInv, LinkInv, Agree, Loaded, StartedUp
      <4> QED BY <3>1, <4>1, <4>2 DEF IInv, LinkInv
    <3>2. early' = early
      BY <1>1 DEF vars
    <3> QED BY <3>1, <3>2 DEF LinkInv
  <2>3. UNCHANGED Sync!vars /\ early' = early
    BY <1>1 DEF vars, Sync!vars
  <2> QED BY <2>1, <2>2, <2>3 DEF IInv
<1>2. CASE Next
  <2>1. TypeInv'
    BY <1>2, TypesKept DEF IInv
  <2>2. early => early'
    BY <1>2 DEF Next, ServerStep, DaemonStep, HostSet, SendData, RecvHeader, RecvRval, ReadRequests,
       ServeRequest, Inform, RequestsDone, Ask, GiveUp, GetHeader, GetData, CloseLink, ReadHeader,
       ReadData, SendReply, SendAck, ghost
  <2>3. CASE early'
    BY <2>1, <2>2, <2>3 DEF IInv, LinkInv, Sync!Next
  <2>4. CASE ~early'
    <3>1. (Starting \/ Running)' /\ Agree' /\ SyncStep
      BY <1>2, <2>4, ServerInStep, DaemonInStep DEF Next
    <3>2. [Sync!Next]_(Sync!vars)
      BY <3>1 DEF SyncStep, Sync!vars
    <3> QED BY <2>1, <2>2, <3>1, <3>2 DEF IInv, LinkInv
  <2> QED BY <2>3, <2>4
<1> QED BY <1>1, <1>2

\* So the two ends are in those places for good.
LEMMA LinkInvariant == Spec => []IInv
<1>1. IInv /\ [Next]_vars => IInv'
  BY InvKept
<1> QED BY <1>1, InvInitially, PTL DEF Spec

\* As long as no SET came early, the daemon does not stop or hang over a message
\* it cut in the wrong place, and where it waits for a command, or asks for a
\* configuration, nothing is left of another message.
THEOREM InStepCorrect == Spec => []InStep
<1>1. IInv => InStep
  <2> SUFFICES ASSUME IInv, ~early PROVE InStep
    BY DEF InStep
  <2>1. CASE Starting
    BY <2>1 DEF InStep, Starting, Requests, Empty, BeforeGet, RequestSent,
       RequestRead, AnswerBegun, HeaderTaken, AnswerSent, DataSent
  <2>2. CASE Running
    BY <2>2 DEF InStep, Running, Setting, Requests, Empty, BeforeSet, SetAwaited,
       SetBegun, SetSent, SetFollows, Taken, SetApplied, ReplyBegun, ResultAwaited, ReplySent,
       ResultFollows
  <2> QED BY <2>1, <2>2 DEF IInv, LinkInv
<1> QED BY <1>1, LinkInvariant, PTL

\* ... and once it has started up, and between two SETs, the daemon's copies are
\* the server's records.
THEOREM AgreementCorrect == Spec => []Agreement
<1>1. IInv => Agreement
  <2> SUFFICES ASSUME IInv, ~early, StartedUp, spc = "idle" PROVE Agreement
    BY DEF Agreement
  <2>1. set = NoSet
    BY DEF IInv, TypeInv, ServerOK
  <2> QED BY <2>1 DEF IInv, LinkInv, Agree, Loaded, Agreement
<1> QED BY <1>1, LinkInvariant, PTL

\* The link implements ConfSync: it starts as ConfSync does, every step of the
\* server or of the daemon is one of ConfSync's or leaves its variables alone,
\* and a promise given up stays given up.
THEOREM InSyncCorrect == Spec => InSync
<1>1. Init => Sync!Init
  BY DEF Init, Sync!Init
<1>2. IInv /\ [Next]_vars => [Sync!Next]_(Sync!vars) /\ [early => early']_(Sync!vars)
  BY InvKept
<1> QED BY <1>1, <1>2, LinkInvariant, PTL DEF Spec, InSync, Sync!Spec

=============================================================================
