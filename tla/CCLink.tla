------------------------------- MODULE CCLink -------------------------------
(***************************************************************************)
(* The binary link between the central-control server and the event        *)
(* daemon (EVT_MAIN), word by word: the daemon's start-up, in which it     *)
(* asks for its configurations one after the other (EVENT_getConf), its    *)
(* command thread (EVENT_CC_daemon), and the server's two users of the     *)
(* same socket, control_module and handle_module_cmd.                      *)
(*                                                                         *)
(* Nothing but the lengths delimits messages.  A header is three words:    *)
(* command, session (always 0), length of the data that follow.  A peer's  *)
(* death is modelled by CCSet and CCClients, not here: the link stays open *)
(* until the daemon closes it or stops.                                    *)
(***************************************************************************)
EXTENDS Integers, Sequences

CONSTANTS Cmd,       \* command ids routed to EVT_MAIN
          Known,     \* those EVENT_getConf has a case for
          Handled,   \* those EVENT_parseCtrlCmd has a case for
          Gets,      \* what main() asks for, in order; the last is ADV_IMG_PREF
          Size,      \* words of each command's structure
          Data,      \* values of a word of data
          MaxRead,   \* 5: reads of EVENT_getConf
          MaxAdvErr, \* 10: failures of initAdvImgPref before it spins
          MaxErr,    \* 5: short headers EVENT_CC_daemon puts up with
          NoSet,     \* no SET under way
          MaxSets    \* bound: SETs the hosts send

ASSUME LinkAssumption ==
    /\ Cmd \subseteq Nat \ {0} /\ Known \subseteq Cmd /\ Handled \subseteq Cmd
    /\ Data \subseteq Nat
    /\ Gets \in Seq(Known) /\ Len(Gets) >= 2
    /\ Size \in [Cmd -> Nat \ {0}]
    /\ MaxRead \in Nat \ {0} /\ MaxAdvErr \in Nat /\ MaxErr \in Nat /\ MaxSets \in Nat

VARIABLES
    s2m, m2s,   \* words in the socket, each way
    db, conf,   \* the server's records, the daemon's copies
    spc, set,   \* the server: where it is, the SET it carries out
    serving,    \* the command of the GET it answers
    reqbuf,     \* request_buf of the daemon's slot
    mpc, gi,    \* the daemon: where it is, the GET it is at
    cnt,        \* reads of this EVENT_getConf
    err,        \* err_cnt of initAdvImgPref, then of EVENT_CC_daemon
    hdr, ret,   \* the header last read, the result to send
    sets,       \* SETs sent so far
    early       \* ghost: a SET came before the start-up GETs were answered,
                \* or was of a command the daemon has no case for

server == <<db, spc, set, serving, reqbuf>>
daemon == <<conf, mpc, gi, cnt, err, hdr, ret>>
ghost == <<sets, early>>
vars == <<s2m, m2s, db, conf, spc, set, serving, reqbuf, mpc, gi, cnt, err, hdr, ret, sets, early>>

Record(c) == {[j \in 1..Size[c] |-> v] : v \in Data}
Blank(c) == [j \in 1..Size[c] |-> 0]
Header(c, len) == <<c, 0, len>>

\* No SET looks like the absence of one.
ASSUME NoSetAssumption == \A c \in Cmd : \A v \in Record(c) : NoSet # [cmd |-> c, val |-> v]

\* read() returns what is there, at most n words; on an empty socket it waits.
Min2(m, n) == IF m < n THEN m ELSE n
Got(n) == SubSeq(s2m, 1, Min2(n, Len(s2m)))
Rest(n) == SubSeq(s2m, Min2(n, Len(s2m)) + 1, Len(s2m))

Asked == Gets[gi]
StartedUp == mpc \in {"header", "data", "reply", "ack"}
----------------------------------------------------------------------------
(* The server. *)

\* A host's SET, already merged into the record: control_module sends the header.
HostSet(c, v) ==
    /\ spc = "idle" /\ sets < MaxSets
    /\ mpc \notin {"stopped", "closed"}
    /\ spc' = "data" /\ set' = [cmd |-> c, val |-> v]
    /\ s2m' = s2m \o Header(c, Size[c])
    /\ sets' = sets + 1
    /\ early' = (early \/ ~StartedUp \/ c \notin Handled)
    /\ UNCHANGED <<m2s, db, serving, reqbuf, daemon>>

\* Mutant of SendData: the record is written before the daemon has it.
SendDataWritten ==
    /\ spc = "data"
    /\ s2m' = s2m \o set.val
    /\ db' = [db EXCEPT ![set.cmd] = set.val]
    /\ spc' = "hdr"
    /\ UNCHANGED <<m2s, set, serving, reqbuf, daemon, ghost>>

SendData ==
    /\ spc = "data"
    /\ s2m' = s2m \o set.val
    /\ spc' = "hdr"
    /\ UNCHANGED <<m2s, db, set, serving, reqbuf, daemon, ghost>>

\* Mutant of RecvHeader: the size of another header.
RecvHeaderShort ==
    /\ spc = "hdr" /\ Len(m2s) >= 3
    /\ m2s' = SubSeq(m2s, 3, Len(m2s))
    /\ spc' = "rval"
    /\ UNCHANGED <<s2m, db, set, serving, reqbuf, daemon, ghost>>

\* The header of the answer is read and not looked at.
RecvHeader ==
    /\ spc = "hdr" /\ Len(m2s) >= 3
    /\ m2s' = SubSeq(m2s, 4, Len(m2s))
    /\ spc' = "rval"
    /\ UNCHANGED <<s2m, db, set, serving, reqbuf, daemon, ghost>>

\* Mutant of RecvRval: the record is written on failure.
RecvRvalInverted ==
    /\ spc = "rval" /\ m2s # <<>>
    /\ m2s' = Tail(m2s)
    /\ db' = IF Head(m2s) # 0 THEN [db EXCEPT ![set.cmd] = set.val] ELSE db
    /\ spc' = "idle" /\ set' = NoSet
    /\ UNCHANGED <<s2m, serving, reqbuf, daemon, ghost>>

\* rval 0: the record is written.
RecvRval ==
    /\ spc = "rval" /\ m2s # <<>>
    /\ m2s' = Tail(m2s)
    /\ db' = IF Head(m2s) = 0 THEN [db EXCEPT ![set.cmd] = set.val] ELSE db
    /\ spc' = "idle" /\ set' = NoSet
    /\ UNCHANGED <<s2m, serving, reqbuf, daemon, ghost>>

\* The main loop reads what the daemon sent outside control_module.
ReadRequests ==
    /\ spc = "idle" /\ m2s # <<>>
    /\ reqbuf' = reqbuf \o m2s
    /\ m2s' = <<>>
    /\ spc' = "requests"
    /\ UNCHANGED <<s2m, db, set, serving, daemon, ghost>>

\* Mutant of HeaderLeft: > for >=.
HeaderAndMore == Len(reqbuf) > 3
HeaderLeft == Len(reqbuf) >= 3

\* handle_module_cmd for each whole header in the buffer; get_data_from_active_db
\* answers with inform_module, an unknown command is not answered.
ServeRequest ==
    /\ spc = "requests" /\ HeaderLeft
    /\ reqbuf' = SubSeq(reqbuf, 4, Len(reqbuf))
    /\ IF reqbuf[1] \in Cmd
       THEN /\ s2m' = s2m \o Header(reqbuf[1], Size[reqbuf[1]])
            /\ serving' = reqbuf[1] /\ spc' = "inform"
       ELSE UNCHANGED <<s2m, serving, spc>>
    /\ UNCHANGED <<m2s, db, set, daemon, ghost>>

Inform ==
    /\ spc = "inform"
    /\ s2m' = s2m \o db[serving]
    /\ spc' = "requests"
    /\ UNCHANGED <<m2s, db, set, serving, reqbuf, daemon, ghost>>

RequestsDone ==
    /\ spc = "requests" /\ ~HeaderLeft
    /\ spc' = "idle"
    /\ UNCHANGED <<s2m, m2s, db, set, serving, reqbuf, daemon, ghost>>

----------------------------------------------------------------------------
(* The daemon's start-up: EVENT_getConf for each of Gets. *)

Ask ==
    /\ mpc = "ask"
    /\ m2s' = m2s \o Header(Asked, 0)
    /\ mpc' = "get" /\ cnt' = 0
    /\ UNCHANGED <<s2m, conf, gi, err, hdr, ret, server, ghost>>

\* main() goes on to the next GET whatever the result.  When the last one before
\* ADV_IMG_PREF failed, the event contexts stay unset and EVENT_setEvtAttr
\* follows a null name; initAdvImgPref retries, and after too many failures
\* its loop no longer does anything.
GetFails ==
    /\ cnt' = 0
    /\ IF gi < Len(Gets)
       THEN /\ mpc' = IF gi = Len(Gets) - 1 THEN "stopped" ELSE "ask"
            /\ gi' = gi + 1
            /\ UNCHANGED err
       ELSE /\ mpc' = IF err = MaxAdvErr THEN "spin" ELSE "ask"
            /\ err' = err + 1
            /\ UNCHANGED gi

\* Mutant of GetSucceeds: one GET too many.
GetSucceedsOnce ==
    /\ cnt' = 0 /\ err' = 0
    /\ mpc' = "ask" /\ gi' = gi + 1

GetSucceeds ==
    /\ cnt' = 0 /\ err' = 0
    /\ IF gi < Len(Gets) THEN mpc' = "ask" /\ gi' = gi + 1
                         ELSE mpc' = "header" /\ gi' = gi

GiveUp ==
    /\ mpc = "get" /\ cnt = MaxRead
    /\ GetFails
    /\ UNCHANGED <<s2m, m2s, conf, hdr, ret, server, ghost>>

Fits(h) == h[1] \in Known /\ Size[h[1]] = Size[Asked]

\* A header came: a short one and a wrong length use up a read, an unknown
\* command ends the GET, and a known one of another size fails the assertion.
GetHeader ==
    /\ mpc = "get" /\ cnt < MaxRead /\ s2m # <<>>
    /\ s2m' = Rest(3) /\ hdr' = Got(3)
    /\ \/ /\ Len(hdr') < 3 \/ (Fits(hdr') /\ hdr'[3] # Size[Asked])
          /\ cnt' = cnt + 1
          /\ UNCHANGED <<mpc, gi, err>>
       \/ /\ Len(hdr') = 3 /\ hdr'[1] \notin Known
          /\ GetFails
       \/ /\ Len(hdr') = 3 /\ hdr'[1] \in Known /\ ~Fits(hdr')
          /\ mpc' = "stopped"
          /\ UNCHANGED <<gi, cnt, err>>
       \/ /\ Len(hdr') = 3 /\ Fits(hdr') /\ hdr'[3] = Size[Asked]
          /\ mpc' = "getData" /\ cnt' = cnt + 1
          /\ UNCHANGED <<gi, err>>
    /\ UNCHANGED <<m2s, conf, ret, server, ghost>>

\* The data go straight into the structure main() uses, whole or not; only
\* ADV_IMG_PREF is kept apart until all of it is there.
GetData ==
    /\ mpc = "getData" /\ s2m # <<>>
    /\ LET got == Got(Size[Asked])
       IN /\ conf' = [conf EXCEPT ![Asked] = [j \in 1..Size[Asked] |->
                         IF j <= Len(got) /\ (gi < Len(Gets) \/ Len(got) = Size[Asked])
                         THEN got[j] ELSE @[j]]]
          /\ IF Len(got) = Size[Asked] THEN GetSucceeds
             ELSE mpc' = "get" /\ UNCHANGED <<gi, cnt, err>>
    /\ s2m' = Rest(Size[Asked])
    /\ UNCHANGED <<m2s, hdr, ret, server, ghost>>

----------------------------------------------------------------------------
(* The daemon's command thread. *)

CloseLink ==
    /\ mpc = "header" /\ s2m # <<>> /\ err > MaxErr
    /\ mpc' = "closed"
    /\ UNCHANGED <<s2m, m2s, conf, gi, cnt, err, hdr, ret, server, ghost>>

\* A command without a case is acknowledged and its data are left in the socket.
ReadHeader ==
    /\ mpc = "header" /\ s2m # <<>> /\ err <= MaxErr
    /\ s2m' = Rest(3) /\ hdr' = Got(3)
    /\ IF Len(hdr') < 3
       THEN err' = err + 1 /\ UNCHANGED <<mpc, ret>>
       ELSE /\ err' = 0
            /\ IF hdr'[1] \in Handled /\ hdr'[3] = Size[hdr'[1]]
               THEN mpc' = "data" /\ UNCHANGED ret
               ELSE mpc' = "reply" /\ ret' = IF hdr'[1] \in Handled THEN -1 ELSE 0
    /\ UNCHANGED <<m2s, conf, gi, cnt, server, ghost>>

ReadData ==
    /\ mpc = "data" /\ s2m # <<>>
    /\ LET c == hdr[1]
           got == Got(Size[c])
       IN /\ s2m' = Rest(Size[c])
          /\ IF Len(got) = Size[c]
             THEN conf' = [conf EXCEPT ![c] = got] /\ ret' = 0
             ELSE conf' = conf /\ ret' = -1
    /\ mpc' = "reply"
    /\ UNCHANGED <<m2s, gi, cnt, err, hdr, server, ghost>>

\* Mutant of SendReply: the result is not sent.
SendReplyOnly ==
    /\ mpc = "reply"
    /\ m2s' = m2s \o Header(hdr[1], 1)
    /\ mpc' = "header"
    /\ UNCHANGED <<s2m, conf, gi, cnt, err, hdr, ret, server, ghost>>

SendReply ==
    /\ mpc = "reply"
    /\ m2s' = m2s \o Header(hdr[1], 1)
    /\ mpc' = "ack"
    /\ UNCHANGED <<s2m, conf, gi, cnt, err, hdr, ret, server, ghost>>

SendAck ==
    /\ mpc = "ack"
    /\ m2s' = Append(m2s, ret)
    /\ mpc' = "header"
    /\ UNCHANGED <<s2m, conf, gi, cnt, err, hdr, ret, server, ghost>>

----------------------------------------------------------------------------
Init ==
    /\ db \in [Cmd -> UNION {Record(c) : c \in Cmd}]
    /\ \A c \in Cmd : db[c] \in Record(c)
    /\ conf = [c \in Cmd |-> Blank(c)]
    /\ s2m = <<>> /\ m2s = <<>> /\ reqbuf = <<>>
    /\ spc = "idle" /\ set = NoSet /\ serving = Gets[1]
    /\ mpc = "ask" /\ gi = 1 /\ cnt = 0 /\ err = 0 /\ hdr = Header(0, 0) /\ ret = 0
    /\ sets = 0 /\ early = FALSE

ServerStep ==
    SendData \/ RecvHeader \/ RecvRval \/ ReadRequests \/ ServeRequest \/ Inform \/ RequestsDone

DaemonStep ==
    \/ Ask \/ GiveUp \/ GetHeader \/ GetData
    \/ CloseLink \/ ReadHeader \/ ReadData \/ SendReply \/ SendAck

Next ==
    \/ \E c \in Cmd : \E v \in Record(c) : HostSet(c, v)
    \/ ServerStep \/ DaemonStep

\* Both processes run; hosts send when they like.
Spec == Init /\ [][Next]_vars /\ WF_vars(ServerStep) /\ WF_vars(DaemonStep)

----------------------------------------------------------------------------
(* Properties. *)

TypeOK ==
    /\ s2m \in Seq(Int) /\ m2s \in Seq(Int) /\ reqbuf \in Seq(Int)
    /\ \A c \in Cmd : db[c] \in Record(c) /\ conf[c] \in [1..Size[c] -> Int]
    /\ spc \in {"idle", "data", "hdr", "rval", "requests", "inform"}
    /\ set = NoSet \/ (set.cmd \in Cmd /\ set.val \in Record(set.cmd))
    /\ set # NoSet <=> spc \in {"data", "hdr", "rval"}
    /\ serving \in Cmd
    /\ mpc \in {"ask", "get", "getData", "header", "data", "reply", "ack", "spin", "stopped", "closed"}
    /\ gi \in 1..Len(Gets) /\ cnt \in 0..MaxRead
    /\ err \in Nat /\ hdr \in Seq(Int) /\ ret \in {0, -1}
    /\ sets \in 0..MaxSets /\ early \in BOOLEAN

\* As long as every SET came after the start-up and was of a handled command, a
\* message boundary is never lost: the daemon neither stops nor hangs, and when
\* it waits for a command while the server is idle, no word is left anywhere.
InStep ==
    ~early =>
        /\ mpc \notin {"stopped", "closed", "spin"}
        /\ mpc = "header" /\ spc = "idle" => s2m = <<>> /\ m2s = <<>> /\ reqbuf = <<>>
        /\ mpc = "ask" => s2m = <<>> /\ spc \in {"idle", "requests"}

\* ... and between two commands the daemon works with what the data base holds.
Agreement ==
    ~early /\ StartedUp /\ spc = "idle" =>
        \A g \in 1..Len(Gets) : conf[Gets[g]] = db[Gets[g]]

\* ... in the sense of ConfSync, step by step: a SET reaches the daemon before
\* the data base, and nothing but that SET's record moves.
Sync == INSTANCE ConfSync WITH pending <- set, broken <- early
InSync == Sync!Spec

\* The start-up ends, and every SET is answered, unless a SET came early.
StartsUp == <>(StartedUp \/ early)
SetAnswered == spc = "data" ~> (spc = "idle" \/ early)

=============================================================================
