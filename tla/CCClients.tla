----------------------------- MODULE CCClients -----------------------------
(***************************************************************************)
(* The client table of the central-control server (ccserver.c): accepting  *)
(* peers on the Unix socket, cutting the JSON requests out of what each    *)
(* read() returned, registration, identity, and routing by identity.       *)
(* What a command does to the data base and the modules is CCSet's matter. *)
(*                                                                         *)
(* A stream is a sequence of units.  A unit that is a client name is a     *)
(* registration request carrying it; Cmd is a short host request; Head,    *)
(* Mid and Tail are the pieces of a long one, read in one or more chunks;  *)
(* Get is the binary header by which a module asks for a configuration.    *)
(***************************************************************************)
EXTENDS Naturals, Sequences, FiniteSets

CONSTANTS MaxClient,   \* CC_MAX_CLIENT_NUM, slots of client_socket[]
          BufCap,      \* CC_JSON_STR_BUF_SIZE, in units
          Conn,        \* socket descriptors accept() may return
          NoSd,        \* the 0 that marks a free slot
          HostName,    \* names of hosts (ONVIF, CGI, UNICORN, ...)
          ModuleName,  \* names of modules (AV_MAIN, EVT_MAIN, APP)
          BadName,     \* a name the server does not know
          Invalid,     \* CC_CLIENT_ID_INVALID
          Script       \* bound: what a peer may send over one connection

Name == HostName \cup ModuleName
Unit == Name \cup {BadName, "Cmd", "Head", "Mid", "Tail", "Get"}
Reply == {"registered", "undefClient", "notPermitted", "done", "failed", "conf"}
Slot == 1..MaxClient
State == {"NONE", "CONNECTING", "CONNECTED"}
Client == [sd: Conn \cup {NoSd}, state: State, cid: Name \cup {Invalid}, buf: Seq(Unit)]

ASSUME ClientsAssumption ==
    /\ MaxClient \in Nat \ {0}
    /\ BufCap \in Nat \ {0}
    /\ NoSd \notin Conn
    /\ HostName \cap ModuleName = {}
    /\ Invalid \notin Name /\ BadName \notin Name
    /\ (Name \cup {BadName}) \cap {"Cmd", "Head", "Mid", "Tail", "Get"} = {}
    /\ Script \subseteq Seq(Unit)

VARIABLES
    client,    \* client_socket[]
    lastCid,   \* main()'s local "cid", written by get_client_identity
    todo,      \* slots select() found readable and main's loop has not reached
    cur,       \* slot whose requests are being extracted, 0 for none
    backlog,   \* connections waiting on the listening socket
    peer,      \* each descriptor: unused, open, or shut down by the peer
    script, left,  \* what the peer sends over this connection, what is left of it
    inbox,     \* bytes in the socket, not read yet
    out        \* replies written to the connection

serverVars == <<client, lastCid, todo, cur>>
peerVars == <<peer, script, left>>
vars == <<client, lastCid, todo, cur, backlog, peer, script, left, inbox, out>>

FreeSlot == [sd |-> NoSd, state |-> "NONE", cid |-> Invalid, buf |-> <<>>]
----------------------------------------------------------------------------
(* The table. *)

Taken == {i \in Slot : client[i].sd # NoSd}

\* count_active_client() < CC_MAX_CLIENT_NUM
RoomForClient == Taken # Slot

\* Mutant of FirstFree: the test for a free slot is missing.
FirstSlot == CHOOSE i \in Slot : \A j \in Slot : i <= j

\* accept() puts the socket in the first free slot.
FirstFree == CHOOSE i \in Slot \ Taken : \A j \in Slot \ Taken : i <= j

SlotsOf(m) == {i \in Slot : client[i].cid = m}

\* get_client_sd: the socket of the first slot with that identity, else 0.
GetClientSd(m) ==
    IF SlotsOf(m) = {} THEN NoSd
    ELSE client[CHOOSE i \in SlotsOf(m) : \A j \in SlotsOf(m) : i <= j].sd

Accepted(c) == \E i \in Slot : client[i].sd = c
IsModule(i) == client[i].state = "CONNECTED" /\ client[i].cid \in ModuleName

----------------------------------------------------------------------------
(* The peers. *)

Connect(c, s) ==
    /\ peer[c] = "unused"
    /\ peer' = [peer EXCEPT ![c] = "open"]
    /\ script' = [script EXCEPT ![c] = s]
    /\ left' = [left EXCEPT ![c] = s]
    /\ backlog' = Append(backlog, c)
    /\ UNCHANGED <<serverVars, inbox, out>>

\* Requests may be sent, and pipelined, before the server accepts or answers.
Send(c) ==
    /\ peer[c] = "open"
    /\ left[c] # <<>>
    /\ inbox' = [inbox EXCEPT ![c] = Append(@, Head(left[c]))]
    /\ left' = [left EXCEPT ![c] = Tail(@)]
    /\ UNCHANGED <<serverVars, backlog, peer, script, out>>

Shut(c) ==
    /\ peer[c] = "open"
    /\ peer' = [peer EXCEPT ![c] = "shut"]
    /\ UNCHANGED <<serverVars, backlog, script, left, inbox, out>>

----------------------------------------------------------------------------
(* The server's select() loop. *)

Readable(c) == inbox[c] # <<>> \/ peer[c] = "shut"

\* Mutant of ReadySlots: the scan ends after the first client it serves.
LowestReady ==
    {i \in Taken : /\ Readable(client[i].sd)
                   /\ \A j \in Taken : Readable(client[j].sd) => i <= j}

\* Every slot whose socket select() reported.
ReadySlots == {i \in Taken : Readable(client[i].sd)}

Accept ==
    IF backlog # <<>> /\ RoomForClient
    THEN /\ client' = [client EXCEPT ![FirstFree] =
                          [@ EXCEPT !.sd = Head(backlog), !.state = "CONNECTING"]]
         /\ backlog' = Tail(backlog)
    ELSE UNCHANGED <<client, backlog>>

\* One return of select(): the readable slots as of now, then at most one accept.
\* A full table leaves the listening socket readable, which is no progress.
Poll ==
    /\ todo = {} /\ cur = 0
    /\ ReadySlots # {} \/ (backlog # <<>> /\ RoomForClient)
    /\ todo' = ReadySlots
    /\ Accept
    /\ UNCHANGED <<lastCid, cur, peerVars, inbox, out>>

Scanned(i) == i \in todo /\ cur = 0 /\ \A j \in todo : i <= j

\* Mutants of Room: the whole buffer's size, and one byte kept for a terminator.
RoomOfEmpty(i) == BufCap
RoomForZero(i) == BufCap - 1 - Len(client[i].buf)

\* read() is asked for the room left in the slot's buffer.
Room(i) == BufCap - Len(client[i].buf)
Chunk(i) == LET b == inbox[client[i].sd] IN IF Room(i) < Len(b) THEN Room(i) ELSE Len(b)

\* Mutant of ResetSlot: the identity stays behind.
ResetButCid(i) == [FreeSlot EXCEPT !.cid = client[i].cid]
ResetSlot(i) == FreeSlot

\* read() returned 0: the peer has gone, or the buffer had no room.  Either way
\* the socket is closed and the slot is reset; the descriptor may be used again.
Disconnect(i) ==
    /\ Scanned(i)
    /\ Chunk(i) = 0
    /\ client' = [client EXCEPT ![i] = ResetSlot(i)]
    /\ LET c == client[i].sd
       IN /\ peer' = [peer EXCEPT ![c] = "unused"]
          /\ script' = [script EXCEPT ![c] = <<>>]
          /\ left' = [left EXCEPT ![c] = <<>>]
          /\ inbox' = [inbox EXCEPT ![c] = <<>>]
          /\ out' = [out EXCEPT ![c] = <<>>]
    /\ todo' = todo \ {i}
    /\ UNCHANGED <<lastCid, cur, backlog>>

\* Mutant of Arrived: what an earlier read() left is overwritten.
ArrivedAtStart(i) == SubSeq(inbox[client[i].sd], 1, Chunk(i))
Arrived(i) == client[i].buf \o SubSeq(inbox[client[i].sd], 1, Chunk(i))

\* A registered module's bytes are headers, answered by inform_module when they
\* name a configuration; the whole buffer is consumed.
ReadModule(i) ==
    /\ Scanned(i) /\ Chunk(i) > 0 /\ IsModule(i)
    /\ LET c == client[i].sd
           gets == {k \in 1..Len(Arrived(i)) : Arrived(i)[k] = "Get"}
       IN /\ inbox' = [inbox EXCEPT ![c] = SubSeq(@, Chunk(i) + 1, Len(@))]
          /\ out' = [out EXCEPT ![c] = @ \o [k \in 1..Cardinality(gets) |-> "conf"]]
    /\ client' = [client EXCEPT ![i].buf = <<>>]
    /\ todo' = todo \ {i}
    /\ UNCHANGED <<lastCid, cur, backlog, peerVars>>

ReadJson(i) ==
    /\ Scanned(i) /\ Chunk(i) > 0 /\ ~IsModule(i)
    /\ client' = [client EXCEPT ![i].buf = Arrived(i)]
    /\ inbox' = [inbox EXCEPT ![client[i].sd] = SubSeq(@, Chunk(i) + 1, Len(@))]
    /\ cur' = i
    /\ UNCHANGED <<lastCid, todo, backlog, peerVars, out>>

----------------------------------------------------------------------------
(* Extracting requests from the buffer of slot cur, one at a time. *)

\* The first k units of the buffer are one whole request.
FrameAt(b, k) ==
    /\ k \in 1..Len(b)
    /\ \/ k = 1 /\ b[1] \in Name \cup {BadName, "Cmd"}
       \/ k > 1 /\ b[1] = "Head" /\ b[k] = "Tail" /\ \A j \in 2..(k - 1) : b[j] = "Mid"

\* json_tokener_continue: a proper prefix of a request (or nothing at all).
Incomplete(b) == \A j \in 1..Len(b) : b[j] = (IF j = 1 THEN "Head" ELSE "Mid")

\* get_client_identity leaves main()'s "cid" alone when the name is not known.
Identity(u) == IF u \in Name THEN u ELSE lastCid

IsRegistration(u) == u \in Name \cup {BadName}

\* Mutant of Answer: the client's state is not looked at.
AnswerAnyState(i, u) ==
    IF ~IsRegistration(u) THEN "done"
    ELSE IF Identity(u) = Invalid THEN "undefClient" ELSE "registered"

\* Main's answer to one request u of slot i, by the client's state.  A connected
\* client that registers again falls through to handle_host_cmd, which fails.
Answer(i, u) ==
    IF client[i].state = "CONNECTED"
    THEN IF IsRegistration(u) THEN "failed" ELSE "done"
    ELSE IF ~IsRegistration(u) THEN "notPermitted"
    ELSE IF Identity(u) = Invalid THEN "undefClient" ELSE "registered"

\* Mutant of AfterFrame: one request per read().
AfterFrameNothing(i, k) == <<>>
\* The bytes behind the request are moved to the front of the buffer.
AfterFrame(i, k) == SubSeq(client[i].buf, k + 1, Len(client[i].buf))

Extract(i, k) ==
    /\ cur = i
    /\ FrameAt(client[i].buf, k)
    /\ LET u == client[i].buf[1]
           rest == AfterFrame(i, k)
           registering == client[i].state = "CONNECTING" /\ IsRegistration(u)
           answer == Answer(i, u)
       IN /\ lastCid' = IF registering THEN Identity(u) ELSE lastCid
          /\ client' = [client EXCEPT ![i] =
                IF answer = "registered"
                THEN [@ EXCEPT !.state = "CONNECTED", !.cid = Identity(u), !.buf = rest]
                ELSE [@ EXCEPT !.buf = rest]]
          /\ out' = [out EXCEPT ![client[i].sd] = Append(@, answer)]
    /\ UNCHANGED <<todo, cur, backlog, peerVars, inbox>>

\* No whole request at the front of the buffer: keep a partial one for the next
\* read(), drop everything when the bytes are malformed; on to the next slot.
Finish(i) ==
    /\ cur = i
    /\ \A k \in 1..Len(client[i].buf) : ~FrameAt(client[i].buf, k)
    /\ client' = [client EXCEPT ![i].buf = IF Incomplete(@) THEN @ ELSE <<>>]
    /\ cur' = 0
    /\ todo' = todo \ {i}
    /\ UNCHANGED <<lastCid, backlog, peerVars, inbox, out>>

----------------------------------------------------------------------------
Init ==
    /\ client = [i \in Slot |-> FreeSlot]
    /\ lastCid = Invalid
    /\ todo = {} /\ cur = 0
    /\ backlog = <<>>
    /\ peer = [c \in Conn |-> "unused"]
    /\ script = [c \in Conn |-> <<>>]
    /\ left = [c \in Conn |-> <<>>]
    /\ inbox = [c \in Conn |-> <<>>]
    /\ out = [c \in Conn |-> <<>>]

Server ==
    \/ Poll
    \/ \E i \in Slot : Disconnect(i) \/ ReadModule(i) \/ ReadJson(i) \/ Finish(i)
    \/ \E i \in Slot : \E k \in 1..BufCap : Extract(i, k)

Peers ==
    \/ \E c \in Conn : \E s \in Script : Connect(c, s)
    \/ \E c \in Conn : Send(c) \/ Shut(c)

Next == Server \/ Peers

\* The server is a running process; peers may stop at any time.
Spec == Init /\ [][Next]_vars /\ WF_vars(Server)

----------------------------------------------------------------------------
(* Properties. *)

TypeOK ==
    /\ client \in [Slot -> Client]
    /\ \A i \in Slot : Len(client[i].buf) <= BufCap
    /\ lastCid \in Name \cup {Invalid}
    /\ todo \subseteq Slot /\ cur \in Slot \cup {0}
    /\ backlog \in Seq(Conn)
    /\ peer \in [Conn -> {"unused", "open", "shut"}]
    /\ script \in [Conn -> Seq(Unit)] /\ left \in [Conn -> Seq(Unit)]
    /\ inbox \in [Conn -> Seq(Unit)]
    /\ out \in [Conn -> Seq(Reply)]

\* The fields of a slot never disagree: only an open socket has a client state,
\* only a connected client an identity, and a slot being served is in use.
SlotsCoherent ==
    /\ \A i \in Slot : /\ client[i].sd = NoSd <=> client[i].state = "NONE"
                       /\ client[i].cid # Invalid <=> client[i].state = "CONNECTED"
                       /\ client[i].sd = NoSd => client[i].buf = <<>>
    /\ todo \subseteq Taken
    /\ cur # 0 => cur \in todo

\* Every connection the peers hold is in exactly one place, the backlog or one
\* slot, so no accepted socket leaks and no two slots serve the same one.
OnePlace ==
    /\ \A i, j \in Slot : client[i].sd = client[j].sd /\ i # j => client[i].sd = NoSd
    /\ \A i, j \in 1..Len(backlog) : backlog[i] = backlog[j] => i = j
    /\ \A i \in 1..Len(backlog) : ~Accepted(backlog[i])
    /\ \A c \in Conn : peer[c] # "unused" <=>
           Accepted(c) \/ \E i \in 1..Len(backlog) : backlog[i] = c

\* Routing by identity: when some slot carries a module's identity, the socket
\* get_client_sd returns is that of a connected client, never a stale or free one.
RouteIsLive ==
    \A m \in ModuleName : SlotsOf(m) # {} =>
        \E i \in Slot : /\ client[i].sd = GetClientSd(m) /\ client[i].cid = m
                        /\ client[i].state = "CONNECTED"
                        /\ peer[client[i].sd] # "unused"

\* No connection has a command carried out before it was told it is registered,
\* whatever it pipelines and however its socket's number was used before.
RegisteredFirst ==
    \A c \in Conn : \A k \in 1..Len(out[c]) :
        out[c][k] \in {"done", "conf"} => \E j \in 1..(k - 1) : out[c][j] = "registered"

----------------------------------------------------------------------------
(* What one host may rely on, whatever the other clients do. *)

\* s is a stream of whole requests of a host with a known name, the last of
\* which may still be incomplete, none of them longer than the buffer.
HonestHost(s) ==
    /\ \A k \in 1..Len(s) :
           /\ s[k] \in HostName \cup {"Cmd", "Head", "Mid", "Tail"}
           /\ s[k] \in {"Mid", "Tail"} <=> (k > 1 /\ s[k - 1] \in {"Head", "Mid"})
    /\ \A k \in 1..Len(s) : k > BufCap => \E j \in (k - BufCap + 1)..k : s[j] # "Mid"
    /\ \A k \in 1..Len(s) : s[k] = "Tail" /\ k > BufCap =>
           \E j \in (k - BufCap + 1)..k : s[j] = "Head"

\* The units that complete a request.
Completes == Name \cup {"Cmd", "Tail"}

\* What a host is due for the request that the k-th unit of its stream completes.
Due(s, k) ==
    LET known == \E j \in 1..(k - 1) : s[j] \in Name
    IN  IF s[k] \in Name THEN IF known THEN "failed" ELSE "registered"
        ELSE IF known THEN "done" ELSE "notPermitted"

\* What it is due for the first n units: one reply for each whole request.
Expected(s, n) ==
    LET due[k \in 0..Len(s)] ==
            IF k = 0 THEN <<>>
            ELSE IF s[k] \in Completes THEN Append(due[k - 1], Due(s, k)) ELSE due[k - 1]
    IN  due[n]

\* How many units the peer has sent, read() has taken, and requests were cut from.
Sent(c) == Len(script[c]) - Len(left[c])
Drawn(c) == Sent(c) - Len(inbox[c])
Consumed(i) == Drawn(client[i].sd) - Len(client[i].buf)

\* A host's replies are those of its own requests, each answered once and in
\* order, however read() cut the stream and whoever used the socket number before.
AnswersInOrder ==
    \A i \in Slot : client[i].sd # NoSd /\ HonestHost(script[client[i].sd]) =>
        out[client[i].sd] = Expected(script[client[i].sd], Consumed(i))

\* The server closes a host's connection only after the host closed it, and then
\* with every whole request answered: what arrived before the end is not lost,
\* and a read() of length 0 into a full buffer is not taken for the end.
HonestKept ==
    [][\A c \in Conn :
          Accepted(c) /\ HonestHost(script[c]) /\ peer'[c] = "unused"
              => peer[c] = "shut" /\ Len(out[c]) = Len(Expected(script[c], Sent(c)))]_vars

\* An accepted host has sent a whole request that is not answered yet.
Behind(c) ==
    /\ Accepted(c) /\ HonestHost(script[c])
    /\ Len(out[c]) < Len(Expected(script[c], Sent(c)))

\* No host waits for ever: again and again it has the answer to every whole request
\* it sent, though clients in the other slots keep coming, sending and closing.
Served == \A c \in Conn : []<>~Behind(c)

\* What AGTX_ERR_UNDEF_CLIENT_ID is for: a client is connected only under a name
\* it sent itself.  The code does not keep this (see the README).
OwnIdentity ==
    \A i \in Slot : client[i].state = "CONNECTED" =>
        \E k \in 1..Len(script[client[i].sd]) : script[client[i].sd][k] = client[i].cid

=============================================================================
