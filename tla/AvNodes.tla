------------------------------- MODULE AvNodes -------------------------------
(***************************************************************************)
(* The AV daemon (av_daemon/av_main2): the graph of nodes that make up the *)
(* video pipeline, the configuration g_conf it runs with, and the two      *)
(* threads that work on both.  main() boots the graph, waits for a signal  *)
(* and takes the graph down; the command thread applies the configurations *)
(* the central-control server pushes, restarting parts of the graph.       *)
(*                                                                         *)
(* A step calls one function of one node (init, start, stop, set).  What   *)
(* it answers is free where the call is out of place, and otherwise fails  *)
(* no more often than MaxEvents allows.  The exit functions only free what init made,  *)
(* when the process ends: they are left out.                               *)
(***************************************************************************)
EXTENDS Naturals, Sequences, SequencesExt

CONSTANTS
    Flags,       \* command lines looked at: sets of the options -f, -m, -v
    Counts,      \* video_strm_cnt a host may ask for
    MaxEvents    \* bound: configurations pushed and calls that failed, together

Options == {"no_iva", "no_image_pref", "no_video"}

\* main() refuses all three options together; a stream count of 0 is left out.
ASSUME NodesAssumption ==
    /\ Flags \subseteq (SUBSET Options) \ {Options}
    /\ Counts \subseteq Nat \ {0}
    /\ MaxEvents \in Nat

VARIABLES
    flags,       \* g_no_iva_flag, g_no_image_preference_flag, g_no_video_control_flag
    run,         \* g_run_flag
    conf,        \* g_conf
    tmp,         \* g_old_conf_tmp while a command is under way; nothing reads it later
    st,          \* state of each node
    has,         \* what a running node read of g_conf when it was started or set
    chans,       \* channels that exist in the driver
    exist,       \* exist_chn[]: channels the daemon believes to exist
    main,        \* where main() is
    mtodo,       \* calls left in main's traversal
    cc,          \* where the command thread is
    ctodo,       \* calls left in the command under way
    cmd,         \* the command under way, or answered last
    ret,         \* its result: "" until there is one
    cmds,        \* configurations pushed
    faults,      \* calls that failed though they were in place
    overlap,     \* ghost: a command worked on the graph while main took it down
    clash,       \* ghost: a call met a channel that an earlier stop left behind
    dropped      \* ghost: a restart stopped the nodes under a skipped one, and ended there

confVars  == <<conf, tmp>>
nodeVars  == <<st, has, chans, exist, faults, clash>>
mainVars  == <<main, mtodo>>
cmdVars   == <<cc, ctodo, cmd, ret, cmds>>
vars == <<flags, run, confVars, nodeVars, mainVars, cmdVars, overlap, dropped>>

-----------------------------------------------------------------------------
(* The graph. *)

Nodes == {"VB", "DEV", "IMAGE_PREFERENCE", "CHN", "WIN_IMAGE_PREFERENCE", "IVA", "ENC"}

Child == [n \in Nodes |->
            CASE n = "VB"  -> <<"DEV">>
              [] n = "DEV" -> <<"IMAGE_PREFERENCE", "CHN">>
              [] n = "CHN" -> <<"WIN_IMAGE_PREFERENCE", "IVA", "ENC">>
              [] OTHER     -> <<>>]

Parents == [n \in Nodes |-> {p \in Nodes : n \in Range(Child[p])}]

isSkipCase(n) ==
    \/ n = "IVA" /\ "no_iva" \in flags
    \/ n = "IMAGE_PREFERENCE" /\ "no_image_pref" \in flags
    \/ n \in {"VB", "DEV", "CHN", "ENC"} /\ "no_video" \in flags

\* Mutant of LeaveOrder: a node before its children.
LeaveOrderDown ==
    LET order[n \in Nodes] ==
            <<n>> \o FlattenSeq([i \in DOMAIN Child[n] |-> order[Reverse(Child[n])[i]]])
    IN  [n \in Nodes |-> order[n]]

\* The nodes under n and n itself, children last to first and before their parent.
LeaveOrder ==
    LET order[n \in Nodes] ==
            FlattenSeq([i \in DOMAIN Child[n] |-> order[Reverse(Child[n])[i]]]) \o <<n>>
    IN  [n \in Nodes |-> order[n]]

\* A call: what is done to which node, and whether its failure ends a command.
Call(do, n, root) == [do |-> do, node |-> n, root |-> root]
CallsOf(do, ns) == [i \in 1 .. Len(ns) |-> Call(do, ns[i], FALSE)]

execRestart(n) ==
    CallsOf("stop", Front(LeaveOrder[n])) \o <<Call("stop", n, TRUE), Call("start", n, TRUE)>>

-----------------------------------------------------------------------------
(* The configuration: of each record the parts its handler tells apart. *)

Value == {"a", "b"}

\* What a host may ask for, and what g_conf may hold: "other" is no host's value.
\* res is all that makes up a channel but its frame rate, rate all that NODE_setEnc is
\* called for; unseen stands for the fields of a stream that nodes read and the handler
\* never compares: binding_capability, max_frame_size, the motion tolerances and
\* obs_off_period.
Asked == [strm   |-> [cnt : Counts, res : Value, fps : Value, codec : Value, rate : Value,
                      unseen : Value],
          layout |-> [win0 : Value, wins : Value],
          od     |-> [version : Value, od : Value]]

Junk == Value \cup {"other"}

Held == [strm   |-> [cnt : Counts, res : Junk, fps : Junk, codec : Junk, rate : Junk,
                     unseen : Junk],
         layout |-> [win0 : Value, wins : Value],
         od     |-> [version : Value, od : Value]]

Kinds == DOMAIN Asked

\* The fields of g_conf a node reads when it starts.
Uses == [n \in Nodes |->
           CASE n = "CHN" -> {<<"strm", "cnt">>, <<"strm", "res">>, <<"strm", "fps">>,
                              <<"strm", "unseen">>, <<"layout", "win0">>, <<"layout", "wins">>}
             [] n = "WIN_IMAGE_PREFERENCE" ->
                             {<<"strm", "cnt">>, <<"strm", "res">>, <<"layout", "wins">>}
             [] n = "IVA" -> {<<"strm", "res">>, <<"strm", "fps">>, <<"layout", "win0">>,
                              <<"layout", "wins">>, <<"od", "version">>, <<"od", "od">>}
             [] n = "ENC" -> {<<"strm", "cnt">>, <<"strm", "res">>, <<"strm", "fps">>,
                              <<"strm", "codec">>, <<"strm", "rate">>, <<"strm", "unseen">>,
                              <<"layout", "wins">>}
             [] OTHER     -> {}]

View(n) == [u \in Uses[n] |-> conf[u[1]][u[2]]]

\* What a set() of the node hands to the driver: that of ENC all of the encoder's
\* attributes, whatever field it was called for.
SetFields == [CHN |-> {<<"strm", "fps">>}, IVA |-> {<<"od", "od">>},
              ENC |-> {<<"strm", "fps">>, <<"strm", "codec">>, <<"strm", "rate">>,
                       <<"strm", "unseen">>}]

\* Mutant of StrmCalls: after the frame rate nothing else is looked at.
StrmCallsOneOf(old, new) ==
    IF old.cnt # new.cnt \/ old.res # new.res
    THEN execRestart("CHN")
    ELSE IF old.fps # new.fps THEN <<Call("set", "CHN", TRUE)>>
    ELSE IF old.codec # new.codec THEN execRestart("ENC")
    ELSE IF old.rate # new.rate THEN <<Call("set", "ENC", TRUE)>> ELSE <<>>

\* The calls a new record leads to, given the one it overwrites.
StrmCalls(old, new) ==
    IF old.cnt # new.cnt \/ old.res # new.res
    THEN execRestart("CHN")
    ELSE (IF old.fps # new.fps THEN <<Call("set", "CHN", TRUE)>> ELSE <<>>)
         \o (IF old.codec # new.codec THEN execRestart("ENC")
             ELSE IF old.rate # new.rate THEN <<Call("set", "ENC", TRUE)>> ELSE <<>>)

LayoutCalls(old, new) ==
    IF old.win0 # new.win0 THEN execRestart("VB") ELSE execRestart("CHN")

OdCalls(old, new) ==
    IF old.version # new.version THEN execRestart("VB") ELSE <<Call("set", "IVA", TRUE)>>

CallsFor(kind, old, new) ==
    CASE kind = "strm" -> StrmCalls(old, new) [] kind = "layout" -> LayoutCalls(old, new)
      [] kind = "od" -> OdCalls(old, new)

-----------------------------------------------------------------------------
(* One call of a node's function. *)

\* Mutant of Wanted: <= for <.
WantedOneMore == 0 .. conf.strm.cnt

\* The channels a start is to make.
Wanted == 0 .. conf.strm.cnt - 1

Supported(n) == \A p \in Parents[n] : st[p] = "up" \/ isSkipCase(p)

\* The call is made where the driver expects it: only then does a failure count.
InPlace(c) ==
    CASE c.do = "init"  -> st[c.node] = "none"
      [] c.do = "start" -> /\ st[c.node] = "down" /\ Supported(c.node)
                           /\ c.node = "CHN" => Wanted \cap chans = {}
      [] c.do \in {"stop", "set"} -> /\ st[c.node] = "up"
                                     /\ c = Call("stop", "DEV", c.root) => chans = {}

\* The call adds a channel, or stops the device, and one no record tells of is there.
MeetsLeftover(c) ==
    \/ c.do = "start" /\ c.node = "CHN" /\ Wanted \cap (chans \ exist) # {}
    \/ c.do = "stop" /\ c.node = "DEV" /\ chans \ exist # {}

\* What a call may answer: a skipped node's function is not called at all.
Answers(c) ==
    IF isSkipCase(c.node) THEN {"skip"}
    ELSE {"ok"} \cup {a \in {"fail"} : ~InPlace(c) \/ cmds + faults < MaxEvents}

StateAfter(c, a) ==
    CASE a = "ok" /\ c.do = "start" -> "up"
      [] a = "ok" /\ c.do = "init"  -> "down"
      [] a = "ok" /\ c.do = "stop" /\ st[c.node] # "none" -> "down"
      [] a = "fail" /\ c.do = "start" -> "half"
      [] a = "fail" /\ c.do = "stop" /\ st[c.node] = "up" -> "half"
      [] OTHER -> st[c.node]

\* What the node works with afterwards: a failed set may have reached the driver.
HasAfter(c, a) ==
    IF a = "ok" /\ c.do = "start" THEN {View(c.node)}
    ELSE IF c.do = "set" /\ a # "skip" /\ st[c.node] = "up"
    THEN LET set == [u \in Uses[c.node] |->
                        IF u \in SetFields[c.node] THEN View(c.node)[u] ELSE has[c.node][u]]
         IN  IF a = "ok" THEN {set} ELSE {set, has[c.node]}
    ELSE IF StateAfter(c, a) = "up" THEN {has[c.node]} ELSE {<<>>}

\* NODE_startChn records a channel once it is added and laid out; on failure the
\* k channels before the failing one are there, and perhaps that one, unrecorded.
StartChn(a) ==
    IF a = "ok"
    THEN chans' = chans \cup Wanted /\ exist' = Wanted
    ELSE \E k \in 0 .. conf.strm.cnt :
            /\ exist' = 0 .. k - 1
            /\ \/ chans' = chans \cup (0 .. k - 1)
               \/ k < conf.strm.cnt /\ chans' = chans \cup (0 .. k)

\* NODE_stopChn deletes the recorded channels among those g_conf counts now.
StopChn(a) ==
    IF a = "ok"
    THEN chans' = chans \ (exist \cap Wanted) /\ exist' = {}
    ELSE \E gone \in SUBSET (exist \cap Wanted) : chans' = chans \ gone /\ UNCHANGED exist

Driver(c, a) ==
    CASE a # "skip" /\ c.node = "CHN" /\ c.do = "start" -> StartChn(a)
      [] a # "skip" /\ c.node = "CHN" /\ c.do = "stop"  -> StopChn(a)
      [] a = "ok" /\ c.node = "DEV" /\ c.do = "stop" -> chans' = {} /\ UNCHANGED exist
      [] OTHER -> UNCHANGED <<chans, exist>>

CallNode(c, a) ==
    /\ a \in Answers(c)
    /\ st' = [st EXCEPT ![c.node] = StateAfter(c, a)]
    /\ \E h \in HasAfter(c, a) : has' = [has EXCEPT ![c.node] = h]
    /\ Driver(c, a)
    /\ faults' = IF a = "fail" /\ InPlace(c) THEN faults + 1 ELSE faults
    /\ clash' = (clash \/ (a # "skip" /\ MeetsLeftover(c)))

-----------------------------------------------------------------------------
(* main() *)

\* Mutant of AfterMain: a skipped node is taken for one that failed.
AfterMainNotSkipped(a) ==
    LET c == Head(mtodo)
    IN  (IF c.do # "stop" /\ a = "ok" THEN CallsOf(c.do, Child[c.node]) ELSE <<>>)
        \o Tail(mtodo)

\* Init and start go on below a node that was skipped, not below one that failed.
\* Stops are made in any case.
AfterMain(a) ==
    LET c == Head(mtodo)
    IN  (IF c.do # "stop" /\ a # "fail" THEN CallsOf(c.do, Child[c.node]) ELSE <<>>)
        \o Tail(mtodo)

Traverse ==
    /\ mtodo # <<>>
    /\ \E a \in {"ok", "fail", "skip"} :
          /\ CallNode(Head(mtodo), a)
          /\ mtodo' = AfterMain(a)
    /\ overlap' = (overlap \/ cc = "apply")
    /\ UNCHANGED <<flags, run, confVars, main, cmdVars, dropped>>

\* CORE_init: the results of the traversals are 0 whatever happened.
StartNodes ==
    /\ main = "init" /\ mtodo = <<>>
    /\ main' = "start"
    /\ mtodo' = <<Call("start", "VB", FALSE)>>
    /\ UNCHANGED <<flags, run, confVars, nodeVars, cmdVars, overlap, dropped>>

\* createReadyFile never reports a failure: open() answers -1, not -EEXIST.
CreateThread ==
    /\ main = "start" /\ mtodo = <<>>
    /\ main' = "ready" /\ cc' = "connect"
    /\ UNCHANGED <<flags, run, confVars, nodeVars, mtodo, ctodo, cmd, ret, cmds, overlap,
                   dropped>>

\* pthread_create failed: main() returns, and leaves the nodes as they are.
CreateFails ==
    /\ main = "start" /\ mtodo = <<>> /\ cmds + faults < MaxEvents
    /\ main' = "exited" /\ faults' = faults + 1
    /\ UNCHANGED <<flags, run, confVars, st, has, chans, exist, clash, mtodo, cmdVars, overlap,
                   dropped>>

\* handleSigInt
Signal ==
    /\ run /\ main # "exited"
    /\ run' = FALSE
    /\ UNCHANGED <<flags, confVars, nodeVars, mainVars, cmdVars, overlap, dropped>>

\* CORE_exit: first the nodes, then the thread that works on them.
LeaveNodes ==
    /\ main = "ready" /\ ~run
    /\ main' = "leave" /\ mtodo' = CallsOf("stop", LeaveOrder["VB"])
    /\ UNCHANGED <<flags, run, confVars, nodeVars, cmdVars, overlap, dropped>>

\* Mutant of JoinThread: the thread is not waited for.
JoinThreadNot ==
    /\ main = "leave" /\ mtodo = <<>>
    /\ main' = "exited"
    /\ UNCHANGED <<flags, run, confVars, nodeVars, mtodo, cmdVars, overlap, dropped>>

JoinThread ==
    /\ main = "leave" /\ mtodo = <<>> /\ cc = "ended"
    /\ main' = "exited"
    /\ UNCHANGED <<flags, run, confVars, nodeVars, mtodo, cmdVars, overlap, dropped>>

Main == Traverse \/ StartNodes \/ CreateThread \/ CreateFails \/ LeaveNodes \/ JoinThread

-----------------------------------------------------------------------------
(* The command thread *)

Idle == [kind |-> "none", roots |-> {}]

Go(from, to) ==
    /\ cc = from /\ cc' = to
    /\ UNCHANGED <<flags, run, confVars, nodeVars, mainVars, overlap, dropped>>

\* The server may not be there; or be there, and never answer the registration.
Connect    == Go("connect", "register") /\ UNCHANGED <<ctodo, cmd, ret, cmds>>
NoServer   == Go("connect", "ended") /\ UNCHANGED <<ctodo, cmd, ret, cmds>>
\* The loop tests g_run_flag at the top of each pass.
LoopTop == IF run THEN "select" ELSE "ended"

Registered == Go("register", LoopTop) /\ UNCHANGED <<ctodo, cmd, ret, cmds>>
Timeout    == Go("select", LoopTop) /\ UNCHANGED <<ctodo, cmd, ret, cmds>>

\* The server closed the connection, or err_cnt is above 5: the thread ends for good.
Hangup == Go("select", "ended") /\ UNCHANGED <<ctodo, cmd, ret, cmds>>

\* A command of the wrong length, a DIP attribute, too many streams or too large
\* ones is refused; one without a handler is accepted, and ignored.
ReceiveOther ==
    /\ cmds + faults < MaxEvents
    /\ Go("select", "reply")
    /\ ret' \in {"ok", "fail"}
    /\ cmds' = cmds + 1
    /\ UNCHANGED <<ctodo, cmd>>

Receive ==
    /\ cc = "select" /\ cmds + faults < MaxEvents
    /\ \E kind \in Kinds : \E new \in Asked[kind] :
          LET calls == CallsFor(kind, conf[kind], new)
          IN  /\ tmp' = conf[kind]
              /\ conf' = [conf EXCEPT ![kind] = new]
              /\ ctodo' = calls
              /\ cmd' = [kind |-> kind,
                         roots |-> {c.node : c \in {d \in Range(calls) : d.do = "start"}}]
    /\ cc' = "apply" /\ cmds' = cmds + 1
    /\ overlap' = (overlap \/ main = "leave")
    /\ UNCHANGED <<flags, run, nodeVars, mainVars, ret, dropped>>

\* execStart does not go on below a node that was skipped.
AfterCall(a) ==
    LET c == Head(ctodo)
    IN  (IF c.do = "start" /\ a = "ok" THEN CallsOf("start", Child[c.node]) ELSE <<>>)
        \o Tail(ctodo)

\* Mutant of Fails: the result of the start is lost.
FailsOnStop(c, a) == c.root /\ c.do # "start" /\ (a = "fail" \/ (a = "skip" /\ c.do # "set"))

\* execStop and execStart fail on a skipped node, execSet does not.
Fails(c, a) == c.root /\ (a = "fail" \/ (a = "skip" /\ c.do # "set"))

\* A restart of CHN or VB stops what is under it, and ends there if it is skipped.
Drops(c, a) == Fails(c, a) /\ a = "skip" /\ Child[c.node] # <<>>

\* What the handlers make of g_conf after a failure.  That of the object detection
\* recovers 4 bytes; that of the layout, after restarting VB, recovers the layout
\* into the streams.
Recover(c) ==
    CASE cmd.kind = "strm" -> conf' = [conf EXCEPT !.strm = tmp]
      [] cmd.kind = "layout" /\ c.node # "VB" -> conf' = [conf EXCEPT !.layout = tmp]
      [] cmd.kind = "layout" /\ c.node = "VB" ->
            \E k \in Counts :
               conf' = [conf EXCEPT !.strm = [cnt |-> k, res |-> "other", fps |-> "other",
                                              codec |-> "other", rate |-> "other",
                                              unseen |-> "other"]]
      [] OTHER -> UNCHANGED conf

\* The handler of the object detection looks at the result of a set only.
Result(c) == IF cmd.kind = "od" /\ c.do # "set" THEN "ok" ELSE "fail"

Work ==
    /\ cc = "apply" /\ ctodo # <<>>
    /\ \E a \in {"ok", "fail", "skip"} :
          LET c == Head(ctodo)
          IN  /\ CallNode(c, a)
              /\ dropped' = (dropped \/ Drops(c, a))
              /\ IF Fails(c, a)
                 THEN /\ ctodo' = <<>> /\ cc' = "reply" /\ ret' = Result(c)
                      /\ Recover(c) /\ tmp' = <<>>
                 ELSE /\ ctodo' = AfterCall(a)
                      /\ UNCHANGED <<cc, ret, conf, tmp>>
    /\ overlap' = (overlap \/ main = "leave")
    /\ UNCHANGED <<flags, run, mainVars, cmd, cmds>>

Applied ==
    /\ cc = "apply" /\ ctodo = <<>>
    /\ cc' = "reply" /\ ret' = "ok" /\ tmp' = <<>>
    /\ UNCHANGED <<flags, run, conf, nodeVars, mainVars, ctodo, cmd, cmds, overlap, dropped>>

Reply == Go("reply", LoopTop) /\ ret' = "" /\ cmd' = Idle /\ UNCHANGED <<ctodo, cmds>>

\* What the thread does by itself, and what it waits for.
Thread == Connect \/ NoServer \/ Timeout \/ Work \/ Applied \/ Reply
Server == Registered \/ Hangup \/ ReceiveOther \/ Receive

-----------------------------------------------------------------------------
Init ==
    /\ flags \in Flags /\ run = TRUE
    /\ \E k \in Counts :
          conf = [strm   |-> [cnt |-> k, res |-> "a", fps |-> "a", codec |-> "a", rate |-> "a",
                            unseen |-> "a"],
                  layout |-> [win0 |-> "a", wins |-> "a"],
                  od     |-> [version |-> "a", od |-> "a"]]
    /\ tmp = <<>>
    /\ st = [n \in Nodes |-> "none"] /\ has = [n \in Nodes |-> <<>>]
    /\ chans = {} /\ exist = {}
    /\ main = "init" /\ mtodo = <<Call("init", "VB", FALSE)>>
    /\ cc = "none" /\ ctodo = <<>> /\ cmd = Idle /\ ret = ""
    /\ cmds = 0 /\ faults = 0 /\ overlap = FALSE /\ clash = FALSE /\ dropped = FALSE

Next == Main \/ Signal \/ Thread \/ Server

Spec == Init /\ [][Next]_vars

-----------------------------------------------------------------------------
CallsType == [do : {"init", "start", "stop", "set"}, node : Nodes, root : BOOLEAN]

\* Types; nothing else would notice a node that is left in no known state, a
\* channel that g_conf never asked for, or more failures than the bound.
TypeOK ==
    /\ flags \in Flags /\ run \in BOOLEAN
    /\ overlap \in BOOLEAN /\ clash \in BOOLEAN /\ dropped \in BOOLEAN
    /\ conf \in [strm : Held.strm, layout : Held.layout, od : Held.od]
    /\ tmp = <<>> \/ (cc = "apply" /\ tmp \in Held[cmd.kind])
    /\ st \in [Nodes -> {"none", "down", "half", "up"}]
    /\ \A n \in Nodes : IF st[n] = "up" THEN DOMAIN has[n] = Uses[n] ELSE has[n] = <<>>
    /\ \A s \in {chans, exist} : \A i \in s : \E k \in Counts : i < k
    /\ main \in {"init", "start", "ready", "leave", "exited"}
    /\ cc \in {"none", "connect", "register", "select", "apply", "reply", "ended"}
    /\ \A i \in DOMAIN mtodo : mtodo[i] \in CallsType
    /\ \A i \in DOMAIN ctodo : ctodo[i] \in CallsType
    /\ cmd \in [kind : Kinds \cup {"none"}, roots : SUBSET Nodes]
    /\ ret \in {"", "ok", "fail"}
    /\ cmds \in Nat /\ faults \in Nat /\ cmds + faults <= MaxEvents

\* What a node reads and no handler passes on to it while it runs: the fields nothing
\* compares, and a new frame rate, which reaches the channels only.
Missed == [n \in Nodes |->
             CASE n = "CHN" -> {<<"strm", "unseen">>}
               [] n = "ENC" -> {<<"strm", "unseen">>, <<"strm", "fps">>}
               [] n = "IVA" -> {<<"strm", "fps">>}
               [] OTHER     -> {}]

\* Between two commands the pipeline is what g_conf says, but for the fields in Missed:
\* every node that is not skipped runs, with the values of g_conf that it reads (the case
\* distinctions of the apply handlers, execRestart, execSet).  So it is whatever commands
\* came, as long as no call failed, none met a channel left behind (clash), and no
\* restart ended at a skipped CHN or VB with what is under it stopped (dropped).
Works ==
    main = "ready" /\ cc # "apply" /\ faults = 0 /\ ~clash /\ ~dropped
    => \A n \in Nodes :
          \/ isSkipCase(n)
          \/ /\ st[n] = "up"
             /\ \A u \in Uses[n] \ Missed[n] : has[n][u] = conf[u[1]][u[2]]

\* A node never runs on a parent that does not: starts go down the graph and stops
\* go up, through both threads' traversals, unless calls failed, one met a channel
\* left behind, or the two overlap.
ParentsUp ==
    faults = 0 /\ ~clash /\ ~overlap => \A n \in Nodes : st[n] = "up" => Supported(n)

\* An accepted stream or layout configuration that restarts a node leaves that node
\* running with it, whatever failed before or below.
AcceptedRuns ==
    (cc = "reply" /\ ret = "ok" /\ cmd.kind \in {"strm", "layout"} /\ ~overlap)
    => \A n \in cmd.roots : main = "ready" => st[n] = "up" /\ has[n] = View(n)

\* The program ends with everything stopped, if no call failed, none met a channel
\* left behind, and no command was applied while main() took the graph down.
ExitClean ==
    (main = "exited" /\ faults = 0 /\ ~clash /\ ~overlap)
    => \A n \in Nodes : st[n] \in {"none", "down"}

\* handlers.c says of a command that failed "Copy global tmp back to g_conf": g_conf
\* is what it was before the command.  False for the layout and the object detection.
Restored ==
    [][cc = "apply" /\ cc' = "reply" /\ ret' = "fail"
       => conf' = [conf EXCEPT ![cmd.kind] = tmp]]_vars
=============================================================================
