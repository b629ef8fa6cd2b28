------------------------------- MODULE CCSet -------------------------------
(***************************************************************************)
(* A SET command from the host to its end: the server walks the modules    *)
(* the command is routed to (handle_*_set_cmd), pushes the new             *)
(* configuration to each with control_module, writes it to the active data *)
(* base when the module accepts it or is not connected, and answers the    *)
(* host.  Modules boot, register, refuse, and die at any point.            *)
(*                                                                         *)
(* The server handles one command at a time, so nothing else reads or      *)
(* writes the data base between two modules of one command, and merging    *)
(* the host's fields into the record yields the same data at each of them. *)
(* Cmd is made of commands every module of the route has a handler for:    *)
(* CCLink has the others.  A module's next instance boots after the server *)
(* has noticed the end of the last one.                                    *)
(***************************************************************************)
EXTENDS Naturals, Sequences

CONSTANTS Module,     \* AV_MAIN, EVT_MAIN, APP
          None,       \* "sd 0": a step that only writes the data base
          Cmd,        \* configuration commands, one data base record each
          Data,       \* values of a record
          Route,      \* the modules a command is pushed to, in order
          Policy      \* how the results of the steps make the host's result

Policies == {"stop",  \* a failure ends the command (STRM_CONF, ADV_IMG_PREF, ...)
             "or",    \* every step is taken, ret |= (MD_CONF, PTZ_CONF)
             "last"}  \* every step is taken, the last result counts (OSD_CONF)

ASSUME SetAssumption ==
    /\ None \notin Module
    /\ Route \in [Cmd -> Seq(Module \cup {None}) \ {<<>>}]
    /\ Policy \in [Cmd -> Policies]

Result == {"ok", "failed"}

VARIABLES
    db,      \* /tmp/ini.db: the record of each command
    conf,    \* what each module works with
    life,    \* down, booted (configured, not connected), registered, or dead:
             \* exited but still in the server's client table
    pc,      \* where the server is in handling a command
    cmd, data, k,  \* the command, the merged record, the step of its route
    rval,    \* the last answer of a module to this command
    ret      \* the result so far

serverVars == <<pc, cmd, data, k, rval, ret>>
vars == <<db, conf, life, pc, cmd, data, k, rval, ret>>

Target == Route[cmd][k]
----------------------------------------------------------------------------
(* The modules. *)

\* CORE_init: the module reads every record from the data base itself, and only
\* later connects and registers.
Boot(m) ==
    /\ life[m] = "down"
    /\ conf' = [conf EXCEPT ![m] = db]
    /\ life' = [life EXCEPT ![m] = "booted"]
    /\ UNCHANGED <<db, serverVars>>

\* The server reads the registration between two commands.
Register(m) ==
    /\ life[m] = "booted"
    /\ pc = "idle"
    /\ life' = [life EXCEPT ![m] = "registered"]
    /\ UNCHANGED <<db, conf, serverVars>>

Die(m) ==
    /\ life[m] \in {"booted", "registered"}
    /\ life' = [life EXCEPT ![m] = IF @ = "booted" THEN "down" ELSE "dead"]
    /\ UNCHANGED <<db, conf, serverVars>>

\* The server reads the end of the dead module's stream between two commands.
Reap(m) ==
    /\ life[m] = "dead"
    /\ pc = "idle"
    /\ life' = [life EXCEPT ![m] = "down"]
    /\ UNCHANGED <<db, conf, serverVars>>

\* The module's thread reads the pushed configuration, applies it or recovers
\* its old one, and answers; sendCCReply comes after HANDLERS_apply.
Apply(m) ==
    /\ pc = "wait" /\ Target = m /\ life[m] = "registered"
    /\ \/ /\ conf' = [conf EXCEPT ![m][cmd] = data]
          /\ rval' = "ok"
       \/ /\ UNCHANGED conf
          /\ rval' = "failed"
    /\ pc' = "answered"
    /\ UNCHANGED <<db, life, cmd, data, k, ret>>

----------------------------------------------------------------------------
(* The server: set_data_to_active_db for each step, the handler around it. *)

HostSet(c, d) ==
    /\ pc = "idle"
    /\ pc' = "step" /\ cmd' = c /\ data' = d /\ k' = 1 /\ rval' = "ok" /\ ret' = "ok"
    /\ UNCHANGED <<db, conf, life>>

\* Mutant of Accumulate: = for |=.
AccumulateLast(r) == r
\* One step of the route ended with result r.
Accumulate(r) == IF Policy[cmd] = "or" /\ ret = "failed" THEN "failed" ELSE r

\* Mutants of StepEnds: the end of the route is not noticed; a failure does not
\* end the command.
StepEndsNever(r) ==
    /\ ret' = Accumulate(r)
    /\ pc' = "step" /\ k' = k + 1
    /\ UNCHANGED <<cmd, data, rval>>
StepEndsGoesOn(r) ==
    /\ ret' = Accumulate(r)
    /\ IF k = Len(Route[cmd]) THEN pc' = "reply" /\ k' = k ELSE pc' = "step" /\ k' = k + 1
    /\ UNCHANGED <<cmd, data, rval>>

StepEnds(r) ==
    /\ ret' = Accumulate(r)
    /\ IF k = Len(Route[cmd]) \/ (Policy[cmd] = "stop" /\ r = "failed")
       THEN pc' = "reply" /\ k' = k
       ELSE pc' = "step" /\ k' = k + 1
    /\ UNCHANGED <<cmd, data, rval>>

\* Mutant of Connected: any running module.
ConnectedUnregistered(m) == m \in Module /\ life[m] # "down"

\* get_client_sd: 0 when no client has that identity.
Connected(m) == m \in Module /\ life[m] \in {"registered", "dead"}

SkipModule ==
    /\ pc = "step" /\ ~Connected(Target)
    /\ pc' = "commit"
    /\ UNCHANGED <<db, conf, life, cmd, data, k, rval, ret>>

\* control_module: header and data are sent; to a closed socket this fails.
Push ==
    /\ pc = "step" /\ Connected(Target)
    /\ IF life[Target] = "dead"
       THEN StepEnds("failed")
       ELSE pc' = "wait" /\ UNCHANGED <<cmd, data, k, rval, ret>>
    /\ UNCHANGED <<db, conf, life>>

\* Mutant of Receive: the module's result is not looked at.
ReceiveAnything ==
    /\ pc = "answered"
    /\ pc' = "commit"
    /\ UNCHANGED <<db, conf, life, cmd, data, k, rval, ret>>

\* recv_data returns only with an answer: it loops on the end of the stream and
\* on the receive time-out, so there is no action for a module that died here.
Receive ==
    /\ pc = "answered"
    /\ IF rval = "ok"
       THEN pc' = "commit" /\ UNCHANGED <<cmd, data, k, rval, ret>>
       ELSE StepEnds("failed")
    /\ UNCHANGED <<db, conf, life>>

\* update_sqldata_by_id_str_path, which may fail.
Commit ==
    /\ pc = "commit"
    /\ \/ db' = [db EXCEPT ![cmd] = data] /\ StepEnds("ok")
       \/ db' = db /\ StepEnds("failed")
    /\ UNCHANGED <<conf, life>>

ReplyHost ==
    /\ pc = "reply"
    /\ pc' = "idle"
    /\ UNCHANGED <<db, conf, life, cmd, data, k, rval, ret>>

----------------------------------------------------------------------------
Init ==
    /\ db \in [Cmd -> Data]
    /\ conf = [m \in Module |-> db]
    /\ life = [m \in Module |-> "down"]
    /\ pc = "idle" /\ k = 1 /\ rval = "ok" /\ ret = "ok"
    /\ cmd \in Cmd /\ data \in Data

ServerStep == SkipModule \/ Push \/ Receive \/ Commit \/ ReplyHost

Next ==
    \/ \E c \in Cmd : \E d \in Data : HostSet(c, d)
    \/ ServerStep
    \/ \E m \in Module : Boot(m) \/ Register(m) \/ Die(m) \/ Reap(m) \/ Apply(m)

\* The server runs, and so does each module's command thread while it is alive.
Fairness ==
    /\ WF_vars(ServerStep)
    /\ \A m \in Module : WF_vars(Apply(m))

Spec == Init /\ [][Next]_vars /\ Fairness

----------------------------------------------------------------------------
(* Properties. *)

TypeOK ==
    /\ db \in [Cmd -> Data]
    /\ conf \in [Module -> [Cmd -> Data]]
    /\ life \in [Module -> {"down", "booted", "registered", "dead"}]
    /\ pc \in {"idle", "step", "wait", "answered", "commit", "reply"}
    /\ cmd \in Cmd /\ data \in Data
    /\ k \in 1..Len(Route[cmd])
    /\ rval \in Result /\ ret \in Result

\* The module of step j still runs and is in the client table.
Live(j) == Route[cmd][j] \in Module /\ life[Route[cmd][j]] = "registered"

\* When the host is told its command succeeded, the data base and every module
\* of the route that is connected work with the new value, unless the policy
\* of the command looks at the last step only.
SuccessIsEverywhere ==
    pc = "reply" /\ ret = "ok" =>
        /\ db[cmd] = data
        /\ \A j \in 1..Len(Route[cmd]) :
              Live(j) /\ (Policy[cmd] # "last" \/ j = Len(Route[cmd]))
                  => conf[Route[cmd][j]][cmd] = data

\* When a command stops at its first failure, every connected module before the
\* one that failed already works with the new value and the data base holds it:
\* an error reply does not mean that nothing was changed.
StoppedIsPrefix ==
    pc = "reply" /\ ret = "failed" /\ Policy[cmd] = "stop" /\ k > 1 =>
        /\ db[cmd] = data
        /\ \A j \in 1..(k - 1) : Live(j) => conf[Route[cmd][j]][cmd] = data

\* The data base is never ahead of the module just asked: a step writes the
\* record only when its module, if connected and alive, works with that value.
WrittenIfApplied ==
    [][db' # db => \A m \in Module : m = Target /\ life[m] = "registered"
                        => conf[m][cmd] = db'[cmd]]_vars

\* A command ends in a reply, except that the server waits for ever on a module
\* that died between being sent the configuration and answering.
Answered ==
    pc # "idle" ~> (pc = "idle" \/ (pc = "wait" /\ life[Target] = "dead"))

\* "reply ccserver/http server failed and not write db" (core.c:190): the record
\* is not written for a command after a module refused it.  The code does not
\* keep this (see the README).
FailedNotWritten ==
    [][db' # db => rval = "ok"]_vars

=============================================================================
