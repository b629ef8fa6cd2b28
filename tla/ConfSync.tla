------------------------------ MODULE ConfSync ------------------------------
(***************************************************************************)
(* What the link between the central-control server and a module is for:   *)
(* the server's data base and the module's working configuration are kept  *)
(* the same.  A record is loaded from the data base, or set: first the     *)
(* module works with the new value, then the data base holds it, and no    *)
(* other record moves.  "broken" gives up every promise, for good.         *)
(***************************************************************************)
CONSTANTS Cmd,         \* configuration commands, one record each
          Record(_),   \* the values of a record
          Blank(_),    \* what the module holds before it loads the record
          NoSet

VARIABLES db, conf, pending, broken

vars == <<db, conf, pending, broken>>

Init ==
    /\ db \in [Cmd -> UNION {Record(c) : c \in Cmd}]
    /\ \A c \in Cmd : db[c] \in Record(c)
    /\ conf = [c \in Cmd |-> Blank(c)]
    /\ pending = NoSet
    /\ broken = FALSE

Load(c) ==
    /\ conf' = [conf EXCEPT ![c] = db[c]]
    /\ UNCHANGED <<db, pending, broken>>

Begin(c, v) ==
    /\ pending = NoSet
    /\ pending' = [cmd |-> c, val |-> v]
    /\ UNCHANGED <<db, conf, broken>>

Apply ==
    /\ pending # NoSet
    /\ conf' = [conf EXCEPT ![pending.cmd] = pending.val]
    /\ UNCHANGED <<db, pending, broken>>

Commit ==
    /\ pending # NoSet
    /\ conf[pending.cmd] = pending.val
    /\ db' = [db EXCEPT ![pending.cmd] = pending.val]
    /\ pending' = NoSet
    /\ UNCHANGED <<conf, broken>>

Next ==
    \/ ~broken /\ \E c \in Cmd : Load(c) \/ \E v \in Record(c) : Begin(c, v)
    \/ ~broken /\ (Apply \/ Commit)
    \/ broken'

Spec == Init /\ [][Next]_vars /\ [][broken => broken']_vars

=============================================================================
