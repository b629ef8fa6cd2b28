------------------------------ MODULE MCCCLink ------------------------------
(* Start-up asks for three configurations of three sizes.  EVT_CONF, which the *)
(* command thread has no case for, is as long as a header; LOCAL_RECORD_CONF,  *)
(* which neither reader has a case for, is shorter than one.                   *)
EXTENDS CCLink, TLC

EVT_CONF == 101
COLOR_CONF == 102
ADV_IMG_PREF == 103
LOCAL_RECORD_CONF == 104

Cmds == {EVT_CONF, COLOR_CONF, ADV_IMG_PREF, LOCAL_RECORD_CONF}
KnownCmds == Cmds \ {LOCAL_RECORD_CONF}
HandledCmds == {COLOR_CONF, ADV_IMG_PREF}
GetOrder == <<EVT_CONF, COLOR_CONF, ADV_IMG_PREF>>
Sizes == (EVT_CONF :> 3) @@ (COLOR_CONF :> 1) @@ (ADV_IMG_PREF :> 2) @@ (LOCAL_RECORD_CONF :> 1)
=============================================================================
