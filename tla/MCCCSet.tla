------------------------------ MODULE MCCCSet ------------------------------
(* One command of each policy over two modules, as ccserver.c routes         *)
(* STRM_CONF, OSD_CONF and MD_CONF.                                          *)
EXTENDS CCSet

Modules == {"AV_MAIN", "APP"}
Cmds == {"STRM_CONF", "OSD_CONF", "MD_CONF"}
Routes == [c \in Cmds |-> <<"AV_MAIN", "APP">>]
Results == [STRM_CONF |-> "stop", OSD_CONF |-> "last", MD_CONF |-> "or"]
=============================================================================
