------------------------------ MODULE MCAvNodes ------------------------------
(* AvNodes with every node, and without video control (-v): that skips nodes   *)
(* others stand on.                                                            *)
EXTENDS AvNodes

EveryNode == {{}}
EveryNodeOrNoVideo == {{}, {"no_video"}}
=============================================================================
