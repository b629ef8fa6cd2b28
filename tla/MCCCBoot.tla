------------------------------ MODULE MCCCBoot ------------------------------
(* A record of each kind: merged, overwritten, new; the overwritten one has *)
(* calibration data.                                                        *)
EXTENDS CCBoot

MCCmdTable == <<"user", "sensor", "added">>

\* All but what no later step and no property of CCBoot depends on: ghosts of
\* DbMonitor, its variables once it has ended, and late before a round sets it.
MCView ==
    <<src, dest, writer, main, slotVars, flash, usrdata, serverVars, budget, bootGhosts,
      IF main = "ended" THEN <<>>
      ELSE <<event, sem, late /\ thread \in {"copy", "copied", "check"}, threadVars,
             endapp_flag, back, NoSignal>> >>
=============================================================================
