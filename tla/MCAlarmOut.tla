----------------------------- MODULE MCAlarmOut -----------------------------
(* Two outputs, an input; rules short, long, and of the other polarity. *)
EXTENDS AlarmOut

Rule(g, p, d) == [gpio |-> g, polarity |-> p, duration |-> d]
MCOutputs == {0, 1}
MCInputs == {2}
MCRules == {Rule(0, 1, 1), Rule(0, 1, 2), Rule(0, 0, 2), Rule(1, 1, 2), Rule(2, 1, 1)}
=============================================================================
