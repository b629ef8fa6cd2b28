-------------------------- MODULE FloodlightProofs --------------------------
(***************************************************************************)
(* The PIR thread's state keeps its types, no record that was set is lost  *)
(* between the command thread and the PIR thread, and the light after a    *)
(* pass is what the records say, for any brightnesses, times and numbers   *)
(* of commands.                                                            *)
(***************************************************************************)
EXTENDS Floodlight, TLAPS

USE FloodlightAssumption

----------------------------------------------------------------------------
(* Types. *)

\* The parts of TypeOK that the modes of handlePirAction leave alone.
RecordsOK ==
    /\ conf \in Confs /\ mine \in Confs
    /\ is_updated \in [Names -> BOOLEAN] /\ detection \in BOOLEAN
    /\ sets \in 0..MaxSets /\ triggers \in 0..MaxTriggers
PwmOK ==
    /\ stop \in Zero..Far /\ duty \in Lightness
    /\ lit \in BOOLEAN /\ doused \in BOOLEAN
PlaceOK ==
    /\ at \in Places /\ pir_trig \in {"none", "pir", "floodlight"}
    /\ at \in {"check", "pir"} => pir_trig = "none"

\* The three parts are the type invariant.
LEMMA TypeParts == TypeOK <=> RecordsOK /\ PwmOK /\ PlaceOK
  BY DEF TypeOK, RecordsOK, PwmOK, PlaceOK

\* Every mode sets the PWM to one of the brightnesses and the time to one of
\* its values.
LEMMA ModesKeepPwm ==
    ASSUME RecordsOK, PwmOK,
           TriggerMode \/ PirMode \/ FloodlightMode \/ TracingMode
                       \/ UNCHANGED pwmVars
    PROVE  PwmOK'
<1>1. mine.floodlight.lightness \in Lightness /\ mine.floodlight.enabled \in BOOLEAN
  BY DEF RecordsOK, Confs, FloodlightConf
<1>2. stop' \in {stop, WarnTime, Zero}
  BY DEF TriggerMode, PirMode, FloodlightMode, TracingMode, SwitchOn, SwitchOff, Brighten, pwmVars
<1>3. stop' \in Zero..Far
  <2>1. WarnTime \in Nat
    BY FloodlightAssumption
  <2> QED BY <1>2, <2>1 DEF PwmOK, Zero, Far
<1>4. duty' \in {duty, mine.floodlight.lightness}
  BY DEF TriggerMode, PirMode, FloodlightMode, TracingMode, SwitchOn, SwitchOff, Brighten, pwmVars
<1>5. lit' = lit \/ lit' = TRUE \/ lit' = FALSE
  BY DEF TriggerMode, PirMode, FloodlightMode, TracingMode, SwitchOn, SwitchOff, Brighten, pwmVars
<1>6. doused' = doused \/ doused' = FALSE \/ doused' = mine.floodlight.enabled
  BY DEF TriggerMode, PirMode, FloodlightMode, TracingMode, SwitchOn, SwitchOff, Brighten, pwmVars
<1>7. duty' \in Lightness
  BY <1>1, <1>4 DEF PwmOK
<1>8. lit' \in BOOLEAN /\ doused' \in BOOLEAN
  BY <1>1, <1>5, <1>6, Zenon DEF PwmOK
<1> QED BY <1>3, <1>7, <1>8 DEF PwmOK

\* Nobody but the PIR thread's last steps of a pass touches the PWM.
LEMMA NextKeepsPwm == TypeOK /\ [Next]_vars => PwmOK'
<1> SUFFICES ASSUME TypeOK, [Next]_vars PROVE PwmOK'
  OBVIOUS
<1>0. RecordsOK /\ PwmOK
  BY TypeParts
<1>1. CASE Tick
  BY <1>0, <1>1 DEF Tick, PwmOK, Zero, Far
<1>2. CASE InitAction \/ Act \/ Trigger \/ Trace
  BY <1>0, <1>2, ModesKeepPwm DEF InitAction, Act, Trigger, Trace
<1>3. CASE UNCHANGED pwmVars
  BY <1>0, <1>3 DEF PwmOK, pwmVars
<1>4. Command => UNCHANGED pwmVars
  BY DEF Command, SetConf, SetDetection
<1>5. PirThread => (InitAction \/ Act \/ Trigger \/ Trace) \/ UNCHANGED pwmVars
  BY DEF PirThread, InitCopy, InitCopyRest, Check, TestPir, CopyPir, PirPwm, TestFloodlight,
         CopyFloodlight, TestColor, CopyColor, NoTrigger, Copied, Test
<1>6. UNCHANGED vars => UNCHANGED pwmVars
  BY DEF vars, pwmVars
<1> QED BY <1>1, <1>2, <1>3, <1>4, <1>5, <1>6 DEF Next

\* The records stay records, in whatever halves they are copied.
LEMMA NextKeepsRecords == TypeOK /\ [Next]_vars => RecordsOK'
<1> SUFFICES ASSUME TypeOK, [Next]_vars PROVE RecordsOK'
  OBVIOUS
<1>0. RecordsOK
  BY TypeParts
<1> USE DEF RecordsOK, Names
<1>1. CASE Command
  <2>1. ASSUME NEW name \in Names, NEW value, SetConf(name, value), [conf EXCEPT ![name] = value] \in Confs
        PROVE  RecordsOK'
    BY <1>0, <2>1 DEF SetConf
  <2>2. ASSUME NEW value \in BOOLEAN PROVE [conf EXCEPT !["pir"] = value] \in Confs
    BY <1>0 DEF Confs
  <2>3. ASSUME NEW value \in FloodlightConf PROVE [conf EXCEPT !["floodlight"] = value] \in Confs
    BY <1>0 DEF Confs
  <2>4. ASSUME NEW value \in {"night", "day"} PROVE [conf EXCEPT !["color"] = value] \in Confs
    BY <1>0 DEF Confs
  <2>5. CASE SetDetection
    BY <1>0, <2>5 DEF SetDetection
  <2> QED BY <1>1, <2>1, <2>2, <2>3, <2>4, <2>5 DEF Command
<1>2. CASE InitCopy
  BY <1>0, <1>2 DEF InitCopy, Confs, FloodlightConf, setVars
<1>3. CASE InitCopyRest
  BY <1>0, <1>3 DEF InitCopyRest, Confs, FloodlightConf, setVars
<1>4. ASSUME NEW name \in Names, Copied(name) PROVE RecordsOK'
  BY <1>0, <1>4 DEF Copied, Confs
<1>5. CASE CopyPir \/ CopyFloodlight \/ CopyColor
  BY <1>4, <1>5 DEF CopyPir, CopyFloodlight, CopyColor
<1>6. CASE Trigger
  BY <1>0, <1>6 DEF Trigger, setVars
<1>7. CASE UNCHANGED <<setVars, mine, triggers>>
  BY <1>0, <1>7 DEF setVars
<1>8. PirThread => \/ InitCopy \/ InitCopyRest \/ CopyPir \/ CopyFloodlight \/ CopyColor \/ Trigger
                   \/ UNCHANGED <<setVars, mine, triggers>>
  BY DEF PirThread, InitAction, Check, TestPir, PirPwm, TestFloodlight, TestColor, Act, NoTrigger,
         Trace, Test
<1>9. Tick \/ UNCHANGED vars => UNCHANGED <<setVars, mine, triggers>>
  BY DEF Tick, vars, setVars
<1> QED BY <1>1, <1>2, <1>3, <1>5, <1>6, <1>7, <1>8, <1>9 DEF Next

\* A pass begins with nothing left to do: pir_trig is set behind the head of the
\* pass only, and Act clears it.
PassOK == PlaceOK /\ (at \in {"torn", "start", "first", "sense", "trace"} => pir_trig = "none")

\* No step comes to the head of a pass with something left to do.
LEMMA NextKeepsPlace == PassOK /\ [Next]_vars => PassOK'
<1> SUFFICES ASSUME PassOK, [Next]_vars PROVE PassOK'
  OBVIOUS
<1> USE DEF PassOK, PlaceOK, Places
<1>1. CASE UNCHANGED <<at, pir_trig>>
  BY <1>1
<1>2. CASE InitCopy \/ InitCopyRest \/ InitAction \/ Check \/ PirPwm \/ NoTrigger \/ Trigger \/ Trace
  BY <1>2 DEF InitCopy, InitCopyRest, InitAction, Check, PirPwm, NoTrigger, Trigger, Trace, Step
<1>3. CASE TestPir \/ TestFloodlight \/ TestColor
  BY <1>3 DEF TestPir, TestFloodlight, TestColor, Test, Step
<1>4. CASE CopyPir \/ CopyFloodlight \/ CopyColor
  BY <1>4 DEF CopyPir, CopyFloodlight, CopyColor, Step
<1>5. CASE Act
  BY <1>5 DEF Act, Step
<1>6. Command \/ Tick \/ UNCHANGED vars => UNCHANGED <<at, pir_trig>>
  BY DEF Command, SetConf, SetDetection, Tick, vars
<1> QED BY <1>1, <1>2, <1>3, <1>4, <1>5, <1>6 DEF Next, PirThread

\* TypeOK: the state of the two threads is what EVENT_GPIO_daemon and the command
\* thread can make of it, and a pass begins with nothing left to do.
THEOREM TypeCorrect == Spec => []TypeOK
<1> DEFINE IInv == TypeOK /\ PassOK
<1>1. Init => IInv
  <2> SUFFICES ASSUME Init PROVE IInv
    OBVIOUS
  <2>1. {WarnTime, MaxSets, MaxTriggers} \subseteq Nat
    BY FloodlightAssumption
  <2>2. RecordsOK
    BY <2>1 DEF Init, RecordsOK
  <2>3. stop \in Zero..Far
    BY <2>1 DEF Init, Zero, Past, Far
  <2>4. PwmOK
    BY <2>3 DEF Init, PwmOK
  <2>5. PassOK
    BY DEF Init, PassOK, PlaceOK, Places
  <2> QED BY <2>2, <2>4, <2>5, TypeParts DEF PassOK
<1>2. IInv /\ [Next]_vars => IInv'
  BY NextKeepsPwm, NextKeepsRecords, NextKeepsPlace, TypeParts, PTL DEF PassOK
<1> QED BY <1>1, <1>2, PTL DEF Spec

----------------------------------------------------------------------------
(* No lost command. *)

\* NoLostSet is not inductive: between the two halves of the copy that is made
\* without a lock, the half already copied must be the record's, or flagged.
HalfCopied ==
    at = "torn" => \/ is_updated["floodlight"]
                   \/ mine.floodlight.enabled = conf.floodlight.enabled
LostInv == TypeOK /\ NoLostSet /\ HalfCopied

\* A command flags the record it sets, and touches no other.
LEMMA CommandKeeps == LostInv /\ Command => NoLostSet' /\ HalfCopied'
<1> SUFFICES ASSUME LostInv, Command PROVE NoLostSet' /\ HalfCopied'
  OBVIOUS
<1> USE DEF LostInv, NoLostSet, HalfCopied
<1>1. ASSUME NEW name \in Names, NEW value, SetConf(name, value)
      PROVE  NoLostSet' /\ HalfCopied'
  <2>1. is_updated \in [Names -> BOOLEAN] /\ conf \in Confs
    BY DEF TypeOK
  <2>2. is_updated'[name] /\ at' = at /\ mine' = mine
    BY <1>1, <2>1 DEF SetConf
  <2>3. \A other \in Names \ {name} :
            is_updated'[other] = is_updated[other] /\ conf'[other] = conf[other]
    BY <1>1, <2>1 DEF SetConf, Confs, Names
  <2> QED BY <2>2, <2>3 DEF Names
<1>2. CASE SetDetection
  BY <1>2 DEF SetDetection
<1> QED BY <1>1, <1>2 DEF Command, Names

\* A copy under the lock takes over what it clears the flag of.
LEMMA CopiedKeeps ==
    ASSUME LostInv, NEW name \in Names, Copied(name), at' \notin {"start", "torn"},
           at \notin {"start", "torn"}
    PROVE  NoLostSet' /\ HalfCopied'
<1>1. mine \in Confs /\ conf \in Confs /\ is_updated \in [Names -> BOOLEAN]
  BY DEF LostInv, TypeOK
<1>2. mine'[name] = conf'[name]
  BY <1>1 DEF Copied, Confs, Names
<1>3. \A other \in Names \ {name} :
          /\ mine'[other] = mine[other] /\ conf'[other] = conf[other]
          /\ is_updated'[other] = is_updated[other]
  BY <1>1 DEF Copied, Confs, Names
<1> QED BY <1>2, <1>3 DEF LostInv, NoLostSet, HalfCopied

\* The PIR thread loses nothing between any two of its steps, and the clock nothing at all.
LEMMA ThreadKeeps == LostInv /\ (PirThread \/ Tick) => NoLostSet' /\ HalfCopied'
<1> SUFFICES ASSUME LostInv, PirThread \/ Tick PROVE NoLostSet' /\ HalfCopied'
  OBVIOUS
<1>0. mine \in Confs /\ conf \in Confs
  BY DEF LostInv, TypeOK
<1>1. CASE InitCopy
  <2>1. mine'.pir = conf.pir /\ mine'.color = conf.color
    BY <1>0, <1>1 DEF InitCopy, Confs
  <2>2. mine'.floodlight = [mine.floodlight EXCEPT !.enabled = conf.floodlight.enabled]
    BY <1>0, <1>1 DEF InitCopy, Confs
  <2>3. mine'.floodlight.enabled = conf.floodlight.enabled
    BY <1>0, <2>2 DEF Confs, FloodlightConf
  <2> QED BY <1>1, <2>1, <2>3 DEF InitCopy, Step, setVars, NoLostSet, HalfCopied, Names
<1>2. CASE InitCopyRest
  <2>1. mine'.floodlight = [conf.floodlight EXCEPT !.enabled = mine.floodlight.enabled]
    BY <1>0, <1>2 DEF InitCopyRest, Confs
  <2>2. is_updated["floodlight"] \/ mine'.floodlight = conf.floodlight
    BY <1>0, <1>2, <2>1 DEF InitCopyRest, Step, LostInv, HalfCopied, Confs, FloodlightConf
  <2>3. mine'.pir = mine.pir /\ mine'.color = mine.color
    BY <1>0, <1>2 DEF InitCopyRest, Confs
  <2> QED BY <1>2, <2>2, <2>3 DEF InitCopyRest, Step, setVars, LostInv, NoLostSet, HalfCopied, Names
<1>3. CASE CopyPir \/ CopyFloodlight \/ CopyColor
  BY <1>3, CopiedKeeps DEF CopyPir, CopyFloodlight, CopyColor, Step, Names
<1>4. CASE UNCHANGED <<setVars, mine>> /\ (at' = at \/ (at \notin {"start", "torn"} /\ at' \notin {"start", "torn"}))
  BY <1>4 DEF setVars, LostInv, NoLostSet, HalfCopied
<1>5. InitAction \/ Check \/ TestPir \/ PirPwm \/ TestFloodlight \/ TestColor \/ Act
          \/ Trigger \/ NoTrigger \/ Trace \/ Tick
      => UNCHANGED <<setVars, mine>> /\ (at' = at \/ (at \notin {"start", "torn"} /\ at' \notin {"start", "torn"}))
  BY DEF InitAction, Check, TestPir, PirPwm, TestFloodlight, TestColor, Act, Trigger, NoTrigger,
         Trace, Tick, Test, Step, setVars
<1> QED BY <1>1, <1>2, <1>3, <1>4, <1>5 DEF PirThread

\* NoLostSet: whatever is set between a test of is_updated and the copy, or while
\* the first copies are made without a lock, is flagged or taken over.
THEOREM NoLostSetCorrect == Spec => []NoLostSet
<1>1. Init => NoLostSet /\ HalfCopied
  BY DEF Init, NoLostSet, HalfCopied
<1>2. LostInv /\ [Next]_vars => NoLostSet' /\ HalfCopied'
  <2>1. LostInv /\ UNCHANGED vars => NoLostSet' /\ HalfCopied'
    BY DEF LostInv, NoLostSet, HalfCopied, vars
  <2> QED BY <2>1, CommandKeeps, ThreadKeeps DEF Next
<1> QED BY <1>1, <1>2, TypeCorrect, PTL DEF Spec, LostInv

----------------------------------------------------------------------------
(* The light after a pass. *)

\* Shown holds at the head of a pass only; what it rests on holds wherever the
\* thread is.  A time that is running, or over and not yet cleared, has the light
\* on; and outside the steps from a copy of floodlight_conf to the action that
\* answers to it the light is as bright as it should be, and is off only if a
\* trigger put it out.
Untouched == {"start", "torn", "first"}
Copying == {"color", "copyColor", "act"}
Timed == stop # Zero => lit
Settled ==
    /\ lit => duty = mine.floodlight.lightness
    /\ mine.floodlight.enabled /\ ~lit => doused
Asked == lit => mine.floodlight.enabled \/ stop # Zero
ShownInv ==
    /\ at \in Untouched => ~lit
    /\ at \notin Untouched => Timed
    /\ at \notin Untouched \cup Copying => Settled
    /\ at \in Copying => \/ Settled \/ pir_trig = "floodlight"
                         \/ pir_trig = "pir" /\ ~mine.floodlight.enabled
    /\ at = "check" => Asked

\* A mode of handlePirAction leaves the light as it should be; the action after
\* a copy needs no more than that the time is right.
LEMMA ModesShow ==
    ASSUME UNCHANGED mine
    PROVE  /\ TriggerMode /\ Timed /\ Settled => Timed' /\ Settled'
           /\ PirMode /\ Timed /\ (Settled \/ ~mine.floodlight.enabled) => Timed' /\ Settled'
           /\ FloodlightMode => Timed' /\ Settled' /\ Asked'
           /\ TracingMode /\ Timed /\ Settled => Timed' /\ Settled' /\ Asked'
<1> USE DEF Timed, Settled, SwitchOn, SwitchOff, Brighten, pwmVars
<1>1. TriggerMode /\ Timed /\ Settled => Timed' /\ Settled'
  BY DEF TriggerMode
<1>2. PirMode /\ Timed /\ (Settled \/ ~mine.floodlight.enabled) => Timed' /\ Settled'
  BY DEF PirMode
<1>3. FloodlightMode => Timed' /\ Settled' /\ Asked'
  BY DEF FloodlightMode, Asked
<1>4. TracingMode /\ Timed /\ Settled => Timed' /\ Settled' /\ Asked'
  BY DEF TracingMode, Asked, Over, Zero, Past
<1> QED BY <1>1, <1>2, <1>3, <1>4

\* ShownInv is inductive: InitAction gives the time its meaning, a copy of
\* floodlight_conf leaves Act the mode that its changes need, and Trace puts out
\* what nobody asks for.
LEMMA ShownInvStep == TypeOK /\ ShownInv /\ [Next]_vars => ShownInv'
<1> SUFFICES ASSUME TypeOK, ShownInv, [Next]_vars PROVE ShownInv'
  OBVIOUS
<1> USE DEF Untouched, Copying
<1>0. mine \in Confs /\ conf \in Confs /\ pir_trig \in {"none", "pir", "floodlight"} /\ at \in Places
  BY DEF TypeOK
<1>1. CASE Command \/ UNCHANGED vars
  <2>1. UNCHANGED <<at, mine, pir_trig, stop, lit, duty, doused>>
    BY <1>1 DEF Command, SetConf, SetDetection, vars, pwmVars
  <2> QED BY <2>1 DEF ShownInv, Timed, Settled, Asked
<1>2. CASE Tick
  <2>1. stop # Zero /\ stop' # Zero /\ UNCHANGED <<at, mine, pir_trig, lit, duty, doused>>
    BY <1>2 DEF Tick, Zero, setVars
  <2> QED BY <2>1 DEF ShownInv, Timed, Settled, Asked
<1>3. CASE InitCopy \/ InitCopyRest
  <2>1. at' \in Untouched /\ at \in Untouched /\ UNCHANGED lit
    BY <1>3 DEF InitCopy, InitCopyRest, Step, pwmVars
  <2> QED BY <2>1 DEF ShownInv
<1>4. CASE InitAction
  <2>1. at' = "check" /\ UNCHANGED mine /\ FloodlightMode
    BY <1>4 DEF InitAction, Step
  <2> QED BY <2>1, ModesShow DEF ShownInv
<1>5. CASE CopyPir
  <2>1. mine'.floodlight = mine.floodlight
    BY <1>0, <1>5 DEF CopyPir, Copied, Confs
  <2> QED BY <1>5, <2>1 DEF CopyPir, Copied, Step, pwmVars, ShownInv, Timed, Settled, Asked
<1>6. CASE CopyFloodlight
  <2>1. mine'.floodlight = conf.floodlight
    BY <1>0, <1>6 DEF CopyFloodlight, Copied, Confs
  <2>2. \/ pir_trig' = "floodlight"
        \/ pir_trig' = "pir" /\ ~mine'.floodlight.enabled
        \/ /\ mine'.floodlight.lightness = mine.floodlight.lightness
           /\ mine'.floodlight.enabled = mine.floodlight.enabled
    BY <1>6, <2>1 DEF CopyFloodlight
  <2> QED BY <1>6, <2>2 DEF CopyFloodlight, Copied, Step, pwmVars, ShownInv, Timed, Settled
<1>7. CASE CopyColor
  <2>1. mine'.floodlight = mine.floodlight
    BY <1>0, <1>7 DEF CopyColor, Copied, Confs
  <2> QED BY <1>7, <2>1 DEF CopyColor, Copied, Step, pwmVars, ShownInv, Timed, Settled
<1>8. CASE Check \/ TestPir \/ PirPwm \/ TestFloodlight \/ TestColor \/ NoTrigger
  <2>1. UNCHANGED <<mine, pir_trig, stop, lit, duty, doused>>
    BY <1>8 DEF Check, TestPir, PirPwm, TestFloodlight, TestColor, NoTrigger, Test, pwmVars
  <2>2. /\ at \notin Untouched /\ at' \notin Untouched /\ at' # "check"
        /\ (at \in Copying => at' \in Copying)
    BY <1>8 DEF Check, TestPir, PirPwm, TestFloodlight, TestColor, NoTrigger, Test, Step
  <2> QED BY <2>1, <2>2 DEF ShownInv, Timed, Settled, Asked
<1>9. CASE Act
  <2>1. at = "act" /\ at' = "sense" /\ UNCHANGED mine
    BY <1>9 DEF Act, Step
  <2>2. CASE pir_trig = "pir"
    <3>1. PirMode
      BY <1>9, <2>2 DEF Act
    <3> QED BY <2>1, <2>2, <3>1, ModesShow DEF ShownInv
  <2>3. CASE pir_trig = "floodlight"
    <3>1. FloodlightMode
      BY <1>9, <2>3 DEF Act
    <3> QED BY <2>1, <2>3, <3>1, ModesShow DEF ShownInv
  <2>4. CASE pir_trig = "none"
    <3>1. UNCHANGED pwmVars
      BY <1>9, <2>4 DEF Act
    <3> QED BY <2>1, <2>4, <3>1 DEF ShownInv, Timed, Settled, pwmVars
  <2> QED BY <1>0, <2>2, <2>3, <2>4
<1>10. CASE Trigger
  <2>1. at = "sense" /\ at' = "trace" /\ UNCHANGED mine /\ TriggerMode
    BY <1>10 DEF Trigger, Step
  <2> QED BY <2>1, ModesShow DEF ShownInv
<1>11. CASE Trace
  <2>1. at = "trace" /\ at' = "check" /\ UNCHANGED mine /\ TracingMode
    BY <1>11 DEF Trace, Step
  <2> QED BY <2>1, ModesShow DEF ShownInv
<1> QED BY <1>1, <1>2, <1>3, <1>4, <1>5, <1>6, <1>7, <1>8, <1>9, <1>10, <1>11 DEF Next, PirThread

\* Shown: after a pass of EVENT_GPIO_daemon the floodlight is what the thread's
\* records and the time say, whatever was set and triggered in between.
THEOREM ShownCorrect == Spec => []Shown
<1>1. Init => ShownInv
  BY DEF Init, ShownInv, Untouched, Copying
<1>2. TypeOK /\ ShownInv => Shown
  <2> SUFFICES ASSUME TypeOK, ShownInv, at = "check" PROVE Shown
    BY DEF Shown
  <2>1. Timed /\ Settled /\ Asked
    BY DEF ShownInv, Untouched, Copying
  <2>2. stop \in 0..WarnTime => stop # Zero
    BY DEF Zero
  <2> QED BY <2>1, <2>2 DEF Shown, Timed, Settled, Asked
<1> QED BY <1>1, <1>2, TypeCorrect, ShownInvStep, PTL DEF Spec

=============================================================================
