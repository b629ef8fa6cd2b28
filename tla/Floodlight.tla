----------------------------- MODULE Floodlight -----------------------------
(***************************************************************************)
(* The event daemon's PIR thread: it takes over what the command thread    *)
(* has been sent, tested by flags outside their locks, and works the       *)
(* floodlight, which is on because the user wants it on or, at night, for  *)
(* a time after a sensor was triggered.                                    *)
(***************************************************************************)
EXTENDS Integers

CONSTANTS
    Lightness,    \* brightnesses a user may set
    WarnTime,     \* |warn_time|
    MaxSets,      \* bound: commands
    MaxTriggers   \* bound: triggers

ASSUME FloodlightAssumption ==
    Lightness # {} /\ {WarnTime, MaxSets, MaxTriggers} \subseteq Nat

Names == {"pir", "floodlight", "color"}
FloodlightConf == [enabled : BOOLEAN, lightness : Lightness, warn_switch : BOOLEAN]
\* A pir_conf says whether any sensor is enabled.
Confs == [pir : BOOLEAN, floodlight : FloodlightConf, color : {"night", "day"}]

VARIABLES
    conf, is_updated, \* g_pir_ctx, g_floodlight_ctx, g_color_mode_ctx
    detection,        \* PIR_IN is enabled, by itself or always
    at,               \* where the PIR thread is
    mine,             \* its copies of the three records
    pir_trig,         \* what handlePirDatabase found to do
    stop,             \* pir_stop_tv[1], as the time until then
    lit, duty,        \* the PWM: enabled, and the brightness of its duty cycle
    sets, triggers,   \* commands and triggers so far
    doused            \* ghost: put out by a trigger though it is enabled

setVars == <<conf, is_updated, detection, sets>>
pwmVars == <<stop, lit, duty, doused>>
vars == <<conf, is_updated, detection, at, mine, pir_trig, stop, lit, duty,
          sets, triggers, doused>>

\* Values of stop.  pir_stop_tv is not initialised: what is there at the start
\* may be a time that is never over.
Zero == -2
Past == -1
Far == WarnTime + 1
Over == stop \in {Zero, Past}
----------------------------------------------------------------------------
(* The command thread, EVENT_parseCtrlCmd. *)

SetConf(name, value) ==
    /\ sets < MaxSets
    /\ conf' = [conf EXCEPT ![name] = value]
    /\ is_updated' = [is_updated EXCEPT ![name] = TRUE]
    /\ sets' = sets + 1
    /\ UNCHANGED <<detection, at, mine, pir_trig, pwmVars, triggers>>

SetDetection ==
    /\ sets < MaxSets
    /\ detection' = ~detection
    /\ sets' = sets + 1
    /\ UNCHANGED <<conf, is_updated, at, mine, pir_trig, pwmVars, triggers>>

Command ==
    \/ \E value \in BOOLEAN : SetConf("pir", value)
    \/ \E value \in FloodlightConf : SetConf("floodlight", value)
    \/ \E value \in {"night", "day"} : SetConf("color", value)
    \/ SetDetection
----------------------------------------------------------------------------
(* handlePirAction, by mode. *)

SwitchOn ==
    /\ lit' = TRUE /\ duty' = mine.floodlight.lightness /\ doused' = FALSE
SwitchOff ==
    /\ lit' = FALSE /\ stop' = Zero /\ UNCHANGED duty
Brighten ==
    /\ duty' = mine.floodlight.lightness /\ UNCHANGED <<lit, stop, doused>>

TriggerMode ==
    \/ /\ ~mine.floodlight.warn_switch
       /\ SwitchOff /\ doused' = mine.floodlight.enabled
    \/ /\ mine.floodlight.warn_switch /\ mine.color = "night"
       /\ stop' = WarnTime
       /\ IF stop = Zero THEN SwitchOn ELSE UNCHANGED <<lit, duty, doused>>
    \/ /\ mine.floodlight.warn_switch /\ mine.color # "night"
       /\ UNCHANGED pwmVars

PirMode ==
    \/ mine.pir /\ Brighten
    \/ ~mine.pir /\ ~mine.floodlight.enabled /\ SwitchOff /\ doused' = FALSE
    \/ ~mine.pir /\ mine.floodlight.enabled /\ UNCHANGED pwmVars

FloodlightMode ==
    \/ mine.floodlight.enabled /\ SwitchOn /\ UNCHANGED stop
    \/ ~mine.floodlight.enabled /\ SwitchOff /\ doused' = FALSE

\* Mutants of TracingMode: the time that is over is not cleared; the comparison
\* is the wrong way round.
TracingModeKeeps ==
    \/ ~Over /\ UNCHANGED pwmVars
    \/ /\ Over /\ UNCHANGED stop
       /\ IF mine.floodlight.enabled
          THEN duty' = mine.floodlight.lightness /\ UNCHANGED <<lit, doused>>
          ELSE lit' = FALSE /\ doused' = FALSE /\ UNCHANGED duty
TracingModeBefore ==
    \/ stop \in {Zero, Past} /\ UNCHANGED pwmVars
    \/ /\ stop \notin {Zero, Past} /\ stop' = Zero
       /\ IF mine.floodlight.enabled
          THEN duty' = mine.floodlight.lightness /\ UNCHANGED <<lit, doused>>
          ELSE lit' = FALSE /\ doused' = FALSE /\ UNCHANGED duty

TracingMode ==
    \/ ~Over /\ UNCHANGED pwmVars
    \/ /\ Over /\ stop' = Zero
       /\ IF mine.floodlight.enabled
          THEN duty' = mine.floodlight.lightness /\ UNCHANGED <<lit, doused>>
          ELSE lit' = FALSE /\ doused' = FALSE /\ UNCHANGED duty
----------------------------------------------------------------------------
(* EVENT_GPIO_daemon for PIR_IN. *)

Step(from, to) == at = from /\ at' = to

\* The first copies are made without the locks: a floodlight_conf that is set
\* meanwhile may be half old, half new.
InitCopy ==
    /\ Step("start", "torn")
    /\ mine' = [conf EXCEPT !.floodlight = [mine.floodlight EXCEPT !.enabled = conf.floodlight.enabled]]
    /\ UNCHANGED <<setVars, pir_trig, pwmVars, triggers>>
InitCopyRest ==
    /\ Step("torn", "first")
    /\ mine' = [mine EXCEPT !.floodlight = [conf.floodlight EXCEPT !.enabled = mine.floodlight.enabled]]
    /\ UNCHANGED <<setVars, pir_trig, pwmVars, triggers>>
InitAction ==
    /\ Step("first", "check")
    /\ FloodlightMode
    /\ UNCHANGED <<setVars, mine, pir_trig, triggers>>

\* While the detection is off a pass does nothing at all.
Check ==
    /\ detection
    /\ Step("check", "pir")
    /\ UNCHANGED <<setVars, mine, pir_trig, pwmVars, triggers>>

\* handlePirDatabase: each flag is tested, and then the lock taken.
Copied(name) ==
    /\ mine' = [mine EXCEPT ![name] = conf[name]]
    /\ is_updated' = [is_updated EXCEPT ![name] = FALSE]
    /\ UNCHANGED <<conf, detection, sets, pwmVars, triggers>>

Test(name, copy, next) ==
    /\ Step(name, IF is_updated[name] THEN copy ELSE next)
    /\ UNCHANGED <<setVars, mine, pir_trig, pwmVars, triggers>>

TestPir == Test("pir", "copyPir", "floodlight")
CopyPir == Step("copyPir", "pirPwm") /\ Copied("pir") /\ pir_trig' = "pir"

\* Mutant of PirPwm: the flag is cleared once the lock has been given back.
PirPwmClears ==
    /\ Step("pirPwm", "floodlight")
    /\ is_updated' = [is_updated EXCEPT !["pir"] = FALSE]
    /\ UNCHANGED <<conf, detection, sets, mine, pir_trig, pwmVars, triggers>>

\* The sensors' own PWMs, after the unlock.
PirPwm ==
    /\ Step("pirPwm", "floodlight")
    /\ UNCHANGED <<setVars, mine, pir_trig, pwmVars, triggers>>

TestFloodlight == Test("floodlight", "copyFloodlight", "color")
CopyFloodlight ==
    LET old == mine.floodlight
        new == conf.floodlight
        switched == IF old.lightness # new.lightness THEN new.enabled
                    ELSE old.enabled # new.enabled
    IN  /\ Step("copyFloodlight", "color") /\ Copied("floodlight")
        /\ pir_trig' = IF switched THEN "floodlight" ELSE "pir"

TestColor == Test("color", "copyColor", "act")
CopyColor == Step("copyColor", "act") /\ Copied("color") /\ UNCHANGED pir_trig

\* Mutant of Act: pir_trig is left as it is.
ActStays ==
    /\ Step("act", "sense")
    /\ CASE pir_trig = "pir" -> PirMode
         [] pir_trig = "floodlight" -> FloodlightMode
         [] OTHER -> UNCHANGED pwmVars
    /\ UNCHANGED <<setVars, mine, pir_trig, triggers>>

Act ==
    /\ Step("act", "sense")
    /\ CASE pir_trig = "pir" -> PirMode
         [] pir_trig = "floodlight" -> FloodlightMode
         [] OTHER -> UNCHANGED pwmVars
    /\ pir_trig' = "none"
    /\ UNCHANGED <<setVars, mine, triggers>>

\* An enabled sensor has been at its level for long enough, or none has.
Trigger ==
    /\ Step("sense", "trace")
    /\ mine.pir /\ triggers < MaxTriggers
    /\ TriggerMode
    /\ triggers' = triggers + 1
    /\ UNCHANGED <<setVars, mine, pir_trig>>
NoTrigger ==
    /\ Step("sense", "trace")
    /\ UNCHANGED <<setVars, mine, pir_trig, pwmVars, triggers>>

Trace ==
    /\ Step("trace", "check")
    /\ TracingMode
    /\ UNCHANGED <<setVars, mine, pir_trig, triggers>>

Tick ==
    /\ stop \in 0..WarnTime
    /\ stop' = stop - 1
    /\ UNCHANGED <<setVars, at, mine, pir_trig, lit, duty, doused, triggers>>
----------------------------------------------------------------------------
Init ==
    /\ conf \in Confs /\ is_updated = [name \in Names |-> FALSE] /\ detection \in BOOLEAN
    /\ at = "start" /\ mine = conf /\ pir_trig = "none"
    /\ stop \in {Zero, Past, Far}
    /\ lit = FALSE /\ duty \in Lightness
    /\ sets = 0 /\ triggers = 0 /\ doused = FALSE

PirThread ==
    \/ InitCopy \/ InitCopyRest \/ InitAction \/ Check
    \/ TestPir \/ CopyPir \/ PirPwm \/ TestFloodlight \/ CopyFloodlight
    \/ TestColor \/ CopyColor \/ Act \/ Trigger \/ NoTrigger \/ Trace

Next == Command \/ PirThread \/ Tick

\* The thread runs and time passes; nobody has to send commands.
Spec == Init /\ [][Next]_vars /\ WF_vars(PirThread) /\ WF_vars(Tick)
----------------------------------------------------------------------------
(* Properties. *)

Places == {"start", "torn", "first", "check", "pir", "copyPir", "pirPwm", "floodlight",
           "copyFloodlight", "color", "copyColor", "act", "sense", "trace"}

\* ... and at the head of a pass nothing is left to do of the last one.
TypeOK ==
    /\ conf \in Confs /\ mine \in Confs
    /\ is_updated \in [Names -> BOOLEAN] /\ detection \in BOOLEAN
    /\ at \in Places /\ pir_trig \in {"none", "pir", "floodlight"}
    /\ at \in {"check", "pir"} => pir_trig = "none"
    /\ stop \in Zero..Far /\ duty \in Lightness
    /\ lit \in BOOLEAN /\ doused \in BOOLEAN
    /\ sets \in 0..MaxSets /\ triggers \in 0..MaxTriggers

\* A record that has been set is what the thread works with, or it is flagged:
\* no command is lost between a test of the flag and the copy, nor in the copies
\* that are made without the lock.
NoLostSet ==
    at # "start" =>
        \A name \in Names \ (IF at = "torn" THEN {"floodlight"} ELSE {}) :
            mine[name] = conf[name] \/ is_updated[name]

\* After a pass the light is what the thread's records say: on, because it is
\* enabled or for a time after a trigger, at the brightness that was set last.
Shown ==
    at = "check" =>
        /\ lit => mine.floodlight.enabled \/ stop # Zero
        /\ lit => duty = mine.floodlight.lightness
        /\ stop \in 0..WarnTime => lit
        /\ mine.floodlight.enabled /\ ~lit => doused

\* While the detection works, a light nobody has enabled goes out, unless it is
\* held by the time that was never set.
GoesOut ==
    (<>[]detection) => [](lit => <>(~lit \/ conf.floodlight.enabled \/ stop = Far))

=============================================================================
