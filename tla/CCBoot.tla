------------------------------- MODULE CCBoot -------------------------------
(***************************************************************************)
(* From one firmware to the next: sysupd writes the other slot and leaves  *)
(* update_file; at the boot the central-control server merges the new      *)
(* factory data base into the user's and applies the calibration, while    *)
(* dbmonitor saves the result; a data base that cannot be read is reset.   *)
(* Power may fail between any two steps.  /tmp is gone then, /usrdata and  *)
(* the boot environment stay.                                              *)
(*                                                                         *)
(* dbmonitor is DbMonitor; here its versions src and dest have contents.   *)
(***************************************************************************)
EXTENDS DbMonitor, Sequences

CONSTANTS
    cmd_table,    \* the records, in the order in which they are merged
    Overwritten,  \* those whose rule is AGTX_UPDATE_RULE_OVERWRITE
    Added,        \* those the old firmware does not have
    CalRecord,    \* the one with calibration data
    FirstSlot,    \* the slot that runs at first
    MaxCuts,      \* bound: power cuts
    MaxFaults     \* bound: records that become unreadable

Slots == {"a", "b"}

Records == {cmd_table[i] : i \in DOMAIN cmd_table}

ASSUME BootAssumption ==
    /\ cmd_table \in Seq(Records) /\ CalRecord \in Records \ Added
    /\ Overwritten \subseteq Records /\ Added \subseteq Records
    /\ FirstSlot \in Slots /\ MaxCuts \in Nat /\ MaxFaults \in Nat

VARIABLES
    active, bootable, image,               \* boot environment and slots
    flash, update_file, cal_done, upd_file, reset_file,         \* /usrdata
    mem, db_merge_done,                    \* /tmp
    pc, todo,      \* where the server is (or sysupd), records left to merge
    cuts, faults,
    unsaved,       \* ghost: dbmonitor's copy after the update was not the merged one
    calVer,        \* ghost: the version that has the calibration
    excuses        \* ghost: what has gone wrong beyond the code's reach

slotVars == <<active, bootable, image>>
usrdata == <<update_file, cal_done, upd_file, reset_file>>
serverVars == <<mem, db_merge_done, pc, todo>>
budget == <<cuts, faults>>
bootGhosts == <<unsaved, calVer, excuses>>
allVars == <<vars, slotVars, flash, usrdata, serverVars, budget, bootGhosts>>

\* A data base: what each record is, and whether the calibration is in it.
Content == [rec : [Records -> {"none", "old", "merged", "factory", "corrupt"}],
            cal : BOOLEAN]
Factory == [rec |-> [r \in Records |-> "factory"], cal |-> FALSE]
Bad(c) == {r \in Records : c.rec[r] \in {"none", "corrupt"}}

\* A statement of the server commits: DbMonitor's writer in one step.
Store(c) ==
    /\ mem' = c /\ src' = src + 1
    /\ event' = (event \/ Watching) /\ late' \in {late, TRUE}
    /\ missed' = IF Watching THEN missed ELSE src'
    /\ UNCHANGED <<dest, writer, sem, threadVars, endapp_flag, main, back, sigSrc, sigAt, gaveUp, unopened>>
----------------------------------------------------------------------------
(* sysupd, under the old firmware. *)

\* Mutant of Target: the slot that runs is written.
TargetActive == IF "b" \in active THEN "b" ELSE "a"

\* run_swupdate asks for slot B only.
Target == IF "b" \in active THEN "a" ELSE "b"

Prepare ==
    /\ pc = "old"
    /\ active' = active \ {Target} /\ bootable' = bootable \ {Target}
    /\ image' = [image EXCEPT ![Target] = "torn"] /\ pc' = "writing"
    /\ UNCHANGED <<vars, flash, usrdata, mem, db_merge_done, todo, budget, bootGhosts>>

SwUpdate ==
    /\ pc = "writing"
    /\ \/ image' = [image EXCEPT ![Target] = "new"] /\ pc' = "switch"
       \/ UNCHANGED image /\ pc' = "old"
    /\ UNCHANGED <<vars, active, bootable, flash, usrdata, mem, db_merge_done, todo, budget, bootGhosts>>

\* One fw_setenv: the other slot is the active one.
Switch ==
    /\ pc = "switch"
    /\ active' = {Target} /\ bootable' = bootable \cup {Target}
    /\ pc' = "mark"
    /\ UNCHANGED <<vars, image, flash, usrdata, mem, db_merge_done, todo, budget, bootGhosts>>

Mark ==
    /\ pc = "mark"
    /\ update_file' = TRUE /\ pc' = "old"
    /\ UNCHANGED <<vars, slotVars, flash, cal_done, upd_file, reset_file, mem, db_merge_done, todo,
                   budget, bootGhosts>>
----------------------------------------------------------------------------
(* main() of the server, up to its socket. *)

ServerOnly == UNCHANGED <<slotVars, flash, reset_file, budget>>

Boot ==
    /\ pc = "boot"
    /\ IF update_file THEN pc' = "merge" /\ todo' = cmd_table
       ELSE pc' = "cal" /\ UNCHANGED todo
    /\ UNCHANGED <<vars, usrdata, mem, db_merge_done, bootGhosts>> /\ ServerOnly

\* merge_db_record: the user's values over the factory's.  A record that cannot
\* be read is taken for absent, and the INSERT fails on its primary key.
MergedRecord(v) ==
    CASE v = "none" -> "factory"
      [] v = "old" -> "merged"
      [] OTHER -> v

MergeOne(r) ==
    IF r \in Overwritten
    THEN [rec |-> [mem.rec EXCEPT ![r] = "factory"], cal |-> mem.cal /\ r # CalRecord]
    ELSE [mem EXCEPT !.rec[r] = MergedRecord(@)]

\* Mutant of Merge: the last record is left out.
MergeButLast ==
    /\ pc = "merge"
    /\ Store(MergeOne(Head(todo)))
    /\ todo' = Tail(todo)
    /\ pc' = IF Len(todo') = 1 THEN "cal" ELSE "merge"
    /\ UNCHANGED <<usrdata, db_merge_done, bootGhosts>> /\ ServerOnly

Merge ==
    /\ pc = "merge"
    /\ IF Head(todo) \notin Overwritten /\ mem.rec[Head(todo)] = "corrupt"
       THEN UNCHANGED <<vars, mem>>
       ELSE Store(MergeOne(Head(todo)))
    /\ todo' = Tail(todo)
    /\ pc' = IF todo' = <<>> THEN "cal" ELSE "merge"
    /\ UNCHANGED <<usrdata, db_merge_done, bootGhosts>> /\ ServerOnly

Forced == update_file \/ ~cal_done
AfterCal == IF update_file THEN "merged" ELSE IF cal_done THEN "serve" ELSE "cal_done"

\* Mutant of RemoveFlag: the calibration is applied if there is a flag only.
RemoveFlagUnforced ==
    /\ pc = "cal"
    /\ pc' = IF upd_file THEN "apply" ELSE AfterCal
    /\ upd_file' = FALSE
    /\ UNCHANGED <<vars, update_file, cal_done, mem, db_merge_done, todo, bootGhosts>> /\ ServerOnly

\* update_cal_data removes its flag first.
RemoveFlag ==
    /\ pc = "cal"
    /\ pc' = IF upd_file \/ Forced THEN "apply" ELSE AfterCal
    /\ upd_file' = FALSE
    /\ UNCHANGED <<vars, update_file, cal_done, mem, db_merge_done, todo, bootGhosts>> /\ ServerOnly

ApplyCal ==
    /\ pc = "apply"
    /\ IF CalRecord \in Bad(mem) THEN UNCHANGED <<vars, mem, calVer, excuses>>
       ELSE /\ Store([mem EXCEPT !.cal = TRUE])
            /\ calVer' = src' /\ excuses' = excuses \ {"cut", "reset"}
    /\ pc' = AfterCal
    /\ UNCHANGED <<usrdata, db_merge_done, todo, unsaved>> /\ ServerOnly

MarkCalDone ==
    /\ pc = "cal_done"
    /\ cal_done' = TRUE /\ pc' = "serve"
    /\ UNCHANGED <<vars, update_file, upd_file, mem, db_merge_done, todo, bootGhosts>> /\ ServerOnly

MarkMerged ==
    /\ pc = "merged"
    /\ db_merge_done' = TRUE /\ pc' = "serve"
    /\ UNCHANGED <<vars, usrdata, mem, todo, bootGhosts>> /\ ServerOnly

\* Whoever started the update takes its mark away once there is an end_backupdb.
FinishUpdate ==
    /\ update_file /\ db_merge_done /\ main \notin {"ota", "ended"}
    /\ update_file' = FALSE
    /\ excuses' = IF unsaved THEN excuses \cup {"unsaved"} ELSE excuses
    /\ UNCHANGED <<vars, slotVars, flash, cal_done, upd_file, reset_file, serverVars, budget,
                   unsaved, calVer>>
----------------------------------------------------------------------------
(* dbmonitor, and what its copies bring to flash. *)

MonitorOnly == UNCHANGED <<slotVars, usrdata, serverVars, budget, calVer>>

\* Mutant of WaitMerged: dbmonitor does not wait.
WaitMergedNot == TRUE

\* watch_file: the server is done.
WaitMerged == db_merge_done

\* do_ota: then one copy, or none.
OtaWaited ==
    /\ WaitMerged /\ Ota
    /\ flash' = IF dest' = src THEN mem ELSE flash
    /\ unsaved' = (dest' # src)
    /\ UNCHANGED excuses /\ MonitorOnly

\* It does the same when it has waited too long.
OtaTimedOut ==
    /\ ~db_merge_done /\ Ota
    /\ flash' = IF dest' = src THEN mem ELSE flash
    /\ unsaved' = TRUE
    /\ UNCHANGED excuses /\ MonitorOnly

CopyToFlash ==
    /\ Copy
    /\ flash' = mem
    /\ excuses' = IF pc = "reboot" THEN excuses \cup {"undone"} ELSE excuses
    /\ UNCHANGED unsaved /\ MonitorOnly

MonitorOther ==
    /\ \/ Watch \/ CreateThread \/ EpollReturns \/ ReadEvent \/ HandlerReturns \/ End
       \/ Wait \/ SemWait \/ Again \/ CopyUnopened \/ CopyFails \/ Copied \/ Check
    /\ UNCHANGED <<flash, unsaved, excuses>> /\ MonitorOnly

----------------------------------------------------------------------------
(* A data base that cannot be read; power. *)

\* A record becomes unreadable.
Fault(r) ==
    /\ pc = "serve" /\ faults < MaxFaults
    /\ faults' = faults + 1
    /\ Store([mem EXCEPT !.rec[r] = "corrupt"])
    /\ excuses' = excuses \cup {"fault"}
    /\ UNCHANGED <<slotVars, flash, usrdata, db_merge_done, pc, todo, cuts, unsaved, calVer>>

\* trigger_reset_reboot, on a GET or SET of such a record: SIGTERM to dbmonitor,
\* which dies of it before its handlers are in place ...
Kill ==
    /\ pc = "serve" /\ Bad(mem) # {}
    /\ pc' = "reset"
    /\ \/ Signal
       \/ main = "ota" /\ main' = "ended"
          /\ UNCHANGED <<src, dest, writer, event, sem, late, threadVars, endapp_flag, back, ghosts>>
    /\ UNCHANGED <<slotVars, flash, usrdata, mem, db_merge_done, todo, budget, bootGhosts>>

\* ... then the factory data base to flash, or a file that asks the next boot
\* for it.  Nobody waits for dbmonitor.
Reset ==
    /\ pc = "reset" /\ pc' = "reboot"
    /\ \/ flash' = Factory /\ UNCHANGED reset_file
       \/ reset_file' = TRUE /\ UNCHANGED flash
    /\ excuses' = excuses \ {"undone"}
    /\ UNCHANGED <<vars, slotVars, update_file, cal_done, upd_file, mem, db_merge_done, todo,
                   budget, unsaved, calVer>>

\* /tmp is empty, the boot script copies the data base there, and the firmware
\* of an active slot starts its programs.
PowerOn(content) ==
    \E s \in active \cap bootable :
        /\ mem' = content /\ flash' = content
        /\ reset_file' = FALSE /\ db_merge_done' = FALSE /\ todo' = <<>>
        /\ pc' = IF image[s] = "new" THEN "boot" ELSE "old"
        /\ main' = IF update_file THEN "ota" ELSE "start"
        /\ src' = 0 /\ dest' = 0 /\ writer' = "idle" /\ event' = FALSE /\ sem' = 0
        /\ late' = FALSE /\ backup_done' = FALSE /\ endapp_flag' = FALSE
        /\ thread' = "none" /\ back' = "none" /\ tries' = 0 /\ sigSrc' = 0
        /\ sigAt' = "unsent" /\ missed' = 0 /\ gaveUp' = FALSE /\ unopened' = FALSE
        /\ unsaved' = FALSE /\ calVer' = 0
        /\ UNCHANGED <<slotVars, update_file, cal_done, upd_file, faults>>

AtPowerOn == IF reset_file THEN Factory ELSE flash

\* The calibration is not in flash yet, or the update not marked.
Lost == (IF pc = "apply" \/ dest < calVer THEN {"cut"} ELSE {})
        \cup (IF pc = "mark" /\ ~update_file THEN {"unmarked"} ELSE {})

\* The user does as sysupd says.
UserReboots ==
    /\ pc = "old" /\ update_file /\ UNCHANGED <<cuts, excuses>>
    /\ PowerOn(AtPowerOn)

PowerCut ==
    /\ cuts < MaxCuts /\ pc # "reboot"
    /\ cuts' = cuts + 1
    /\ PowerOn(AtPowerOn)
    /\ excuses' = excuses \cup Lost

\* After a reset nothing is as it was, unless dbmonitor has copied it over the
\* factory data base; the calibration is not applied again.
Reboot ==
    /\ pc = "reboot" /\ UNCHANGED cuts
    /\ PowerOn(AtPowerOn)
    /\ excuses' = IF "undone" \in excuses /\ ~reset_file THEN excuses \cup Lost
                  ELSE {"factory"} \cup IF cal_done THEN {"reset"} ELSE {}
----------------------------------------------------------------------------
OldContent == [rec |-> [r \in Records |-> IF r \in Added THEN "none" ELSE "old"],
               cal |-> cal_done /\ ~upd_file]
NewContent == [rec |-> [r \in Records |-> IF r \in Overwritten \cup Added THEN "factory" ELSE "merged"],
               cal |-> cal_done /\ ~upd_file]

\* The old firmware runs, or the new one starts once more.
BootInit ==
    /\ Init /\ main = "start" /\ cal_done \in BOOLEAN /\ upd_file \in BOOLEAN
    /\ update_file = FALSE /\ reset_file = FALSE /\ db_merge_done = FALSE
    /\ active = {FirstSlot} /\ bootable = Slots
    /\ \/ /\ image = [s \in Slots |-> "old"]
          /\ pc = "old" /\ flash = OldContent
       \/ /\ image = [s \in Slots |-> IF s \in active THEN "new" ELSE "old"]
          /\ pc = "boot" /\ flash = NewContent
    /\ mem = flash /\ todo = <<>> /\ cuts = 0 /\ faults = 0
    /\ unsaved = FALSE /\ calVer = 0 /\ excuses = {}

Sysupd == Prepare \/ SwUpdate \/ Switch \/ Mark
Server == Boot \/ Merge \/ RemoveFlag \/ ApplyCal \/ MarkCalDone \/ MarkMerged \/ Kill \/ Reset
Monitor == OtaWaited \/ OtaTimedOut \/ CopyToFlash \/ MonitorOther

BootNext ==
    \/ Sysupd \/ Server \/ Monitor \/ FinishUpdate
    \/ (\E r \in Records : Fault(r)) \/ PowerCut \/ Reboot \/ UserReboots

BootSpec == BootInit /\ [][BootNext]_allVars
----------------------------------------------------------------------------
(* Properties. *)

BootTypeOK ==
    /\ active \subseteq Slots /\ bootable \subseteq Slots
    /\ image \in [Slots -> {"old", "new", "torn"}]
    /\ flash \in Content /\ mem \in Content
    /\ {update_file, cal_done, upd_file, reset_file, db_merge_done, unsaved} \subseteq BOOLEAN
    /\ pc \in {"old", "writing", "switch", "mark", "boot", "merge", "cal", "apply", "merged",
               "cal_done", "serve", "reset", "reboot"}
    /\ (pc = "merge") = (todo # <<>>)
    /\ \E i \in 0..Len(cmd_table) : todo = SubSeq(cmd_table, i + 1, Len(cmd_table))
    /\ cuts \in 0..MaxCuts /\ faults \in 0..MaxFaults
    /\ calVer \in 0..src /\ dest \in 0..src
    /\ excuses \subseteq {"cut", "reset", "factory", "unmarked", "unsaved", "fault", "undone"}

\* Wherever sysupd is interrupted there is one slot to start from, and it holds
\* a whole image.
Bootable ==
    /\ active # {} /\ active \subseteq bootable
    /\ \A s \in active : image[s] # "torn"

\* However often merge_database was interrupted and begun again: when the server
\* serves, each record is the user's in the new form, or the factory's if it was
\* overwritten, added or reset.  Not so if power failed between fw_setenv and
\* the mark of the update, if the mark was removed without a copy of the merged
\* data base in flash, after a fault, or after a reset that dbmonitor undid.
Merged ==
    pc = "serve" /\ excuses \cap {"unmarked", "unsaved", "fault", "undone"} = {} =>
        \A r \in Records :
            mem.rec[r] = IF "factory" \in excuses \/ r \in Overwritten \cup Added
                         THEN "factory" ELSE "merged"

\* ... and the calibration is in effect, unless power failed after its flag was
\* removed and before dbmonitor had saved it, or after a reset or a fault.
Calibrated ==
    pc = "serve" /\ ~upd_file /\ excuses \cap {"cut", "reset", "fault", "undone"} = {} => mem.cal

=============================================================================
