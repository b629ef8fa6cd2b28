---------------------------- MODULE CCBootProofs ----------------------------
(***************************************************************************)
(* Wherever an update is interrupted the camera starts, its records are    *)
(* merged and its calibration is in effect, for any records, any number of *)
(* power cuts and of faults.                                               *)
(***************************************************************************)
EXTENDS CCBoot, SequenceTheorems, TLAPS

\* One slot is active.  The other one is written, it is whole when it is
\* switched to, and only then.
SlotInv ==
    /\ active \in {{"a"}, {"b"}} /\ active \subseteq bootable
    /\ \A s \in active : image[s] # "torn"
    /\ DOMAIN image = Slots
    /\ pc = "switch" => image[Target] = "new"

\* sysupd's steps.
LEMMA SysupdKeeps == SlotInv /\ Sysupd => SlotInv'
<1> SUFFICES ASSUME SlotInv, Sysupd PROVE SlotInv'
  OBVIOUS
<1> USE DEF SlotInv, Target, Slots
<1>1. CASE Prepare
  BY <1>1 DEF Prepare
<1>2. CASE SwUpdate
  BY <1>2 DEF SwUpdate
<1>3. CASE Switch
  BY <1>3 DEF Switch
<1>4. CASE Mark
  BY <1>4 DEF Mark, slotVars
<1> QED BY <1>1, <1>2, <1>3, <1>4 DEF Sysupd

\* Nothing else touches the slots, or comes to the switch.
LEMMA OthersLeaveSlots ==
    ASSUME BootNext, ~Sysupd
    PROVE  UNCHANGED slotVars /\ (pc' = "switch" => pc = "switch")
<1>1. Server => UNCHANGED slotVars /\ pc' # "switch"
  BY DEF Server, Boot, Merge, RemoveFlag, ApplyCal, MarkCalDone, MarkMerged, Kill, Reset,
         ServerOnly, AfterCal
<1>2. Monitor => UNCHANGED slotVars /\ pc' = pc
  BY DEF Monitor, OtaWaited, OtaTimedOut, CopyToFlash, MonitorOther, MonitorOnly, serverVars
<1>3. FinishUpdate => UNCHANGED slotVars /\ pc' = pc
  BY DEF FinishUpdate, serverVars
<1>4. \A r \in Records : Fault(r) => UNCHANGED slotVars /\ pc' = pc
  BY DEF Fault
<1>5. PowerOn(AtPowerOn) => UNCHANGED slotVars /\ pc' # "switch"
  BY DEF PowerOn
<1> QED BY <1>1, <1>2, <1>3, <1>4, <1>5 DEF BootNext, PowerCut, Reboot, UserReboots

\* SlotInv holds for ever: run_swupdate only writes the slot that is not active.
THEOREM SlotInvariant == BootSpec => []SlotInv
<1>1. BootInit => SlotInv
  BY BootAssumption DEF BootInit, SlotInv, Slots
<1>2. SlotInv /\ [BootNext]_allVars => SlotInv'
  <2> SUFFICES ASSUME SlotInv, [BootNext]_allVars PROVE SlotInv'
    OBVIOUS
  <2>1. UNCHANGED slotVars /\ (pc' = "switch" => pc = "switch") => SlotInv'
    BY DEF SlotInv, slotVars, Target
  <2>2. UNCHANGED allVars => UNCHANGED slotVars /\ pc' = pc
    BY DEF allVars, serverVars
  <2> QED BY <2>1, <2>2, SysupdKeeps, OthersLeaveSlots
<1> QED BY <1>1, <1>2, PTL DEF BootSpec

\* Bootable: at every point of run_swupdate, and after any power cut, there is an
\* active and bootable slot with a whole image.
THEOREM BootableCorrect == BootSpec => []Bootable
<1>1. SlotInv => Bootable
  BY DEF SlotInv, Bootable
<1> QED BY <1>1, SlotInvariant, PTL

----------------------------------------------------------------------------
(* Types. *)

BootPlaces == {"old", "writing", "switch", "mark", "boot", "merge", "cal", "apply", "merged",
               "cal_done", "serve", "reset", "reboot"}
Excuses == {"cut", "reset", "factory", "unmarked", "unsaved", "fault", "undone"}

\* What is left to merge is an end of the table.
IsRest(s) == \E i \in 0..Len(cmd_table) : s = SubSeq(cmd_table, i + 1, Len(cmd_table))

DataInv ==
    /\ flash \in Content /\ mem \in Content
    /\ src \in Nat /\ dest \in Nat /\ dest <= src /\ calVer \in Nat /\ calVer <= src
FlagInv ==
    /\ update_file \in BOOLEAN /\ cal_done \in BOOLEAN /\ upd_file \in BOOLEAN
    /\ reset_file \in BOOLEAN /\ db_merge_done \in BOOLEAN /\ unsaved \in BOOLEAN
PlaceInv ==
    /\ pc \in BootPlaces /\ excuses \in SUBSET Excuses
    /\ cuts \in 0..MaxCuts /\ faults \in 0..MaxFaults
    /\ active \in SUBSET Slots /\ bootable \in SUBSET Slots
    /\ image \in [Slots -> {"old", "new", "torn"}]
TodoInv ==
    /\ IsRest(todo) /\ todo \in Seq(Records)
    /\ pc = "merge" => todo # <<>>
    /\ pc # "merge" => todo = <<>>

TypeInv == DataInv /\ FlagInv /\ PlaceInv /\ TodoInv

\* The inductive type invariant is BootTypeOK with the types of the parts.
LEMMA TypeParts == TypeInv => BootTypeOK
  BY DEF TypeInv, DataInv, FlagInv, PlaceInv, TodoInv, BootTypeOK, BootPlaces, Excuses, IsRest

\* The table is not empty, and all of it and nothing are ends of it.
LEMMA TableRests ==
    /\ cmd_table \in Seq(Records) /\ cmd_table # <<>> /\ Len(cmd_table) \in Nat
    /\ IsRest(cmd_table) /\ IsRest(<<>>)
<1>1. cmd_table \in Seq(Records) /\ cmd_table # <<>> /\ Len(cmd_table) \in Nat
  <2>1. cmd_table \in Seq(Records) /\ CalRecord \in Records
    BY BootAssumption
  <2>2. Len(cmd_table) \in Nat /\ DOMAIN cmd_table = 1..Len(cmd_table)
    BY <2>1, LenProperties
  <2>3. cmd_table # <<>>
    BY <2>1 DEF Records
  <2> QED BY <2>1, <2>2, <2>3
<1>2. SubSeq(cmd_table, 1, Len(cmd_table)) = cmd_table
  BY <1>1, SubSeqFull
<1>3. SubSeq(cmd_table, Len(cmd_table) + 1, Len(cmd_table)) = <<>>
  BY <1>1, SubSeqEmpty
<1>4. IsRest(cmd_table)
  <2>1. 0 \in 0..Len(cmd_table) /\ 0 + 1 = 1
    BY <1>1
  <2> QED BY <1>2, <2>1 DEF IsRest
<1>5. IsRest(<<>>)
  <2>1. Len(cmd_table) \in 0..Len(cmd_table)
    BY <1>1
  <2> QED BY <1>3, <2>1 DEF IsRest
<1> QED BY <1>1, <1>4, <1>5

\* What follows the first of an end is an end.
LEMMA RestTail ==
    ASSUME NEW s \in Seq(Records), s # <<>>, IsRest(s)
    PROVE  IsRest(Tail(s)) /\ Tail(s) \in Seq(Records) /\ Head(s) \in Records /\ Head(s) = s[1]
           /\ Len(Tail(s)) \in Nat /\ \A i \in 1..Len(s) : i = 1 \/ (i - 1 \in 1..Len(Tail(s)) /\ Tail(s)[i - 1] = s[i])
<1>1. /\ Tail(s) \in Seq(Records) /\ Head(s) \in Records /\ Head(s) = s[1]
      /\ Len(Tail(s)) = Len(s) - 1 /\ Len(s) \in Nat \ {0}
      /\ \A i \in 1..Len(Tail(s)) : Tail(s)[i] = s[i + 1]
  BY HeadTailProperties, EmptySeq
<1>2. PICK i \in 0..Len(cmd_table) : s = SubSeq(cmd_table, i + 1, Len(cmd_table))
  BY DEF IsRest
<1>3. cmd_table \in Seq(Records) /\ Len(cmd_table) \in Nat
  BY TableRests
<1>4. \A j \in 1..Len(cmd_table) : cmd_table[j] \in Records
  BY <1>3, ElementOfSeq
<1> DEFINE n == Len(cmd_table)
           t == SubSeq(cmd_table, i + 1, n)
           u == SubSeq(cmd_table, i + 2, n)
<1>5. /\ t \in Seq(Records) /\ Len(t) = IF i + 1 <= n THEN n - (i + 1) + 1 ELSE 0
      /\ \A j \in 1..(n - (i + 1) + 1) : t[j] = cmd_table[(i + 1) + j - 1]
  <2>1. i + 1 \in Int /\ n \in Int /\ \A j \in (i + 1)..n : cmd_table[j] \in Records
    BY <1>3, <1>4
  <2> QED BY <2>1, SubSeqProperties
<1>6. /\ u \in Seq(Records) /\ Len(u) = IF i + 2 <= n THEN n - (i + 2) + 1 ELSE 0
      /\ \A j \in 1..(n - (i + 2) + 1) : u[j] = cmd_table[(i + 2) + j - 1]
  <2>1. i + 2 \in Int /\ n \in Int /\ \A j \in (i + 2)..n : cmd_table[j] \in Records
    BY <1>3, <1>4
  <2> QED BY <2>1, SubSeqProperties
<1>7. s = t
  BY <1>2
<1> HIDE DEF t, u
<1>8. n \in Nat /\ i \in Nat /\ i + 1 <= n /\ Len(s) = n - i /\ Len(u) = n - i - 1
  BY <1>1, <1>3, <1>5, <1>6, <1>7
<1>9. \A j \in 1..Len(u) : u[j] = Tail(s)[j]
  <2> TAKE j \in 1..Len(u)
  <2>1. u[j] = cmd_table[(i + 2) + j - 1]
    BY <1>6, <1>8
  <2>2. t[j + 1] = cmd_table[(i + 1) + (j + 1) - 1]
    BY <1>5, <1>8
  <2>3. (i + 2) + j - 1 = (i + 1) + (j + 1) - 1
    BY <1>8
  <2>4. Tail(s)[j] = s[j + 1]
    BY <1>1, <1>8
  <2> QED BY <1>7, <2>1, <2>2, <2>3, <2>4
<1>10. Tail(s) = u
  <2>1. Len(Tail(s)) = Len(u)
    BY <1>1, <1>8
  <2> QED BY <1>1, <1>6, <1>9, <2>1, SeqEqual
<1>11. IsRest(Tail(s))
  <2>1. i + 1 \in 0..n /\ (i + 1) + 1 = i + 2
    BY <1>8
  <2>2. u = SubSeq(cmd_table, (i + 1) + 1, n)
    BY <2>1 DEF u
  <2> QED BY <1>10, <2>1, <2>2 DEF IsRest
<1>12. \A j \in 1..Len(s) : j = 1 \/ (j - 1 \in 1..Len(Tail(s)) /\ Tail(s)[j - 1] = s[j])
  <2> TAKE j \in 1..Len(s)
  <2>1. j = 1 \/ (j - 1 \in 1..Len(Tail(s)) /\ (j - 1) + 1 = j)
    BY <1>1
  <2> QED BY <1>1, <2>1
<1> QED BY <1>1, <1>11, <1>12

----------------------------------------------------------------------------
(* The merge. *)

OldPlaces == {"old", "writing", "switch", "mark"}
OldValue(r) == IF r \in Added THEN "none" ELSE "old"

\* What a record is in the end, and what it may be before.
Final(r) == IF "factory" \in excuses \/ r \in Overwritten \cup Added THEN "factory" ELSE "merged"
Either(r) == {Final(r)} \cup IF "factory" \in excuses THEN {} ELSE {OldValue(r)}

MemSettled   == \A r \in Records : mem.rec[r] = Final(r)
FlashSettled == \A r \in Records : flash.rec[r] = Final(r)

\* No record has gone bad but by the update's own fault.
Good == excuses \cap {"unmarked", "unsaved", "fault"} = {}

\* Under the old firmware nothing is merged, and whoever switched has marked;
\* the new one is not left again.
FirmwareInv ==
    /\ pc \in OldPlaces =>
         /\ "factory" \notin excuses /\ ~db_merge_done /\ ~reset_file
         /\ \A r \in Records : mem.rec[r] = OldValue(r) /\ flash.rec[r] = OldValue(r)
         /\ \A s \in active : image[s] = "new" => update_file \/ pc = "mark"
    /\ pc \notin OldPlaces => \A s \in active : image[s] = "new"

\* A reset is for a bad record, and dbmonitor is past its first copy then.
ResetInv ==
    /\ back # "ota"
    /\ pc \in {"reset", "reboot"} => main # "ota" /\ ~Good
    /\ reset_file => pc = "reboot"
    /\ pc = "reboot" => reset_file \/ "undone" \in excuses \/ flash = Factory
    /\ "undone" \in excuses => ~Good

\* The records at each place of the merge, in memory and in flash: the mark of the
\* update stays until both are settled.
MergeInv ==
    /\ db_merge_done => pc \notin {"boot", "merge"}
    /\ Good /\ pc \notin OldPlaces =>
         /\ \A r \in Records : mem.rec[r] \in Either(r) /\ flash.rec[r] \in Either(r)
         /\ pc = "merge" => \A r \in Records : (\E i \in 1..Len(todo) : todo[i] = r) \/ mem.rec[r] = Final(r)
         /\ pc \notin {"boot", "merge"} => MemSettled
         /\ ~update_file => MemSettled /\ FlashSettled
         /\ update_file /\ main # "ota" /\ ~unsaved => db_merge_done /\ FlashSettled

\* The calibration: nothing takes it out of effect that is not an excuse.
NoExcuse == excuses \cap {"cut", "reset", "fault", "undone"} = {}
CalDue == ~upd_file /\ cal_done /\ ~update_file
CalInv ==
    /\ "fault" \notin excuses =>
         mem.rec[CalRecord] \notin {"none", "corrupt"} /\ flash.rec[CalRecord] \notin {"none", "corrupt"}
    /\ pc \in OldPlaces => mem.cal = flash.cal /\ flash.cal = (cal_done /\ ~upd_file) /\ calVer = 0
    /\ db_merge_done \/ pc \in {"merged", "cal_done"} => calVer > 0 \/ "fault" \in excuses
    /\ pc \in {"boot", "merge", "cal"} => calVer = 0
    /\ pc = "merge" => update_file
    /\ pc \in {"apply", "serve", "merged", "cal_done"} => ~upd_file
    /\ pc # "reboot" /\ NoExcuse =>
         /\ calVer > 0 => mem.cal
         /\ calVer > 0 /\ dest >= calVer => flash.cal
         /\ CalDue => flash.cal \/ dest < calVer \/ pc = "apply"
         /\ CalDue /\ pc \in {"boot", "cal"} => mem.cal
         /\ pc \in {"serve", "merged", "cal_done", "reset"} => mem.cal

----------------------------------------------------------------------------
\* What dbmonitor's steps do to the two data bases.  The first copy is after the
\* merge, or counts as unsaved; a later one may come after a reset.
LEMMA MonitorSteps ==
    ASSUME TypeInv, Monitor
    PROVE  /\ UNCHANGED <<slotVars, usrdata, serverVars, budget, calVer, src>>
           /\ back # "ota" => back' # "ota" /\ (main' = "ota" => main = "ota")
           /\ \/ /\ UNCHANGED <<flash, dest, unsaved, excuses>>
                 /\ back # "ota" => (main = "ota" => main' = "ota")
              \/ /\ main = "ota" /\ unsaved' = TRUE /\ UNCHANGED excuses
                 /\ UNCHANGED <<flash, dest>> \/ (flash' = mem /\ dest' = src)
              \/ /\ main = "ota" /\ db_merge_done /\ unsaved' = FALSE /\ UNCHANGED excuses
                 /\ flash' = mem /\ dest' = src
              \/ /\ flash' = mem /\ dest' = src /\ UNCHANGED <<unsaved, main>>
                 /\ excuses' = IF pc = "reboot" THEN excuses \cup {"undone"} ELSE excuses
<1> USE DEF MonitorOnly
<1>1. CASE OtaWaited
  <2>1. UNCHANGED <<src, excuses, back>> /\ db_merge_done /\ (dest' = dest \/ dest' = src)
        /\ main = "ota" /\ main' = "start"
    BY <1>1 DEF OtaWaited, WaitMerged, Ota, writerVars
  <2>2. CASE dest' = src
    BY <1>1, <2>1, <2>2 DEF OtaWaited
  <2>3. CASE dest' # src
    BY <1>1, <2>1, <2>3 DEF OtaWaited
  <2> QED BY <2>2, <2>3
<1>2. CASE OtaTimedOut
  <2>1. UNCHANGED <<src, excuses, back>> /\ (dest' = dest \/ dest' = src) /\ unsaved' = TRUE
        /\ main = "ota" /\ main' = "start"
    BY <1>2 DEF OtaTimedOut, Ota, writerVars
  <2>2. CASE dest' = src
    BY <1>2, <2>1, <2>2 DEF OtaTimedOut
  <2>3. CASE dest' # src
    BY <1>2, <2>1, <2>3 DEF OtaTimedOut
  <2> QED BY <2>2, <2>3
<1>3. CASE CopyToFlash
  BY <1>3 DEF CopyToFlash, Copy, writerVars
<1>4. CASE MonitorOther
  <2>1. /\ UNCHANGED <<src, dest>> /\ back' = back
        /\ back # "ota" => (main = "ota" <=> main' = "ota")
    BY <1>4 DEF MonitorOther, Watch, CreateThread, EpollReturns, ReadEvent, HandlerReturns, End,
       Wait, SemWait, Again, CopyUnopened, CopyFails, Copied, Check, writerVars
  <2> QED BY <1>4, <2>1 DEF MonitorOther
<1> QED BY <1>1, <1>2, <1>3, <1>4 DEF Monitor

\* What a boot begins with.
LEMMA PowerOnBegins ==
    ASSUME TypeInv, PowerOn(AtPowerOn)
    PROVE  /\ mem' = AtPowerOn /\ flash' = AtPowerOn /\ AtPowerOn \in Content
           /\ ~reset_file' /\ ~db_merge_done' /\ todo' = <<>> /\ src' = 0 /\ dest' = 0
           /\ calVer' = 0 /\ ~unsaved' /\ back' = "none" /\ (update_file => main' = "ota")
           /\ main' \in {"ota", "start"}
           /\ UNCHANGED <<slotVars, update_file, cal_done, upd_file, faults>>
           /\ \E s \in active : pc' = IF image[s] = "new" THEN "boot" ELSE "old"
<1>1. AtPowerOn \in Content
  BY DEF AtPowerOn, Factory, Content, TypeInv, DataInv
<1> QED BY <1>1 DEF PowerOn

\* What a statement of the server writes.
LEMMA StoreWrites ==
    ASSUME NEW c \in Content, Store(c)
    PROVE  mem' = c /\ src' = src + 1 /\ UNCHANGED <<dest, main, back>>
BY DEF Store, threadVars

\* merge_db_record writes one record of a data base.
LEMMA MergeOneType ==
    ASSUME TypeInv, NEW r \in Records
    PROVE  /\ MergeOne(r) \in Content
           /\ MergeOne(r).rec = [mem.rec EXCEPT ![r] = IF r \in Overwritten THEN "factory"
                                                      ELSE MergedRecord(@)]
<1>1. mem \in Content
  BY DEF TypeInv, DataInv
<1>2. mem.rec \in [Records -> {"none", "old", "merged", "factory", "corrupt"}] /\ mem.cal \in BOOLEAN
  BY <1>1 DEF Content
<1>3. MergedRecord(mem.rec[r]) \in {"none", "old", "merged", "factory", "corrupt"}
  BY <1>2 DEF MergedRecord
<1>4. CASE r \in Overwritten
  BY <1>1, <1>2, <1>4 DEF MergeOne, Content
<1>5. CASE r \notin Overwritten
  BY <1>1, <1>2, <1>3, <1>5 DEF MergeOne, Content
<1> QED BY <1>4, <1>5

\* The types hold at first.
LEMMA TypeInitially == BootInit => TypeInv
<1> SUFFICES ASSUME BootInit PROVE TypeInv
  OBVIOUS
<1>1. OldContent \in Content /\ NewContent \in Content
  <2>1. cal_done \in BOOLEAN /\ upd_file \in BOOLEAN
    BY DEF BootInit
  <2>2. (cal_done /\ ~upd_file) \in BOOLEAN
    BY <2>1
  <2> QED BY <2>2 DEF OldContent, NewContent, Content
<1>2. mem \in Content /\ flash \in Content
  BY <1>1 DEF BootInit
<1>3. DataInv
  BY <1>2 DEF BootInit, Init, DataInv
<1>4. FlagInv
  BY DEF BootInit, FlagInv
<1>5. image \in [Slots -> {"old", "new", "torn"}] /\ active \in SUBSET Slots /\ bootable = Slots
  BY BootAssumption DEF BootInit
<1>6. PlaceInv
  BY <1>5, BootAssumption DEF BootInit, PlaceInv, BootPlaces
<1>7. TodoInv
  <2>1. todo = <<>> /\ pc # "merge" /\ <<>> \in Seq(Records)
    BY DEF BootInit
  <2> QED BY <2>1, TableRests DEF TodoInv
<1> QED BY <1>3, <1>4, <1>6, <1>7 DEF TypeInv

\* Every step keeps them.
LEMMA TypeKept ==
    ASSUME TypeInv, BootNext
    PROVE  TypeInv'
<1>0. DataInv /\ FlagInv /\ PlaceInv /\ TodoInv
  BY DEF TypeInv
<1>q. ASSUME UNCHANGED <<flash, mem, src, dest, calVer, todo>>, FlagInv', PlaceInv', pc # "merge", pc' # "merge"
      PROVE  TypeInv'
  BY <1>0, <1>q DEF TypeInv, DataInv, TodoInv
<1>1. CASE Sysupd
  <2> USE <1>0, <1>1 DEF Sysupd, Prepare, SwUpdate, Switch, Mark, slotVars, usrdata, budget, bootGhosts, vars
  <2>1. UNCHANGED <<flash, mem, src, dest, calVer, todo>> /\ pc # "merge" /\ pc' # "merge"
    OBVIOUS
  <2>2. FlagInv'
    BY DEF FlagInv
  <2>3. PlaceInv'
    BY DEF PlaceInv, BootPlaces, Target, Slots
  <2> QED BY <2>1, <2>2, <2>3, <1>q
<1>2. CASE Boot
  <2>1. DataInv' /\ FlagInv' /\ PlaceInv'
    BY <1>0, <1>2 DEF Boot, ServerOnly, slotVars, usrdata, budget, bootGhosts, vars, DataInv, FlagInv,
       PlaceInv, BootPlaces
  <2>2. TodoInv'
    BY <1>0, <1>2, TableRests DEF Boot, TodoInv
  <2> QED BY <2>1, <2>2 DEF TypeInv
<1>3. CASE Merge
  <2>1. pc = "merge" /\ todo # <<>> /\ todo \in Seq(Records) /\ IsRest(todo)
    BY <1>0, <1>3 DEF Merge, TodoInv
  <2>2. Head(todo) \in Records /\ IsRest(Tail(todo)) /\ Tail(todo) \in Seq(Records)
    BY <2>1, RestTail
  <2>3. TodoInv' /\ pc' \in {"cal", "merge"}
    BY <1>3, <2>2 DEF Merge, TodoInv
  <2>4. DataInv'
    <3>1. CASE UNCHANGED <<vars, mem>>
      BY <1>0, <1>3, <3>1 DEF Merge, vars, bootGhosts, ServerOnly, DataInv
    <3>2. CASE Store(MergeOne(Head(todo)))
      <4>1. MergeOne(Head(todo)) \in Content
        BY <2>2, MergeOneType
      <4>2. mem' \in Content /\ src' = src + 1 /\ dest' = dest
        BY <3>2, <4>1, StoreWrites
      <4>3. UNCHANGED <<flash, calVer>>
        BY <1>3 DEF Merge, bootGhosts, ServerOnly
      <4> QED BY <1>0, <4>2, <4>3 DEF DataInv
    <3> QED BY <1>3, <3>1, <3>2 DEF Merge
  <2>5. FlagInv' /\ PlaceInv'
    BY <1>0, <1>3, <2>3 DEF Merge, ServerOnly, slotVars, usrdata, budget, bootGhosts, FlagInv,
       PlaceInv, BootPlaces
  <2> QED BY <2>3, <2>4, <2>5 DEF TypeInv
<1>4. CASE RemoveFlag
  BY <1>0, <1>4, <1>q DEF RemoveFlag, ServerOnly, slotVars, usrdata, budget, bootGhosts, vars,
     FlagInv, PlaceInv, BootPlaces, AfterCal
<1>5. CASE ApplyCal
  <2>1. FlagInv' /\ PlaceInv' /\ TodoInv'
    BY <1>0, <1>5 DEF ApplyCal, ServerOnly, slotVars, usrdata, budget, bootGhosts, vars,
     FlagInv, PlaceInv, BootPlaces, TodoInv, AfterCal
  <2>2. DataInv'
    <3>1. [mem EXCEPT !.cal = TRUE] \in Content
      BY <1>0 DEF DataInv, Content
    <3>2. CASE CalRecord \in Bad(mem)
      BY <1>0, <1>5, <3>2 DEF ApplyCal, ServerOnly, vars, DataInv
    <3>3. CASE CalRecord \notin Bad(mem)
      <4>1. Store([mem EXCEPT !.cal = TRUE]) /\ calVer' = src' /\ flash' = flash
        BY <1>5, <3>3 DEF ApplyCal, ServerOnly
      <4> QED BY <1>0, <3>1, <4>1, StoreWrites DEF DataInv
    <3> QED BY <3>2, <3>3
  <2> QED BY <2>1, <2>2 DEF TypeInv
<1>6. CASE MarkCalDone \/ MarkMerged
  BY <1>0, <1>6, <1>q DEF MarkCalDone, MarkMerged, ServerOnly, slotVars, usrdata, budget, bootGhosts,
     vars, FlagInv, PlaceInv, BootPlaces
<1>7. CASE Kill
  <2>1. UNCHANGED <<src, dest>>
    BY <1>7 DEF Kill, Signal, writerVars
  <2> QED BY <1>0, <1>7, <2>1, <1>q DEF Kill, slotVars, usrdata, budget, bootGhosts,
     FlagInv, PlaceInv, BootPlaces
<1>8. CASE Reset
  <2>1. FlagInv' /\ PlaceInv' /\ TodoInv'
    BY <1>0, <1>8 DEF Reset, slotVars, budget, FlagInv, PlaceInv, TodoInv, BootPlaces
  <2>2. Factory \in Content
    BY DEF Factory, Content
  <2>3. DataInv'
    BY <1>0, <1>8, <2>2 DEF Reset, DataInv, vars
  <2> QED BY <2>1, <2>3 DEF TypeInv
<1>9. CASE Monitor
  <2>1. DataInv'
    <3>1. UNCHANGED <<mem, src, calVer>>
          /\ (UNCHANGED <<flash, dest>> \/ (flash' = mem /\ dest' = src))
      BY <1>9, MonitorSteps DEF serverVars
    <3> QED BY <1>0, <3>1 DEF DataInv
  <2>2. FlagInv' /\ PlaceInv' /\ TodoInv'
    <3>1. UNCHANGED <<slotVars, usrdata, serverVars, budget>> /\ unsaved' \in BOOLEAN
          /\ (excuses' = excuses \/ excuses' = excuses \cup {"undone"})
      BY <1>0, <1>9, MonitorSteps DEF FlagInv
    <3> QED BY <1>0, <3>1 DEF slotVars, usrdata, serverVars, budget, FlagInv, PlaceInv, TodoInv, Excuses
  <2> QED BY <2>1, <2>2 DEF TypeInv
<1>10. CASE FinishUpdate
  <2>1. FlagInv' /\ PlaceInv' /\ TodoInv' /\ DataInv'
    BY <1>0, <1>10 DEF FinishUpdate, vars, slotVars, serverVars, budget, FlagInv, PlaceInv, TodoInv,
       DataInv, Excuses
  <2> QED BY <2>1 DEF TypeInv
<1>11. ASSUME NEW r \in Records, Fault(r) PROVE TypeInv'
  <2>1. [mem EXCEPT !.rec[r] = "corrupt"] \in Content
    BY <1>0 DEF DataInv, Content
  <2>2. DataInv'
    <3>1. Store([mem EXCEPT !.rec[r] = "corrupt"]) /\ UNCHANGED <<flash, calVer>>
      BY <1>11 DEF Fault
    <3> QED BY <1>0, <2>1, <3>1, StoreWrites DEF DataInv
  <2>3. FlagInv' /\ PlaceInv' /\ TodoInv'
    BY <1>0, <1>11, BootAssumption DEF Fault, slotVars, usrdata, FlagInv, PlaceInv, TodoInv, Excuses
  <2> QED BY <2>2, <2>3 DEF TypeInv
<1>12. ASSUME PowerOn(AtPowerOn), cuts' \in 0..MaxCuts, excuses' \in SUBSET Excuses PROVE TypeInv'
  <2>1. DataInv'
    BY <1>12, PowerOnBegins DEF DataInv
  <2>2. FlagInv'
    BY <1>0, <1>12, PowerOnBegins DEF FlagInv, PowerOn
  <2>3. pc' \in {"boot", "old"}
    BY <1>12, PowerOnBegins
  <2>4. PlaceInv'
    BY <1>0, <1>12, <2>3, PowerOnBegins DEF PlaceInv, slotVars, BootPlaces
  <2>5. TodoInv'
    <3>1. todo' = <<>> /\ <<>> \in Seq(Records)
      BY <1>12, PowerOnBegins
    <3> QED BY <2>3, <3>1, TableRests DEF TodoInv
  <2> QED BY <2>1, <2>2, <2>4, <2>5 DEF TypeInv
<1>13. CASE PowerCut \/ Reboot \/ UserReboots
  <2>1. Lost \in SUBSET Excuses
    BY DEF Lost, Excuses
  <2>2. excuses' \in SUBSET Excuses
    BY <1>0, <1>13, <2>1 DEF PowerCut, Reboot, UserReboots, PlaceInv, Excuses
  <2>3. cuts' \in 0..MaxCuts
    BY <1>0, <1>13, BootAssumption DEF PowerCut, Reboot, UserReboots, PlaceInv
  <2> QED BY <1>12, <1>13, <2>2, <2>3 DEF PowerCut, Reboot, UserReboots
<1> QED BY <1>1, <1>2, <1>3, <1>4, <1>5, <1>6, <1>7, <1>8, <1>9, <1>10, <1>11, <1>13 DEF BootNext, Server

\* Every state has its type.
THEOREM TypeCorrect == BootSpec => []BootTypeOK
<1>1. TypeInv /\ [BootNext]_allVars => TypeInv'
  <2> SUFFICES ASSUME TypeInv, UNCHANGED allVars PROVE TypeInv'
    BY TypeKept
  <2> QED BY DEF allVars, vars, slotVars, usrdata, serverVars, budget, bootGhosts, TypeInv, DataInv,
       FlagInv, PlaceInv, TodoInv
<1> QED BY <1>1, TypeInitially, TypeParts, PTL DEF BootSpec

----------------------------------------------------------------------------
\* Which firmware runs, and what that says of the data base.
LEMMA FirmwareKept ==
    ASSUME TypeInv, SlotInv, FirmwareInv, ResetInv, BootNext
    PROVE  FirmwareInv'
<1>1. CASE Sysupd
  BY <1>1 DEF SlotInv, Target, Slots, FirmwareInv, OldPlaces, Sysupd, Prepare, SwUpdate, Switch, Mark,
     slotVars, usrdata, bootGhosts
<1>2. CASE Server
  <2>1. pc \notin OldPlaces /\ pc' \notin OldPlaces
    BY <1>2 DEF Server, Boot, Merge, RemoveFlag, ApplyCal, MarkCalDone, MarkMerged, Kill, Reset,
       AfterCal, OldPlaces
  <2>2. UNCHANGED slotVars
    BY <1>2 DEF Server, Boot, Merge, RemoveFlag, ApplyCal, MarkCalDone, MarkMerged, Kill, Reset,
       ServerOnly
  <2> QED BY <2>1, <2>2 DEF FirmwareInv, slotVars
<1>3. CASE Monitor
  <2>1. /\ UNCHANGED <<slotVars, usrdata, serverVars>> /\ (flash' = flash \/ flash' = mem)
        /\ "factory" \in excuses' => "factory" \in excuses
    BY <1>3, MonitorSteps
  <2> QED BY <2>1 DEF FirmwareInv, slotVars, usrdata, serverVars
<1>4. CASE FinishUpdate
  BY <1>4 DEF FinishUpdate, FirmwareInv, slotVars, serverVars
<1>5. ASSUME NEW r \in Records, Fault(r) PROVE FirmwareInv'
  BY <1>5 DEF Fault, FirmwareInv, slotVars, OldPlaces
<1>6. ASSUME PowerOn(AtPowerOn), pc # "reboot", "factory" \in excuses' => "factory" \in excuses
      PROVE  FirmwareInv'
  <2>1. PICK s \in active : pc' = IF image[s] = "new" THEN "boot" ELSE "old"
    BY <1>6, PowerOnBegins
  <2>2. active = {s}
    BY <2>1 DEF SlotInv
  <2>3. AtPowerOn = flash
    BY <1>6 DEF ResetInv, AtPowerOn
  <2>4. UNCHANGED slotVars /\ mem' = flash /\ flash' = flash /\ ~db_merge_done' /\ ~reset_file'
    BY <1>6, <2>3, PowerOnBegins
  <2>5. CASE image[s] = "new"
    BY <2>1, <2>2, <2>4, <2>5 DEF FirmwareInv, OldPlaces, slotVars
  <2>6. CASE image[s] # "new"
    BY <1>6, <2>1, <2>2, <2>4, <2>6 DEF FirmwareInv, OldPlaces, slotVars
  <2> QED BY <2>5, <2>6
<1>7. CASE Reboot
  <2>1. pc = "reboot" /\ PowerOn(AtPowerOn)
    BY <1>7 DEF Reboot
  <2>2. \A s \in active : image[s] = "new"
    BY <2>1 DEF FirmwareInv, OldPlaces
  <2>3. pc' = "boot" /\ UNCHANGED slotVars
    BY <2>1, <2>2, PowerOnBegins
  <2> QED BY <2>2, <2>3 DEF FirmwareInv, OldPlaces, slotVars
<1>8. CASE PowerCut \/ UserReboots
  BY <1>6, <1>8 DEF PowerCut, UserReboots, Lost
<1> QED BY <1>1, <1>2, <1>3, <1>4, <1>5, <1>7, <1>8 DEF BootNext

\* A server that resets has found a bad record, and so has not merged well.
LEMMA ResetKept ==
    ASSUME TypeInv, FirmwareInv, ResetInv, MergeInv, BootNext
    PROVE  ResetInv'
<1>1. CASE Sysupd
  BY <1>1 DEF ResetInv, Sysupd, Prepare, SwUpdate, Switch, Mark, Good, usrdata, bootGhosts, vars
<1>2. CASE Boot \/ RemoveFlag \/ MarkCalDone \/ MarkMerged
  BY <1>2 DEF ResetInv, Boot, RemoveFlag, MarkCalDone, MarkMerged, Good, AfterCal, ServerOnly,
     bootGhosts, vars
<1>3. CASE Merge \/ ApplyCal
  <2>1. UNCHANGED <<main, back, reset_file>> /\ pc \notin {"reset", "reboot"} /\ pc' \notin {"reset", "reboot"}
    BY <1>3 DEF Merge, ApplyCal, Store, ServerOnly, vars, AfterCal
  <2>2. (Good' <=> Good) /\ ("undone" \in excuses' <=> "undone" \in excuses)
    BY <1>3 DEF Merge, ApplyCal, bootGhosts, Good
  <2> QED BY <2>1, <2>2 DEF ResetInv
<1>4. CASE Kill
  <2>1. pc = "serve" /\ pc' = "reset" /\ UNCHANGED <<excuses, reset_file>>
    BY <1>4 DEF Kill, usrdata, bootGhosts
  <2>2. back' # "ota" /\ main' # "ota"
    BY <1>4 DEF Kill, Signal, ResetInv
  <2>3. ~Good
    <3>1. PICK r \in Records : mem.rec[r] \in {"none", "corrupt"}
      BY <1>4 DEF Kill, Bad
    <3> SUFFICES ASSUME Good PROVE FALSE
      OBVIOUS
    <3>2. mem.rec[r] = Final(r)
      BY <2>1 DEF MergeInv, MemSettled, OldPlaces
    <3> QED BY <3>1, <3>2 DEF Final
  <2> QED BY <2>1, <2>2, <2>3 DEF ResetInv, Good
<1>5. CASE Reset
  BY <1>5 DEF Reset, ResetInv, Good, vars
<1>6. CASE Monitor
  <2>1. /\ UNCHANGED <<pc, reset_file>> /\ back' # "ota" /\ (main' = "ota" => main = "ota")
        /\ Good' <=> Good
    BY <1>6, MonitorSteps DEF ResetInv, serverVars, usrdata, Good
  <2>2. \/ flash' = flash /\ excuses' = excuses
        \/ main = "ota" /\ excuses' = excuses
        \/ excuses' = IF pc = "reboot" THEN excuses \cup {"undone"} ELSE excuses
    BY <1>6, MonitorSteps DEF ResetInv
  <2> QED BY <2>1, <2>2 DEF ResetInv
<1>7. CASE FinishUpdate
  <2>1. UNCHANGED <<pc, reset_file, main, back, flash>>
    BY <1>7 DEF FinishUpdate, vars, serverVars
  <2>2. (Good' => Good) /\ ("undone" \in excuses' <=> "undone" \in excuses)
    BY <1>7 DEF FinishUpdate, Good
  <2> QED BY <2>1, <2>2 DEF ResetInv
<1>8. ASSUME NEW r \in Records, Fault(r) PROVE ResetInv'
  BY <1>8 DEF Fault, Store, ResetInv, Good, usrdata
<1>9. ASSUME PowerOn(AtPowerOn), "undone" \in excuses' => ~Good' PROVE ResetInv'
  <2>1. pc' \in {"boot", "old"} /\ ~reset_file' /\ back' = "none"
    BY <1>9, PowerOnBegins
  <2> QED BY <1>9, <2>1 DEF ResetInv
<1>10. CASE PowerCut \/ Reboot \/ UserReboots
  <2>1. "undone" \in excuses' => ~Good'
    BY <1>10 DEF PowerCut, Reboot, UserReboots, ResetInv, Lost, Good
  <2> QED BY <1>9, <1>10, <2>1 DEF PowerCut, Reboot, UserReboots
<1> QED BY <1>1, <1>2, <1>3, <1>4, <1>5, <1>6, <1>7, <1>8, <1>10 DEF BootNext, Server

\* The order of the merge, and that its end is in flash when the mark goes.
LEMMA MergeKept ==
    ASSUME TypeInv, SlotInv, FirmwareInv, ResetInv, MergeInv, BootNext, FirmwareInv', ResetInv'
    PROVE  MergeInv'
<1> DEFINE Rest == /\ mem.rec = mem'.rec /\ flash' = flash /\ excuses' = excuses
                   /\ UNCHANGED <<update_file, unsaved>> /\ (main' = "ota" <=> main = "ota")
<1>a. ASSUME Rest, pc \notin OldPlaces, pc \notin {"boot", "merge"}, pc' \notin {"boot", "merge"},
             db_merge_done => db_merge_done'
      PROVE  MergeInv'
  BY <1>a DEF MergeInv, Good, Either, Final, MemSettled, FlashSettled
<1>1. CASE Sysupd
  <2>1. pc' \in OldPlaces
    BY <1>1 DEF OldPlaces, Sysupd, Prepare, SwUpdate, Switch, Mark
  <2> QED BY <2>1 DEF MergeInv, FirmwareInv, OldPlaces
<1>2. CASE Boot
  <2>1. /\ pc = "boot" /\ ~db_merge_done /\ ~db_merge_done' /\ pc \notin OldPlaces
        /\ UNCHANGED <<mem, flash, excuses, update_file, unsaved, main>>
    BY <1>2 DEF Boot, MergeInv, ServerOnly, usrdata, vars, bootGhosts, OldPlaces
  <2>2. CASE update_file
    <3>1. pc' = "merge" /\ todo' = cmd_table
      BY <1>2, <2>2 DEF Boot
    <3>2. \A r \in Records : \E i \in 1..Len(todo') : todo'[i] = r
      <4>1. DOMAIN cmd_table = 1..Len(cmd_table)
        BY TableRests, LenProperties
      <4> QED BY <3>1, <4>1 DEF Records
    <3> QED BY <2>1, <2>2, <3>1, <3>2 DEF MergeInv, Good, Either, Final, MemSettled, FlashSettled
  <2>3. CASE ~update_file
    <3>1. pc' = "cal"
      BY <1>2, <2>3 DEF Boot
    <3> QED BY <2>1, <2>3, <3>1 DEF MergeInv, Good, Either, Final, MemSettled, FlashSettled
  <2> QED BY <2>2, <2>3
<1>3. CASE Merge
  <2>1. /\ pc = "merge" /\ ~db_merge_done /\ pc \notin OldPlaces
        /\ UNCHANGED <<db_merge_done, flash, excuses, update_file, unsaved, main>>
    BY <1>3 DEF Merge, Store, MergeInv, ServerOnly, usrdata, vars, bootGhosts, OldPlaces
  <2>2. todo # <<>> /\ todo \in Seq(Records) /\ IsRest(todo)
    BY <2>1 DEF TypeInv, TodoInv
  <2> DEFINE r == Head(todo)
  <2>3. /\ r \in Records /\ todo' = Tail(todo) /\ Len(Tail(todo)) \in Nat /\ r = todo[1]
        /\ \A i \in 1..Len(todo) : i = 1 \/ (i - 1 \in 1..Len(Tail(todo)) /\ Tail(todo)[i - 1] = todo[i])
    BY <1>3, <2>2, RestTail DEF Merge
  <2>4. SUFFICES ASSUME Good PROVE MergeInv'
    BY <1>3, <2>1, <2>2 DEF MergeInv, Good, Merge
  <2> HIDE DEF r
  <2>5. mem'.rec = [mem.rec EXCEPT ![r] = Final(r)]
    <3>1. mem.rec \in [Records -> {"none", "old", "merged", "factory", "corrupt"}]
      BY DEF TypeInv, DataInv, Content
    <3>2. mem.rec[r] \in Either(r)
      BY <2>1, <2>3, <2>4 DEF MergeInv
    <3>3. mem.rec[r] # "corrupt"
      BY <3>2 DEF Either, Final, OldValue
    <3>4. Store(MergeOne(r))
      BY <1>3, <3>3 DEF Merge, r
    <3>5. mem'.rec = [mem.rec EXCEPT ![r] = IF r \in Overwritten THEN "factory" ELSE MergedRecord(@)]
      BY <2>3, <3>4, MergeOneType, StoreWrites
    <3>6. (IF r \in Overwritten THEN "factory" ELSE MergedRecord(mem.rec[r])) = Final(r)
      BY <3>2 DEF Either, Final, OldValue, MergedRecord
    <3> QED BY <3>1, <3>5, <3>6
  <2>6. /\ \A q \in Records : mem'.rec[q] = IF q = r THEN Final(r) ELSE mem.rec[q]
    BY <2>3, <2>5 DEF TypeInv, DataInv, Content
  <2>7. \A q \in Records : (\E i \in 1..Len(todo') : todo'[i] = q) \/ mem'.rec[q] = Final(q)
    <3> TAKE q \in Records
    <3>1. CASE q = r
      BY <2>6, <3>1
    <3>2. CASE q # r /\ mem.rec[q] = Final(q)
      BY <2>6, <3>2
    <3>3. ASSUME q # r, NEW i \in 1..Len(todo), todo[i] = q
          PROVE  \E j \in 1..Len(todo') : todo'[j] = q
      BY <2>3, <3>3
    <3> QED BY <2>1, <2>4, <3>1, <3>2, <3>3 DEF MergeInv
  <2>8. \A q \in Records : Final(q)' = Final(q) /\ Either(q)' = Either(q)
    BY <2>1 DEF Final, Either
  <2>9. \A q \in Records : mem'.rec[q] \in Either(q) /\ flash'.rec[q] \in Either(q)
    BY <2>1, <2>4, <2>6 DEF MergeInv, Either
  <2>10. pc' = "cal" => \A q \in Records : mem'.rec[q] = Final(q)
    <3>1. pc' = "cal" => todo' = <<>>
      BY <1>3 DEF Merge
    <3>2. Len(<<>>) = 0
      OBVIOUS
    <3> QED BY <2>7, <3>1, <3>2
  <2>11. ~update_file => (\A q \in Records : mem'.rec[q] = Final(q)) /\ FlashSettled
    BY <2>1, <2>4, <2>6 DEF MergeInv, MemSettled
  <2>12. ~(update_file /\ main # "ota" /\ ~unsaved)
    BY <2>1, <2>4 DEF MergeInv
  <2>13. pc' \in {"cal", "merge"}
    BY <1>3 DEF Merge
  <2> QED BY <2>1, <2>7, <2>8, <2>9, <2>10, <2>11, <2>12, <2>13
          DEF MergeInv, MemSettled, FlashSettled
<1>4. CASE RemoveFlag
  BY <1>4, <1>a DEF RemoveFlag, ServerOnly, usrdata, bootGhosts, vars, AfterCal, OldPlaces
<1>5. CASE ApplyCal
  <2>1. mem'.rec = mem.rec /\ main' = main
    <3>1. mem \in Content
      BY DEF TypeInv, DataInv
    <3>2. [mem EXCEPT !.cal = TRUE].rec = mem.rec
      BY <3>1 DEF Content
    <3> QED BY <1>5, <3>2 DEF ApplyCal, Store, vars
  <2>2. /\ pc = "apply" /\ pc' \notin {"boot", "merge"} /\ UNCHANGED <<flash, update_file, unsaved, db_merge_done>>
    BY <1>5 DEF ApplyCal, ServerOnly, usrdata, AfterCal
  <2>3. (Good' <=> Good) /\ ("factory" \in excuses' <=> "factory" \in excuses)
    BY <1>5 DEF ApplyCal, Good
  <2> QED BY <2>1, <2>2, <2>3 DEF MergeInv, Either, Final, MemSettled, FlashSettled, OldPlaces
<1>6. CASE MarkCalDone \/ MarkMerged
  BY <1>6, <1>a DEF MarkCalDone, MarkMerged, ServerOnly, usrdata, bootGhosts, vars, OldPlaces
<1>7. CASE Kill \/ Reset
  <2>1. pc' \in {"reset", "reboot"}
    BY <1>7 DEF Kill, Reset
  <2> QED BY <2>1 DEF MergeInv, ResetInv
<1>8. CASE Monitor
  <2>1. /\ UNCHANGED <<pc, mem, todo, db_merge_done, update_file>> /\ (main' = "ota" => main = "ota")
        /\ (Good' <=> Good) /\ ("factory" \in excuses' <=> "factory" \in excuses)
        /\ \/ UNCHANGED <<flash, unsaved>> /\ (main = "ota" => main' = "ota")
           \/ unsaved' = TRUE /\ (flash' = flash \/ flash' = mem)
           \/ unsaved' = FALSE /\ flash' = mem /\ db_merge_done
           \/ flash' = mem /\ UNCHANGED <<main, unsaved>>
    BY <1>8, MonitorSteps DEF ResetInv, serverVars, usrdata, Good
  <2> QED BY <2>1 DEF MergeInv, Either, Final, MemSettled, FlashSettled
<1>9. CASE FinishUpdate
  <2>1. /\ UNCHANGED <<pc, mem, flash, todo, db_merge_done, unsaved, main>>
        /\ update_file /\ db_merge_done /\ main # "ota" /\ ~update_file'
    BY <1>9 DEF FinishUpdate, vars, serverVars
  <2>2. ("factory" \in excuses' <=> "factory" \in excuses) /\ (Good' => Good /\ ~unsaved)
    BY <1>9 DEF FinishUpdate, Good
  <2>3. pc \notin OldPlaces /\ pc \notin {"boot", "merge"}
    BY <2>1 DEF FirmwareInv, MergeInv
  <2> QED BY <2>1, <2>2, <2>3 DEF MergeInv, Either, Final, MemSettled, FlashSettled
<1>10. ASSUME NEW r \in Records, Fault(r) PROVE MergeInv'
  <2>1. ~Good' /\ pc' = "serve"
    BY <1>10 DEF Fault, Good
  <2> QED BY <2>1 DEF MergeInv
<1>11. ASSUME PowerOn(AtPowerOn),
              Good' /\ pc' = "boot" => \A r \in Records : AtPowerOn.rec[r] \in Either(r)',
              Good' /\ pc' = "boot" /\ ~update_file => \A r \in Records : AtPowerOn.rec[r] = Final(r)'
       PROVE  MergeInv'
  <2>1. /\ pc' \in {"boot", "old"} /\ mem' = AtPowerOn /\ flash' = AtPowerOn /\ ~db_merge_done'
        /\ update_file' = update_file /\ (update_file => main' = "ota")
    BY <1>11, PowerOnBegins
  <2> QED BY <1>11, <2>1 DEF MergeInv, MemSettled, FlashSettled, OldPlaces
<1>12. CASE PowerCut \/ UserReboots
  <2>1. PowerOn(AtPowerOn) /\ pc # "reboot" /\ (excuses' = excuses \/ excuses' = excuses \cup Lost)
        /\ (excuses' = excuses => pc = "old" \/ Lost \subseteq excuses)
    BY <1>12 DEF PowerCut, UserReboots
  <2>2. AtPowerOn = flash
    BY <2>1 DEF ResetInv, AtPowerOn
  <2>3. ("factory" \in excuses' <=> "factory" \in excuses) /\ (Good' => Good)
    BY <2>1 DEF Good, Lost
  <2>4. \A r \in Records : Either(r)' = Either(r) /\ Final(r)' = Final(r)
    BY <2>3 DEF Either, Final
  <2>5. CASE pc \in OldPlaces
    <3>1. PICK s \in active : pc' = IF image[s] = "new" THEN "boot" ELSE "old"
      BY <2>1, PowerOnBegins
    <3>2. Good' /\ pc' = "boot" => update_file
      <4>1. pc' = "boot" => update_file \/ pc = "mark"
        BY <2>5, <3>1 DEF FirmwareInv
      <4>2. pc = "mark" /\ ~update_file => "unmarked" \in excuses'
        BY <2>1 DEF Lost
      <4> QED BY <4>1, <4>2 DEF Good
    <3>3. \A r \in Records : flash.rec[r] \in Either(r)
      BY <2>5 DEF FirmwareInv, Either
    <3> QED BY <1>11, <2>1, <2>2, <2>4, <3>2, <3>3
  <2>6. CASE pc \notin OldPlaces
    <3>1. Good => \A r \in Records : flash.rec[r] \in Either(r)
      BY <2>6 DEF MergeInv
    <3>2. Good /\ ~update_file => \A r \in Records : flash.rec[r] = Final(r)
      BY <2>6 DEF MergeInv, FlashSettled
    <3> QED BY <1>11, <2>1, <2>2, <2>3, <2>4, <3>1, <3>2
  <2> QED BY <2>5, <2>6
<1>13. CASE Reboot
  <2>1. PowerOn(AtPowerOn) /\ pc = "reboot"
    BY <1>13 DEF Reboot
  <2>2. Good' => AtPowerOn = Factory /\ "factory" \in excuses'
    <3>1. CASE "undone" \in excuses /\ ~reset_file
      BY <1>13, <2>1, <3>1 DEF Reboot, ResetInv, Good
    <3>2. CASE ~("undone" \in excuses /\ ~reset_file)
      BY <1>13, <2>1, <3>2 DEF Reboot, ResetInv, AtPowerOn
    <3> QED BY <3>1, <3>2
  <2>3. \A r \in Records : Factory.rec[r] = "factory"
    BY DEF Factory
  <2> QED BY <1>11, <2>1, <2>2, <2>3 DEF Either, Final
<1> QED BY <1>1, <1>2, <1>3, <1>4, <1>5, <1>6, <1>7, <1>8, <1>9, <1>10, <1>12, <1>13 DEF BootNext, Server

\* The old firmware's data base, and the new one's, at the start.
LEMMA MergeInitially == BootInit => FirmwareInv /\ ResetInv /\ MergeInv
<1> SUFFICES ASSUME BootInit PROVE FirmwareInv /\ ResetInv /\ MergeInv
  OBVIOUS
<1>1. /\ active = {FirstSlot} /\ FirstSlot \in Slots /\ excuses = {} /\ mem = flash
      /\ ~db_merge_done /\ ~reset_file /\ ~update_file /\ back = "none" /\ todo = <<>>
  BY BootAssumption DEF BootInit, Init
<1>2. \/ /\ image = [s \in Slots |-> "old"] /\ pc = "old" /\ flash = OldContent
      \/ /\ image = [s \in Slots |-> IF s \in active THEN "new" ELSE "old"]
         /\ pc = "boot" /\ flash = NewContent
  BY DEF BootInit
<1>3. CASE pc = "old" /\ flash = OldContent /\ image = [s \in Slots |-> "old"]
  <2>1. \A r \in Records : mem.rec[r] = OldValue(r) /\ flash.rec[r] = OldValue(r)
    BY <1>1, <1>3 DEF OldContent, OldValue
  <2>2. \A s \in active : image[s] = "old"
    BY <1>1, <1>3
  <2> QED BY <1>1, <1>3, <2>1, <2>2 DEF FirmwareInv, ResetInv, MergeInv, OldPlaces
<1>4. CASE pc = "boot" /\ flash = NewContent
           /\ image = [s \in Slots |-> IF s \in active THEN "new" ELSE "old"]
  <2>1. \A r \in Records : mem.rec[r] = Final(r) /\ flash.rec[r] = Final(r)
    BY <1>1, <1>4 DEF NewContent, Final
  <2>2. \A s \in active : image[s] = "new"
    BY <1>1, <1>4
  <2> QED BY <1>1, <1>4, <2>1, <2>2 DEF FirmwareInv, ResetInv, MergeInv, OldPlaces, MemSettled,
         FlashSettled, Either
<1> QED BY <1>2, <1>3, <1>4

MInv == TypeInv /\ SlotInv /\ FirmwareInv /\ ResetInv /\ MergeInv

\* The inductive invariant of the update: types, slots, firmware, reset and merge need
\* one another.
THEOREM MergeInvariant == BootSpec => []MInv
<1> USE DEF MInv
<1>1. BootInit => MInv
  <2>1. BootInit => SlotInv
    BY BootAssumption DEF BootInit, SlotInv, Slots
  <2> QED BY <2>1, TypeInitially, MergeInitially
<1>2. MInv /\ [BootNext]_allVars => MInv'
  <2>1. ASSUME MInv, BootNext PROVE MInv'
    <3>1. TypeInv'
      BY <2>1, TypeKept
    <3>2. SlotInv'
      <4>1. UNCHANGED slotVars /\ (pc' = "switch" => pc = "switch") => SlotInv'
        BY <2>1 DEF SlotInv, slotVars, Target
      <4> QED BY <4>1, <2>1, SysupdKeeps, OthersLeaveSlots
    <3>3. FirmwareInv' /\ ResetInv'
      BY <2>1, FirmwareKept, ResetKept
    <3>4. MergeInv'
      BY <2>1, <3>3, MergeKept
    <3> QED BY <3>1, <3>2, <3>3, <3>4
  <2>2. ASSUME MInv, UNCHANGED allVars PROVE MInv'
    <3>1. UNCHANGED <<vars, slotVars, flash, usrdata, serverVars, budget, bootGhosts>>
      BY <2>2 DEF allVars
    <3>2. TypeInv'
      BY <2>2, <3>1 DEF vars, slotVars, usrdata, serverVars, budget, bootGhosts, TypeInv, DataInv, FlagInv,
         PlaceInv, TodoInv
    <3>3. SlotInv' /\ FirmwareInv' /\ ResetInv'
      BY <2>2, <3>1 DEF vars, slotVars, usrdata, serverVars, bootGhosts, SlotInv, Target, FirmwareInv,
         ResetInv, Good
    <3>4. MergeInv'
      BY <2>2, <3>1 DEF vars, usrdata, serverVars, bootGhosts, MergeInv, Good, Either, Final, MemSettled,
         FlashSettled
    <3> QED BY <3>2, <3>3, <3>4
  <2> QED BY <2>1, <2>2
<1> QED BY <1>1, <1>2, PTL DEF BootSpec

\* Merged: when the server serves, each record is the user's in the new form or the
\* factory's, however often merge_database was interrupted and begun again.
THEOREM MergedCorrect == BootSpec => []Merged
<1>1. MInv => Merged
  BY DEF MInv, MergeInv, Merged, Good, MemSettled, Final, OldPlaces
<1> QED BY <1>1, MergeInvariant, PTL

\* The calibration stays in effect, or will be applied, but for the excuses.
LEMMA CalKept ==
    ASSUME TypeInv, FirmwareInv, ResetInv, MergeInv, CalInv, BootNext
    PROVE  CalInv'
<1>t. /\ mem \in Content /\ flash \in Content /\ CalRecord \in Records
      /\ src \in Nat /\ dest \in Nat /\ calVer \in Nat /\ dest <= src /\ calVer <= src
      /\ cal_done \in BOOLEAN /\ upd_file \in BOOLEAN /\ update_file \in BOOLEAN
  BY BootAssumption DEF TypeInv, DataInv, FlagInv
<1>1. CASE Sysupd
  <2>1. pc \in OldPlaces /\ pc' \in OldPlaces /\ (update_file' = update_file \/ update_file' = TRUE)
        /\ UNCHANGED <<mem, flash, calVer, cal_done, upd_file, dest, excuses, db_merge_done>>
    BY <1>1 DEF OldPlaces, Sysupd, Prepare, SwUpdate, Switch, Mark, slotVars, usrdata, bootGhosts, vars
  <2> QED BY <1>t, <2>1 DEF CalInv, OldPlaces, NoExcuse, CalDue, FirmwareInv
<1>2. CASE Boot
  BY <1>t, <1>2 DEF Boot, ServerOnly, usrdata, bootGhosts, vars, CalInv, OldPlaces, NoExcuse, CalDue, MergeInv
<1>3. CASE Merge
  <2>1. /\ pc = "merge" /\ ~db_merge_done /\ calVer = 0 /\ update_file /\ pc' \in {"cal", "merge"}
        /\ UNCHANGED <<db_merge_done, flash, excuses, update_file, upd_file, cal_done, calVer, dest>>
    BY <1>3 DEF Merge, Store, MergeInv, ServerOnly, usrdata, vars, bootGhosts, CalInv
  <2>2. "fault" \notin excuses => mem'.rec[CalRecord] \notin {"none", "corrupt"}
    <3>1. CASE UNCHANGED mem
      BY <2>1, <3>1 DEF CalInv
    <3>2. CASE Store(MergeOne(Head(todo)))
      <4>1. Head(todo) \in Records
        BY <2>1, RestTail DEF TypeInv, TodoInv
      <4>2. mem'.rec = [mem.rec EXCEPT ![Head(todo)] = IF Head(todo) \in Overwritten THEN "factory"
                                                      ELSE MergedRecord(@)]
        BY <4>1, <3>2, MergeOneType, StoreWrites
      <4>3. mem.rec \in [Records -> {"none", "old", "merged", "factory", "corrupt"}]
        BY <1>t DEF Content
      <4>4. mem'.rec[CalRecord] \in {mem.rec[CalRecord], "factory", MergedRecord(mem.rec[CalRecord])}
        BY <1>t, <4>1, <4>2, <4>3
      <4> QED BY <4>4 DEF MergedRecord, CalInv
    <3> QED BY <1>3, <3>1, <3>2 DEF Merge
  <2> QED BY <2>1, <2>2 DEF CalInv, OldPlaces, NoExcuse, CalDue
<1>4. CASE RemoveFlag
  BY <1>t, <1>4 DEF RemoveFlag, ServerOnly, usrdata, bootGhosts, vars, AfterCal, Forced, CalInv, OldPlaces,
     NoExcuse, CalDue
<1>5. CASE ApplyCal
  <2>1. /\ pc = "apply" /\ ~upd_file /\ pc' \in {"merged", "serve", "cal_done"}
        /\ UNCHANGED <<flash, update_file, upd_file, cal_done, db_merge_done, dest>>
    BY <1>5 DEF ApplyCal, Store, ServerOnly, usrdata, AfterCal, vars, CalInv
  <2>2. CASE CalRecord \in Bad(mem)
    <3>1. "fault" \in excuses /\ excuses' = excuses
      BY <1>t, <1>5, <2>2 DEF ApplyCal, Bad, CalInv
    <3> QED BY <2>1, <3>1 DEF CalInv, NoExcuse, OldPlaces
  <2>3. CASE CalRecord \notin Bad(mem)
    <3>1. [mem EXCEPT !.cal = TRUE] \in Content /\ [mem EXCEPT !.cal = TRUE].cal = TRUE
          /\ [mem EXCEPT !.cal = TRUE].rec = mem.rec
      BY <1>t DEF Content
    <3>2. mem'.cal = TRUE /\ mem'.rec = mem.rec /\ calVer' = src + 1
          /\ ("fault" \in excuses' <=> "fault" \in excuses)
      BY <1>5, <2>3, <3>1, StoreWrites DEF ApplyCal
    <3>3. calVer' > 0 /\ dest' < calVer'
      BY <1>t, <2>1, <3>2
    <3> QED BY <1>t, <2>1, <3>2, <3>3 DEF CalInv, NoExcuse, CalDue, OldPlaces
  <2> QED BY <2>2, <2>3
<1>6. CASE MarkCalDone \/ MarkMerged
  BY <1>t, <1>6 DEF MarkCalDone, MarkMerged, ServerOnly, usrdata, bootGhosts, vars, CalInv, OldPlaces,
     NoExcuse, CalDue
<1>7. CASE Kill
  <2>1. /\ pc = "serve" /\ pc' = "reset"
        /\ UNCHANGED <<mem, flash, usrdata, db_merge_done, bootGhosts, dest>>
    BY <1>7 DEF Kill, Signal, writerVars
  <2> QED BY <2>1 DEF CalInv, OldPlaces, NoExcuse, CalDue, usrdata, bootGhosts
<1>8. CASE Reset
  <2>1. /\ pc = "reset" /\ pc' = "reboot" /\ (flash' = flash \/ flash' = Factory)
        /\ ("fault" \in excuses' <=> "fault" \in excuses)
        /\ UNCHANGED <<mem, db_merge_done, calVer>>
    BY <1>8 DEF Reset
  <2>2. Factory.rec[CalRecord] = "factory"
    BY <1>t DEF Factory
  <2> QED BY <2>1, <2>2 DEF CalInv, OldPlaces
<1>9. CASE Monitor
  <2>1. /\ UNCHANGED <<pc, mem, db_merge_done, update_file, cal_done, upd_file, calVer>>
        /\ excuses' = IF pc = "reboot" THEN excuses' ELSE excuses
        /\ ("fault" \in excuses' <=> "fault" \in excuses)
        /\ \/ UNCHANGED <<flash, dest>>
           \/ flash' = mem /\ dest' = src
    BY <1>9, MonitorSteps DEF serverVars, usrdata
  <2>2. CASE UNCHANGED <<flash, dest>>
    BY <2>1, <2>2 DEF CalInv, OldPlaces, NoExcuse, CalDue
  <2>3. CASE flash' = mem /\ dest' = src
    <3>1. pc # "reboot" /\ NoExcuse /\ CalDue => mem.cal \/ pc = "apply"
      BY <1>t DEF CalInv, CalDue, OldPlaces, TypeInv, PlaceInv, BootPlaces
    <3> QED BY <1>t, <2>1, <2>3, <3>1 DEF CalInv, OldPlaces, NoExcuse, CalDue
  <2> QED BY <2>1, <2>2, <2>3
<1>10. CASE FinishUpdate
  <2>1. /\ UNCHANGED <<pc, mem, flash, db_merge_done, cal_done, upd_file, calVer, dest>>
        /\ db_merge_done /\ pc \notin OldPlaces /\ pc \notin {"boot", "merge"}
        /\ (excuses' = excuses \/ excuses' = excuses \cup {"unsaved"})
    BY <1>10 DEF FinishUpdate, serverVars, vars, FirmwareInv, MergeInv
  <2> QED BY <1>t, <2>1 DEF CalInv, OldPlaces, NoExcuse, CalDue
<1>11. ASSUME NEW r \in Records, Fault(r) PROVE CalInv'
  <2>1. /\ "fault" \in excuses' /\ pc = "serve" /\ pc' = "serve" /\ upd_file' = upd_file
    BY <1>11 DEF Fault, usrdata
  <2> QED BY <2>1 DEF CalInv, OldPlaces, NoExcuse
<1>12. ASSUME PowerOn(AtPowerOn),
              "fault" \notin excuses' => AtPowerOn.rec[CalRecord] \notin {"none", "corrupt"},
              pc' = "old" => AtPowerOn.cal = (cal_done /\ ~upd_file),
              NoExcuse' /\ CalDue => AtPowerOn.cal
       PROVE  CalInv'
  <2>1. /\ pc' \in {"boot", "old"} /\ mem' = AtPowerOn /\ flash' = AtPowerOn /\ ~db_merge_done'
        /\ calVer' = 0 /\ dest' = 0 /\ UNCHANGED <<update_file, cal_done, upd_file>>
    BY <1>12, PowerOnBegins
  <2> QED BY <1>12, <2>1 DEF CalInv, OldPlaces, NoExcuse, CalDue
<1>13. CASE PowerCut \/ UserReboots
  <2>1. PowerOn(AtPowerOn) /\ pc # "reboot" /\ excuses \subseteq excuses'
        /\ (NoExcuse' => NoExcuse /\ (pc = "old" \/ (pc # "apply" /\ ~(dest < calVer))))
    BY <1>13 DEF PowerCut, UserReboots, NoExcuse, Lost
  <2>2. AtPowerOn = flash
    BY <2>1 DEF ResetInv, AtPowerOn
  <2>3. pc' = "old" => pc \in OldPlaces
    BY <2>1, PowerOnBegins DEF FirmwareInv
  <2>4. pc' = "old" => flash.cal = (cal_done /\ ~upd_file)
    BY <2>3 DEF CalInv
  <2>5. NoExcuse' /\ CalDue => flash.cal
    BY <2>1 DEF CalInv, CalDue, OldPlaces
  <2>6. "fault" \notin excuses' => flash.rec[CalRecord] \notin {"none", "corrupt"}
    BY <2>1 DEF CalInv
  <2> QED BY <1>12, <2>1, <2>2, <2>4, <2>5, <2>6
<1>14. CASE Reboot
  <2>1. PowerOn(AtPowerOn) /\ pc = "reboot"
    BY <1>14 DEF Reboot
  <2>2. pc' # "old"
    BY <2>1, PowerOnBegins DEF FirmwareInv, OldPlaces
  <2>3. CASE "undone" \in excuses /\ ~reset_file
    <3>1. AtPowerOn = flash /\ excuses \subseteq excuses' /\ ~NoExcuse'
      BY <1>14, <2>3 DEF Reboot, AtPowerOn, NoExcuse
    <3> QED BY <1>12, <2>1, <2>2, <3>1 DEF CalInv
  <2>4. CASE ~("undone" \in excuses /\ ~reset_file)
    <3>1. AtPowerOn = Factory
      BY <2>1, <2>4 DEF ResetInv, AtPowerOn
    <3>2. Factory.rec[CalRecord] = "factory"
      BY <1>t DEF Factory
    <3>3. ~(NoExcuse' /\ CalDue)
      BY <1>14, <2>4 DEF Reboot, NoExcuse, CalDue
    <3> QED BY <1>12, <2>1, <2>2, <3>1, <3>2, <3>3
  <2> QED BY <2>3, <2>4
<1> QED BY <1>1, <1>2, <1>3, <1>4, <1>5, <1>6, <1>7, <1>8, <1>9, <1>10, <1>11, <1>13, <1>14 DEF BootNext, Server

\* Calibrated: when the server serves and no calibration waits, it is in effect, unless
\* update_cal_data's flag was lost to a power cut, a reset or a fault.
THEOREM CalibratedCorrect == BootSpec => []Calibrated
<1>1. BootInit => CalInv
  <2> SUFFICES ASSUME BootInit PROVE CalInv
    OBVIOUS
  <2>1. /\ excuses = {} /\ mem = flash /\ ~db_merge_done /\ calVer = 0 /\ pc \in {"old", "boot"}
        /\ flash.cal = (cal_done /\ ~upd_file) /\ cal_done \in BOOLEAN /\ upd_file \in BOOLEAN
    BY DEF BootInit, OldContent, NewContent
  <2>2. flash.rec[CalRecord] \notin {"none", "corrupt"}
    BY BootAssumption DEF BootInit, OldContent, NewContent
  <2> QED BY <2>1, <2>2 DEF CalInv, OldPlaces, NoExcuse, CalDue
<1>2. MInv /\ CalInv /\ [BootNext]_allVars => CalInv'
  <2> SUFFICES ASSUME CalInv, UNCHANGED allVars PROVE CalInv'
    BY CalKept DEF MInv
  <2> QED BY DEF allVars, vars, usrdata, serverVars, bootGhosts, CalInv, NoExcuse, CalDue
<1>3. CalInv => Calibrated
  BY DEF CalInv, Calibrated, NoExcuse
<1> QED BY <1>1, <1>2, <1>3, MergeInvariant, PTL DEF BootSpec

=============================================================================
