# TLA+ models of the Augentix camera application layer

This directory specifies and checks the part of the Augentix SDK that keeps a
camera's configuration: the central-control server through which every
configuration change goes, the modules it pushes changes to, the monitor that
keeps the data base in flash, the way from one firmware to the next, and the
threads that switch lights and outputs. The paths below are relative to `src/`.
`src/application/*` repeats `src/*`; the models follow the copies outside it.

Run a model with `tlc -config MCCCSet.cfg MCCCSet`, a proof with
`tlapm CCSetProofs.tla`.

## 1. The system

Several processes on one camera, tied together by a Unix socket and an SQLite
data base in memory (`/tmp/ini.db`).

```
 hosts (CGI, ONVIF, unicorn ...)           modules (AV_MAIN, EVT_MAIN, APP)
        | JSON requests                       | 12-byte headers + structures
        +------------> ccserver <-------------+
                          | SQL
                      /tmp/ini.db  --inotify-->  dbmonitor  --copy-->  flash
```

| Component | State | Operations | Interacts with |
|---|---|---|---|
| **ccserver, client table** (`setting_mgmt/centctrl/ccserver.c`, `main`) | `client_socket[8]`: socket, state, identity, 36000-byte JSON buffer; one local `cid`; a read set | accept, read, cut out a request, register, answer, disconnect, `get_client_sd` | hosts and modules through one socket; handlers by direct call |
| **ccserver, commands** (`handle_*_set_cmd`, `cc_utils.c`) | the records of the data base | merge a host's fields, `control_module` per module, write the record, reply | AV_MAIN, EVT_MAIN, APP; SQLite |
| **ccserver, boot** (`cc_merge.c`, `cc_utils.c`) | active, factory and flash data base; calibration flag | merge factory data, apply calibration, reset and reboot | dbmonitor by signal and by a file in `/tmp` |
| **firmware update** (`system_utility/sysupd_tools`) | boot environment: the slot that is active, those that can be booted; the mark of an update | write the other slot, switch, mark | the next boot of ccserver and dbmonitor |
| **AV daemon** (`av_daemon/av_main2`) | `g_conf`; node graph VB, DEV, {IMAGE_PREFERENCE, CHN, {WIN_IMAGE_PREFERENCE, IVA, ENC}} with a state and a skip flag each | boot from the data base, register, `HANDLERS_apply`, start, stop and restart of subgraphs | ccserver; video driver |
| **event daemon** (`system_utility/event_daemon/main.c`) | its copies of the records; event contexts; PIR, floodlight, GPIO, light-sensor threads with `is_updated` flags | `EVENT_getConf` at start, `EVENT_CC_daemon`, event generation | ccserver; alarm-out, hardware |
| **dbmonitor** (`setting_mgmt/dbmonitor/main.c`) | semaphore, `backup_done`, `endapp_flag`, `cur_time` | inotify handler, backup thread, signal handler, copy after an update | writers of `/tmp/ini.db`; flash |
| **alarm-out** (`system_utility/alarm_out/daemon`) | list of rules with remaining times | add, tick, remove | event daemon; GPIO |
| day/night, thermal protection, watchdog | a filter and a threshold each | poll, switch | driver, sysfs |
| sqlapp, `library/libsql` | none | one statement per call, retry while locked | SQLite |
| networking, streaming | sessions of vendored stacks | | hosts of ccserver |
| libraries, generated parsers, 3rd party | | | |

What is hard, and what makes each part correct:

- **Client table.** `read()` cuts streams anywhere, requests are pipelined,
  slots and descriptors are reused at once. Correct means: no socket lost or in
  two slots, no command before registration, replies each client's own and in
  order, nobody behaving well hung up on, nobody starved.
- **Commands.** One command touches up to two processes and the data base with
  no transaction around them; each may fail or die at any point. Correct means
  that the reply says truly what happened, and that the data base is never
  ahead of the module just asked.
- **Link with a module.** One byte stream carries pushed commands, their
  answers, and the answers to the module's GETs, without tags. Correct means
  that both ends stay in step and hold the same configuration.
- **dbmonitor.** A change must be copied though it arrives during a copy, a
  copy fails, or a signal ends the program.
- **AV daemon.** A configuration is compared with the last one field by field
  and leads to sets and restarts of subgraphs whose calls may fail, while the
  main thread may take the graph down. Correct means that what runs is what
  `g_conf` says, on parents that run, and that the exit stops all of it.
- **Update and boot.** Slot, mark, data base in memory, data base in flash and
  calibration flag are five places written one after the other by three
  programs, and power may fail between any two. Correct means that there is
  always a slot to start from, and that the server serves the user's records in
  their new form, with the calibration.
- **PIR thread.** Flags are tested outside their lock, and one timer serves two
  reasons for the light to be on. Correct means that no setting is lost and that
  the light is what the settings and the time ask for.
- **Alarm-out.** One thread waits for clients and counts time, and edits a list
  while it walks it. Correct means that every output is on for the longest time
  asked for and not longer.

`PROJECT.json` lists the hazards, each at its line, with the properties that
would catch it going wrong.

## 2. The modules

| Module | What it is |
|---|---|
| `CCClients` | the client table and the extraction of requests |
| `CCSet` | one SET command over its route of modules and the data base |
| `ConfSync` | abstract: data base and module kept the same |
| `CCLink` | the wire between ccserver and the event daemon, word by word; implements `ConfSync` |
| `DbMonitor` | the two threads of dbmonitor, its signal, and the writers |
| `AvNodes` | the AV daemon: node graph, its configuration, main and command thread |
| `CCBoot` | update, merge, calibration and reset under power cuts; extends `DbMonitor` |
| `Floodlight` | the event daemon's PIR thread and the floodlight's timer, against the command thread |
| `AlarmOut` | the alarm-out daemon's list of rules, its clock and its clients |
| `CCClientsProofs`, `CCSetProofs`, `CCLinkProofs`, `DbMonitorProofs`, `AvNodesProofs`, `CCBootProofs`, `FloodlightProofs`, `AlarmOutProofs` | theorems about the module in the name |
| `MCCCClients`, `MCCCSet`, `MCCCLink`, `MCAvNodes`, `MCCCBoot`, `MCAlarmOut` | values for TLC (`DbMonitor` and `Floodlight` need none) |

`CCClients`, `CCSet` and `CCLink` look at the same server at three grains.
`CCClients` says who is connected and what is read when, and takes a command as
one answer. `CCSet` takes registration and end of a module as single events and
opens up the command; `AvNodes` is what AV_MAIN does with one. `CCLink` opens up
a single push and a single GET into the words that travel, for one module that
stays alive. `CCBoot` composes the server's start with `DbMonitor`: each commit of
a merge step is that module's writer, and a copy brings the contents to flash.
`Floodlight` starts where `CCLink` ends, with a command in the event daemon's
hands; `AlarmOut` is what the event daemon's rules talk to.

### CCClients

`client` is `client_socket[]`, `lastCid` is `main`'s variable `cid`, `todo` the
slots of the read set that the scan has not reached, `cur` the slot whose
buffer is being worked through. A pass of the `while` loop is `Poll` (`select`
and at most one `accept`), then for each readable slot in order `Disconnect`
(`read` gave 0), `ReadModule` (binary headers of a registered module), or
`ReadJson` followed by one `Extract` per whole request and a `Finish`. Peers
connect, send and close between any two of these steps; a closed descriptor's
number is free for the next peer at once. Streams are sequences of units: a
unit that is a name is a registration, `Cmd` a short request, `Head`, `Mid*`,
`Tail` the pieces of a long one, `Get` a module's header.

Kept from the code though it looks odd: a full buffer makes `read` ask for 0
bytes and the 0 counts as the peer's end (`Disconnect` covers both); malformed
bytes drop the whole buffer (`Finish`); an unknown name registers under the
last identity (`Identity`).

### CCSet

`pc` walks through `handle_*_set_cmd` and `set_data_to_active_db`: at each step
of `Route[cmd]` the module is skipped when it is not in the client table
(`SkipModule`), pushed to (`Push`), applies or refuses (`Apply`), its answer is
looked at (`Receive`), and the record is written (`Commit`, which may fail).
`Policy[cmd]` is how the handler combines the results: `stop` at a failure
(`STRM_CONF`), `or` (`MD_CONF`, `PTZ_CONF`), `last` (`OSD_CONF`). A module is
down, booted (it read the data base itself and has not registered), registered,
or dead in the table. There is no action for a module that dies while the
server waits in `recv_data`, because `recv_data` loops on both 0 and -1.

### CCLink and ConfSync

`s2m` and `m2s` are the words in the socket. The server's `spc` is in
`control_module` (`HostSet`, `SendData`, `RecvHeader`, `RecvRval`) or in
`handle_module_cmd` (`ReadRequests` .. `RequestsDone`); the daemon's `mpc` is in
`EVENT_getConf` (`Ask`, `GetHeader`, `GetData`, `GiveUp`) or in
`EVENT_CC_daemon` (`ReadHeader`, `ReadData`, `SendReply`, `SendAck`). A `read`
returns what is there, at most what it asked for, and waits on an empty socket.
The ghost `early` is set when a SET comes before the start-up is over, or is of
a command the daemon has no case for: from there on the stream may be out of
step, and the properties promise nothing.

`ConfSync` is what the link is for: a record is loaded, or set in the module
first and in the data base after. `Sync == INSTANCE ConfSync WITH pending <-
set, broken <- early` is the refinement mapping.

### DbMonitor

`main` and `thread` are where the two threads are. The writers' transaction is
`Lock`, `Write` (a page, hence `IN_MODIFY` when the watch is there), `Commit`;
`late` abstracts the comparison of the file's `mtime` with `cur_time`, which has
the resolution of a second, so a write may or may not be later. `CopyUnopened` is
`backupdb` with a data base that cannot be opened or a backup that cannot be
begun: it returns 0, and the round counts as done. `unopened` remembers it until
the next copy. `Signal` runs
`term_handler` wherever the main thread is, which then waits for `backup_done`.

### CCBoot

`pc` is where `sysupd` is under the old firmware (`Prepare` to `Mark`) and where
`main` of ccserver is under the new one (`Boot` to `serve`, `Reset`). A data base
is a record by record value: `old`, `merged`, `factory`, `corrupt`, or absent.
`Merge` is one iteration of `merge_database`'s loop with its statement's commit,
`RemoveFlag`, `ApplyCal` and `MarkCalDone` the three steps of the calibration,
`Kill` and `Reset` those of `trigger_reset_reboot`. `Store` is a commit as
`DbMonitor` sees it; `CopyToFlash` is `DbMonitor`'s `Copy` with its effect on
`flash`; `OtaWaited` and `OtaTimedOut` are `do_ota` after either way `watch_file`
ends. A `PowerCut` empties `/tmp`, keeps `/usrdata` and the boot environment, and
starts an active slot's firmware (`PowerOn`). `FinishUpdate`, the removal of the
mark, and the copy of the flash data base to `/tmp` are done by programs outside
`src/` and modelled from what the code expects of them.

`excuses` is a ghost: what went wrong that the code has no means against. `cut`:
power failed between the removal of the calibration's flag and its copy to flash;
`unmarked`: between the switch of the slot and the mark of the update; `unsaved`:
the mark was removed though dbmonitor's copy was not the merged data base;
`reset`: a reset after the calibration was done once; `factory`: a reset, after
which factory records are right; `fault`: a record became unreadable; `undone`:
dbmonitor copied over a factory data base just restored.

Simplified: one of the five calibration files; a statement commits in one step;
a whole file is copied or not (a torn `cp` is not modelled); of the old firmware
only `sysupd` and dbmonitor run; `sysupd` finds an image.

### Floodlight

`at` is where `EVENT_GPIO_daemon` is in a pass, `conf` and `is_updated` the three
contexts it shares with `EVENT_parseCtrlCmd`, `mine` its copies. The first copies
are made without locks, the floodlight's field by field (`InitCopy`,
`InitCopyRest`). Each later flag is tested (`Test...`) before the lock is taken
(`Copy...`). `TriggerMode`, `PirMode`, `FloodlightMode` and `TracingMode` are the
branches of `handlePirAction`. `stop` is `pir_stop_tv[1]` as the time until then:
cleared (`Zero`), over (`Past`), a number of ticks, or `Far`, since it is not
initialised and what is there may never be over. `doused` remembers that a
trigger with `warn_switch` off put out a light that the user had enabled.

### AlarmOut

`pc` is `select` or `recv`; a pass ends in `EndPass`, which sets back the outputs
whose rules are over and computes the next time-out. `Aged`, `Updated`, `Kept`
and `Timeout` are the functions on the list. Clients connect, send a rule, or end
without one. `Tick` is a unit of real time; inside `select` it counts (`elapsed`),
elsewhere it is `slack`. `owed` and `last` say what was asked for each output,
independently of the list; `lost` are outputs that stay on without a rule, for
which the properties promise nothing.

Kept from the code: a longer rule overwrites the listed one with its `next`
pointer and drops the rules behind it; `is_gpo` leaks the descriptor of an input;
after a client that sent nothing the rule before it is applied again, at the very
start a rule for GPIO 0 of no duration, which sets that output to 1.

### AvNodes

`Child` and `isSkipCase` are the graph and the command line's options. A step
calls one function of one node (`CallNode`); the calls still to be made are a
list, `mtodo` for the traversals of `CORE_init` and `CORE_exit` (`Traverse`),
`ctodo` for the command under way (`Work`), so the two threads' traversals
interleave call by call. `AfterMain`, `AfterCall` and `Fails` are the three ways
the recursive functions treat a child: `NODES_start...` goes on below a skipped
node, `execStart` does not, and only the root's result counts. `StrmCalls`,
`LayoutCalls` and `OdCalls` are the case distinctions of the three handlers;
`Recover` is what they make of `g_conf` when a call failed. `Uses` has, for each
node, the fields of `g_conf` that its start reads (`node_chn.c:164-271`,
`node_win_image_preference.c:29-34,182`, `node_iva.c:524,607,767,1686-1697`,
`setVencAttr` and `NODE_startEnc` in `node_enc.c`), `SetFields` those its set hands
to the driver.

A node reads more of a stream than `APPLY(VideoStrm)` compares:
`binding_capability`, `max_frame_size`, the motion tolerances and
`obs_off_period`. They are one field, `unseen`: a record that differs in it alone
leads to no call. `Missed` names, for each node, what it reads and no handler
passes on while it runs: `unseen`, and a new frame rate, which is set in the
channels only.

The driver is not in the repository. A call that is in place (`InPlace`: a start
on a stopped node above running parents, a stop or set on a running one) fails
only as a counted fault; out of place it may answer either way. `st` is `half`
after a failed start or stop. `chans` are the channels in the driver and `exist`
the daemon's record of them. `has` is what a running node last read of `g_conf`.
Every stream is enabled and is its own index (`video_strm_idx`, `video_dev_idx`),
a record has the fields that the handlers or nodes tell apart, and the set of a
node is one step though the code may call it once per stream (each hands over the
whole record). Object detection stands for the detections of IVA, which read the
frame rate as it does.

Three ghosts mark what the properties leave out. `clash`: a call met a channel
that an earlier stop left behind. `overlap`: a command was at work while
`CORE_exit` took the nodes down. `dropped`: a restart of `CHN` or `VB` stopped the
nodes under it and then ended at the root, because that is skipped (`-v`).

Kept from the code: the results of the boot traversals are 0 whatever happened,
so the error branches of `CORE_init` cannot be reached; the object detection's
handler looks at the result of a set only; `createReadyFile` never fails.

## 3. What the runs check

| Run | Distinct states | Shows |
|---|---|---|
| `clients_scan` | 2 947 080 | table, routing, registration and replies, buffers and hang-ups, 2 slots and 3 connections |
| `clients_live` | 326 606 | a host's requests are all answered, though two others come, send and close in turn in slots before its own |
| `clients_identity` | violation | unknown name takes the last identity |
| `set` | 563 680 | success, stop at a failure, order of module and data base, reply |
| `set_refused` | violation | a refused record is written by a later step |
| `link` | 56 360 | stream in step, agreement, refinement of `ConfSync`, start-up, every SET answered |
| `av_nodes` | 3 607 770 | what runs is what `g_conf` says, on running parents; an accepted restart runs; the exit stops everything |
| `av_restored` | violation | a refused configuration stays in `g_conf` |
| `dbmonitor` | 377 014 | no noticed change forgotten, saved in the end, the exit waits for it |
| `boot` | 3 768 081 | a slot to start from, merged records and calibration, whatever is cut |
| `floodlight` | 762 932 | no setting lost, the light is what the records and the time say, it goes out |
| `alarm_out` | 148 470 | outputs on as asked, not longer, and not for ever |

**CCClients.** `OnePlace` relates table, backlog and descriptors: violated if
`accept` or the reset of a slot lost or shared one. `RouteIsLive` is about
`get_client_sd` after slots are reused. `RegisteredFirst` and `AnswersInOrder`
relate everything a connection was sent to everything it wrote;
`AnswersInOrder` compares the replies with a reference definition
(`Expected`) on the bytes the server has consumed. `HonestKept` (an action
property) and `Served` (liveness) are what a host may rely on. Bounds: two slots
suffice for reuse, a full table, and two clients with the same identity; three
descriptors for a peer in the backlog of a full table; a buffer of two units for
a full one, a partial request carried over, and a request behind another.
The scripts of the safety run fill that buffer with a request that fits and with one that does not,
and a module's header arrives in it where JSON is expected. `Served` has three slots,
three connections and one short script: a host is starved only by two others that
come, send and close in turn, so that one of them is always ready in a slot before
it. A scan that served the lowest ready slot alone and went back to `select` would do
that; with two slots it would not, for a client that closes frees the slot before the
host, and the next one has to be accepted first, in a pass of its own. Descriptors are
symmetric in `clients_scan`; the liveness run uses no symmetry.

**CCSet.** Two modules and one command of each policy on the route AV_MAIN, APP
cover every way the steps combine; three steps do not occur in the code. Two
values tell new from old. `SuccessIsEverywhere` and `StoppedIsPrefix` relate the
reply to the state of processes that may have died, been replaced and booted
from a data base that was half way; `WrittenIfApplied` is an action property.
`Answered` names the one way in which a command does not end: the server caught
in `recv_data` (section 6, number 4). Deadlock is not
checked here: with the server caught in `recv_data` and the modules as they are,
nothing need happen any more.

**CCLink.** Three GETs of three sizes, and four commands: one as long as a
header that the command thread has no case for, one shorter than a header that
neither reader has. Two SETs, because the second finds what the first left
behind. The retry limits (5, 10, 5 in the code) are 1, 1 and 0, so that giving
up, spinning and closing the link are reached within two SETs. `InStep`,
`Agreement` and the liveness properties are conditional on `~early`; the
unconditional forms are false, and the run's states contain what happens then
(the daemon stops, spins, or closes). A link that stopped is a legitimate end,
so deadlock is not checked.

**AvNodes.** Two command lines: all nodes, and skipped ones that others stand on
(`-v`); the theorems of section 5 hold for every command line. One or two streams,
so that the number can be lowered and raised,
and at most two events (`MaxEvents`), each a command or a failed call: two
commands in any order, a command after a failed boot, a command that fails, a
failure of the exit. `Works` relates every node's values to `g_conf` between
commands, but for the fields in `Missed`, after commands none of which failed;
`AcceptedRuns` holds whatever failed before. `ParentsUp` holds at every
single call, where no call failed and the graph is taken down by one thread.
The states behind the three ghosts (section 2) are in the run; after an overlap nodes may
run when the program ends. The daemon ends, so deadlock is not checked.

**DbMonitor.** Three commits: one before, one during, one after a copy. Two
tries so that a round may fail once and go on, or be given up. Two
posts, so that a round may be asked for while one waits; `MaxPosts` only stops
writers from running ahead of the thread. `NoLostChange` and `Saved` except
what the code gives up (`gaveUp`: every try of a round failed; `missed`: a
transaction none of whose later pages came after the watch; `unopened`: the last
round copied nothing and counts as done). `SavedAtExit` excepts a signal that
arrives while `backup_done` still speaks of an earlier copy, and a round that
copied nothing. The program ends, so deadlock is not checked.

**CCBoot.** A record of each kind: merged, overwritten, added; the overwritten one
has the calibration. One power cut at any step (after it the whole boot runs
again on what is left), one record that becomes unreadable, one try per round and
one post. The initial states are the old firmware, from which an update may start,
and a later boot of the new one, each with and without a calibration done or
waiting. `Merged` and `Calibrated` relate what the server serves to what all three
programs did before, across power cuts. `MCView` drops what nothing depends on: ghosts of `DbMonitor` that these
properties do not use, its variables once it has ended, and `late` outside a
round. No temporal property is checked under the view. dbmonitor ends after a
signal, so deadlock is not checked.

**Floodlight.** Two brightnesses, a warn time of one unit, three commands and two
triggers: a command before, between and after tests of two flags, a trigger while
a light is on for an earlier one, a setting that arrives meanwhile. `NoLostSet`
holds at every step; `Shown` relates the PWM, its timer and the records at the
head of a pass; `GoesOut` is its liveness side, provided the detection is on from
some time on, for a pass does nothing else while it is off. A pass waits while the
detection is off, so deadlock is not checked.

**AlarmOut.** Two outputs and an input, five rules: short, long, of the other
polarity, for the other output, for an input. Four connections, a backlog of one,
one descriptor to leak, a longest duration of two units. `OnAsAsked` and
`NotTooLong` compare the list with what was asked, in real time; `Expires` is the
liveness side.

Every property has a mutant of the code that violates it, in `PROJECT.json`.

## 4. Fairness

- `CCClients`: `WF(Server)`. The server is one thread that never sleeps but in
  `select`; the read set is scanned in order, so weak fairness of the whole
  loop suffices and none is assumed of single slots. Peers promise nothing.
- `CCSet`: `WF` of the server's steps and of each live module's command thread.
  Hosts, boots and deaths have none.
- `CCLink`: `WF` of the server and of the daemon, both running processes whose
  reads wait for data. Hosts have none.
- `AvNodes`: none; it states safety only. `registerCC` may spin for ever, and
  `CORE_exit` then waits for its thread, so no end is promised.
- `CCBoot`: none; safety only.
- `Floodlight`: `WF` of the PIR thread, which polls, and of time. No command or
  trigger has to come.
- `AlarmOut`: `WF` of the daemon and of time, and of clients: a client that has
  connected sends or closes. `alarmoutc` does so in its next lines; the daemon
  itself would wait for ever for one that did not.
- `DbMonitor`: `WF` of each of its two threads. Writers may stop half way with
  the lock held; then copies fail until the round is given up.

## 5. What is proved

By TLAPS, for all values of the constants that meet the modules' assumptions.

**CCClients** (`CCClientsProofs`; `ClientsAssumption`). The invariant is
`IInv == TypeOK /\ SlotsCoherent /\ OnePlace /\ ConnectedIsTold /\
RegisteredFirst`. `SlotsCoherent` (which fields of a slot go together, and that a
slot being served is taken) is needed for nearly every step: a read, a reply or a
hang-up concerns a socket only because of it. `ConnectedIsTold` (a connected
slot's socket has been told) is the strengthening without which `RegisteredFirst`
is not inductive. `Serves` says what the four steps that read or extract have in
common, so that each part of the invariant is proved once for them; `Disconnect`
needs `OnePlace` so that the socket's replies are nobody else's. That `accept`
finds a free slot and `get_client_sd` a first one rests on `FirstExists`, from
the well-foundedness of strict inclusion on finite sets. `RouteIsLive` follows
from `SlotsCoherent` and `OnePlace`.

`AnswersInOrder` and `HonestKept` speak of a host's whole stream, and need to know
where it is. `StreamInv` says so: a stream is what was read, then what is in the
socket, then what is not yet sent (`Placed`), and a connection not yet accepted
has neither been read nor answered. `ServesHost` adds, for the slot of a host that
keeps to the protocol (`HonestHost`): its buffer continues the stream at position
`Consumed(i)`, where a request ends; the buffer holds no whole request except
while requests are being cut from it; the slot is connected exactly when a name
has been answered; and the replies are `Expected` up to there. Without the third a
reply could not be predicted; without the second a full buffer could hide the
rest of the stream (`FullIsAll`: full of half a request, it holds all there is).
`TodoInv` (what `select` found readable still is) makes a `read` of 0 bytes mean the
end. `WalkExists` shows that the recursive function in `Expected` is defined for
every stream, `ExpectedStep` and `ExpectedSame` compute it over one unit and over
units that complete nothing, and `RequestDue` and `NoRequestYet` say what a buffer
with and without a whole request means for the stream. What needs induction along
a stream is argued from the least counterexample (`LeastExists`). `HostsStep` has one
lemma per action; `HostsInvariant` proves `IInv /\ HostsInv`. This rests on one more
assumption: no host has the name of a module, as in the code's table of names.

**CCSet** (`CCSetProofs`; `SetAssumption`: routes are non-empty sequences of
modules or `None`). `TypeCorrect` needs that the step never leaves the route.
`SuccessIsEverywhere` is not inductive: at the moment of the reply one must know
what the earlier steps achieved, and that modules which died and came back since
booted from a data base that already had the value, or are not in the table.
`StepInv` says this: behind the current step every live module has the value and
the data base too, provided the policy would have kept a failure (`StepsCount`);
a stopping command has not failed yet; and the current step's module has the
value once it has accepted. `StepEndsKeeps` is the lemma for the three places
where a step ends. `StepInvariant` proves `IInv == TypeOK /\ StepInv` inductive,
and `SuccessCorrect`, `PrefixCorrect` and `WrittenCorrect` follow from it.

**CCLink** (`CCLinkProofs`; `LinkAssumption`, `NoSetAssumption`). Neither `InStep`
nor `Agreement` is inductive: they say nothing between two messages. While
`~early`, what is in the two directions of the socket and in `request_buf` is
determined by where the two ends are. `Starting` names the seven places along a
GET, `Running` the ten along a SET, each with the words it leaves in the socket,
and `Agree` says which records the two ends already share. `ServerInStep` and
`DaemonInStep` show, action by action, that a step leads from one of these places
to another, and that it is a step of `ConfSync` or leaves its variables alone;
`ReadsHeader` and `ReadsAll` are what they need of a `read` from such a socket,
for structures of any size. `TypeInv` holds in step or not, and adds to the types
that an answer is sent, and data are read, only for a whole header. `InSyncCorrect`
is the whole refinement: the initial states, every step, and that `early` stays.

**DbMonitor** (`DbMonitorProofs`; `MonitorAssumption`). `TypeCorrect` splits the
type invariant in numbers, flags and places, and carries `HandlerInv` (before a
signal the handler has not run and there is no thread before the watch).
`NoLostChangeCorrect` strengthens the property to the pages of a transaction not
committed yet (`NoticeInv`): a written page is noticed, otherwise the commit
that follows would break it. `SavedAtExitCorrect` strengthens to every place
between the copy and the end of the program (`ExitInv`): a copy that ended after
the signal holds what was committed before it. Both carry the exceptions of a
round given up and of one that copied nothing.

**Floodlight** (`FloodlightProofs`; `FloodlightAssumption`). `TypeCorrect` needs
that nothing of a pass is left at its head. `NoLostSet` says nothing of the
floodlight while it is copied by halves; `HalfCopied` says that the half copied
is right or flagged. `ShownInv` follows the light through a pass: before the
flags are tested it is settled, afterwards a difference is one the pass still has
to act on, and a timer that runs means that the light is on.

**CCBoot** (`CCBootProofs`; `BootAssumption`, `MonitorAssumption`). `SlotInv` adds
to `Bootable` that exactly one slot is active and that the other one is whole when
it is switched to; only `sysupd`'s steps touch the slots. `MergedCorrect` rests on
`MInv`: `FirmwareInv` (under the old firmware nothing is merged, and whoever
switched has marked; the new firmware is not left again), `ResetInv` (a reset is for
a bad record, when dbmonitor is past its first copy) and `MergeInv`, which says what
each record is at each place of the merge, in memory and in flash: final or the old
one before, final in memory after, final in both once the mark is gone or
dbmonitor has made the copy it waited for. If the mark goes otherwise
`excuses` has it, so an interrupted merge is begun again from records it knows. That what is left to
merge is always an end of `cmd_table` (`RestTail`) shows that no record is left
out. `CalInv` follows the calibration the same way, with the version that has it:
`mem.cal` from that version on, `flash.cal` once dbmonitor has copied it.

**AvNodes** (`AvNodesProofs`; `NodesAssumption`). The properties say what runs
between commands or at the end; what runs in the middle depends on the calls left,
so the invariant speaks of both. `Nth` is an order of the seven nodes from the
leaves to the root in which the traversals take the graph down, and against which
they bring it up. `Level(k)` says that the first `k` nodes are stopped and the
rest run; `CommandAt(k)` which lists of calls can then be left (a start of the
first `k`, the rest of a restart of the streams, the channels or the whole graph,
a set, a set ahead of a restart) and which nodes do not yet work with `g_conf`.
`BootInv` and `WorkInv` say that the program is at some level from the boot to the
end of the exit. Without video control a restart ends at its skipped root before it
starts anything, and `NoVideoInv` replaces the levels; `SparedInv` says that until
then everything else runs with `g_conf`, because sets reach it and a failed restart
of `ENC` recovers a record that says the same to it. `RootInv` is what
`AcceptedRuns` rests on: it follows a restart through failed calls too, of which
only the root's counts. The lists themselves are computed once: `LeaveOrder` is
the order in which the recursive traversals call the nodes, for the whole graph and
for each root (`RestartCalls`, `LeaveCalls`), and `CommandPlanned` reduces the
handlers' comparisons of old and new records to these lists and to the fields that
each node follows (`Uses` without `Missed`): a field a node reads that is neither in
`Missed` nor led to a call on that node would fail it. `CommandCall` then goes
through one call of
one node, whoever makes it.

**AlarmOut** (`AlarmOutProofs`; `AlarmAssumption`). `LeftInv` bounds what a rule
has left from both sides by what is owed to its output, less what `select` has
counted and with the time the daemon was busy (`slack`); `ShownInv` says that the
list holds one rule for an output, with the polarity the output has. What
`update_gpio` and `update_gpio_table` make of a list of any length is proved by
looking at the first position at which it would fail (`KeptRules`, `UpdatedRules`);
that there is a first one comes from the well-foundedness of the natural numbers,
which stands in for the library's induction theorems. `update_gpio_table` drops
the rules behind a longer one for the same output, and `lost` takes exactly these:
the lemma says which rules are left, so nothing else can be missing.

The proofs corrected two things in `AvNodes` that its bounds had hidden.
`ParentsUp` was stated without the exception `clash`: with three events, a
restart of the graph after the number of streams was lowered fails on a channel
left behind, and a node may run above a half-started one. And what a
node works with after a call (`HasAfter`) was a `CASE` whose guards overlapped; now
a start comes first, then a set of a running node, then the rest.

**Only model-checked.** Liveness under fairness: `Served`, `Answered`, `StartsUp`,
`SetAnswered`, `Saved`, `Ends`, `GoesOut`, `Expires`. Every safety property of the
passing runs is the subject of a theorem.

## 6. Disagreements found

1. **An unknown name takes the last identity** (`clients_identity`).
   `get_client_identity` leaves `cid` as it was and `main` keeps one `cid` for
   everybody; the branch "Invalid client name" with
   `AGTX_ERR_UNDEF_CLIENT_ID` is reachable only before the first registration.
2. **Refused and yet written** (`set_refused`). `core.c` says that a failed push
   is "not write db"; `OSD_CONF`, `MD_CONF` and `PTZ_CONF` go on to their second
   step, which writes the record.
3. **A refused configuration stays in `g_conf`** (`av_restored`). `HANDLERS_apply`
   says "Copy global tmp back to g_conf"; 25 handlers copy back `sizeof` of a
   command number, four bytes, and the layout's copies itself over the streams.

The models contain further behaviour that one would not expect. No text promises
the contrary, so no run refutes one; each is an action or a named exception.

4. *The receive time-out has no effect* (`Answered`). Sockets get `SO_RCVTIMEO`, and
   `control_module` has branches for a missing answer, but `recv_data` goes round
   again on -1 and on 0: a module that dies at the wrong moment stops the server.
5. *A SET during start-up* (`early`). The event daemon is a target of pushes from
   its registration on, and takes the first header it sees for the answer to its
   GET; its assertion then fails.
6. *Channels left behind* (`clash`). `NODE_stopChn` uses its record "to check is
   running or not" for as many streams as the new configuration has.
7. *A round that copies nothing counts as done* (`unopened`; `dbmonitor/main.c:265`).
8. *Unmarked update* (`unmarked`; `sysupd:82`). Power fails between the switch and
   the mark: the new firmware runs on the old data base for good.
9. *dbmonitor does not wait for the merge* (`unsaved`; `dbmonitor/main.c:190`). It
   sleeps microseconds and counts milliseconds.
10. *An undone reset* (`undone`; `cc_utils.c:305`). dbmonitor's last copy may land on
    the factory data base just restored.
11. *Calibration lost* (`cut`, `reset`; `cc_utils.c:466`, `ccserver.c:1854`). The flag
    is removed first; and the file that says it was done outlives a reset.
12. *A trigger while `warn_switch` is off* (`doused`) puts out an enabled light, and
    *`pir_stop_tv` is not initialised* (`Far`).
13. *Dropped rules, leaked descriptors, stale rules* (`lost`; `alarm_out/daemon`,
    lines 117, 73, 237).
14. *Accepted and not in effect* (`Missed`; `video_strm_conf.c:73-194`). A change of a
    stream's `max_frame_size`, motion tolerances, `obs_off_period` or
    `binding_capability` alone is answered 0 and reaches no encoder and no channel.
15. *Failed and answered 0* (`Result`; `od_conf.c:58-69`). For a new version of the
    object detection's record the whole graph is restarted, and nothing looks at the
    result.
16. *A root that is skipped* (`dropped`; `nodes.c:298`). With `-v` a restart of `CHN` or
    `VB` stops IVA and the image preferences, fails at the skipped root, and leaves
    them stopped.

## 7. Plan and what is not modelled

Modelled and checked so far: the server's client table, its commands and its
link, dbmonitor, the AV daemon's graph, update and boot, the PIR thread, and
alarm-out. Next, most important first:

1. An abstract specification of `AvNodes` (the running set is the one `g_conf` asks
   for, or a failure was reported) and the composition with `CCSet`, whose module
   is `up` or refuses.
2. `CCClients` with bounded output: a host that does not read its replies.
3. `Floodlight` with the other threads of the event daemon, whose day/night mode
   it reads.

Not modelled, and not planned: day/night, thermal protection and watchdog (a
filter and a threshold over hardware readings), networking and streaming (hosts
of the server, vendored stacks), libraries, generated parsers and third-party
code. Within the modelled parts: the session id (nothing reads it back), the
text of JSON, the fields of the structures, the reset on a corrupt record, and
host GETs, which change nothing; `select`'s -1 in alarm-out (`alarmoutd.c:259-262`),
which ends the daemon; a failing UPDATE during the merge, which `cc_merge.c` prints
and goes on after.

Several hazards in `PROJECT.json` are harms that the code has no means against.
There the models contain the harm, the properties name it as an exception, and the
hazard's note says so: such a property does not catch the harm itself, but any
other way to the same end.

The mapped lines are a small share of the repository, most of which is vendored
(gSOAP, live555, LVGL), generated (`libcm`), data, or the second copy of
everything under `application/`.
