# A model of the LGS gateway

The repository is the firmware of a gateway (Arduino Opta, C++, one cooperative `loop()`) that
connects a pharmacy's servers to the cabinets of a light-guided storage: it carries Modbus TCP
and USB requests onto one RS485 bus of shelf modules, switches the shelf's power, keeps a
schedule, and updates the modules' firmware and its own. This directory holds TLA+ modules
translated from its source, the TLC configurations that check them, and TLAPS proofs of what
matters most. Paths below are relative to the repository (`src/src/` the code, `src/include/` the
headers).

    tlc  -workers 2 -config remote.cfg GwRemote.tla        any run: <name>.cfg and its module
    tlapm GwRemoteProofs.tla                               any proof module

## 1. The system

### Parts, their state and what makes them correct

| Part | State | Operations | What must hold |
|---|---|---|---|
| RTU transport `modbus_rtu.cpp` | channel the hub was left on and when it is ready (`_hubLastCh`, `_hubReadyAt`), which units were seen alive, healing on/off, counters, when others used the bus | `rtu_transact()`, `rtu_send()`, `rtu_setHub()`, RESYNC | of what is sent to a channel of the hub nothing but the trigger frame meets it settling; no answer comes after the caller has given up; an unanswered request leaves no other module out of phase |
| TCP bridge `tcp_bridge.cpp` | two client slots, listener | accept, serve one request per slot per pass, refuse | a client sees its own answers, in order |
| USB bridge `usb_bridge.cpp` | frame accumulator and two gap timers | update | a frame is run once, text goes to the console |
| Console `gw_console.cpp` | session deadline `_armedUntil`, output sink | HELLO, BYE, SET, SAVE, TIME, LAMP, OTA, LOG, ... | privileged verbs need a session; staged edits never outlive it |
| Remote console, firmware stage, depot `gw_remote.cpp` | answer buffer and owner; `_fwState`, `_fwReceived`, `UPDATE.BIN`; the depot's files and the upload in hand; one mount for all of them; `_resetAt` | EXEC, READ; BEGIN, DATA, STATUS, APPLY, ABORT; DEPOT_BEGIN, DATA, LIST, READ, DELETE; `gwRemote_update()` | only a whole image is installed; what lists as complete is whole; a complete image is not lost to another name |
| Module update runner `ota_runner.cpp` | run, modules' states, group in session, phase and three retry counters, two records on flash | START, ABORT, STATUS, RESULT, one phase step per pass | only the run's image is applied; nobody is rebooted while wanted; nobody is stranded; the run ends; the last record survives |
| Panel `panel.cpp` | applied configuration, sweep, reset deadline, lamp test, force, level and dwell of four outputs | `panel_update()`, `panel_startReset()`, `panel_forceLamp()`, `panel_applyConfig()` | only a reset cuts the shelf and only as long as it should; a sweep covers the cabinet and keeps its pace |
| Clock and schedule `sched.cpp` | `_timeSet`, one firing stamp per slot, the RTC and its marker in the backup domain | `sched_begin()`, `sched_setTime()`, `sched_update()` | one power cut per scheduled minute; the clock is believed exactly while it means something |
| SNTP client `ntp.cpp` | state, socket, deadline, next attempt | `ntp_update()`, `ntp_kick()` | the socket never outlives its query; the clock comes back by itself |
| Network runtime `net_runtime.cpp` | link state, listener's port | begin, poll, `applyPort()` | the gateway listens exactly while its network is up, on the port in effect |
| Configuration, store `gw_config.cpp`, `gw_store.cpp` | active, staged and stored copy | SET, SAVE, DISCARD, DEFAULTS, boot | stored and active agree after a SAVE; what is applied was validated |
| Event log `event_log.cpp` | `_nextSeq`, a ring of records on raw flash, token bucket | note, read, boot scan, LOG SINCE | a record once written is found after any restart; a collector misses nothing it is not told of; coil writes cannot wear the flash out |
| Status `gw_status.cpp` | counters, boot attempts, watchdog, clock marker | counting, LEDs | three failed boots in a row, and nothing else, lead to safe mode |
| Setup and loop `main.cpp` | order of everything | `setup()`, `loop()` | bridges come up whatever is stored |
| Not in the repository | shelf modules (libmodbus server and OTA registers), channel hub, bootloader, FAT volume, RTC, NTP server, clients | | modelled from how the code uses them, marked external in the map |

### How they interact

There are no threads: `loop()` calls the USB bridge, the console, `gwRemote_update()`, the network,
the TCP bridge, the runner, NTP, status, panel, schedule and log, in that order. Concurrency is
between handlers over several passes, and with the world: masters that give up, modules that
answer late or not at all, a hub that goes deaf when it switches, clients on two slots and one
USB port, power that goes at any moment. Shared between the parts are the bus (bridges, sweeps,
runner), the hub's channel, one FAT volume (stage, depot, run records), the backup registers
(bootloader, clock marker, boot counter), the console's one session, and the active configuration,
which a SAVE re-applies under whatever is going on.

The hard behaviours: a request on another hub channel between any two frames of an update; a frame
lost by design (the trigger) or by accident; a module left out of phase by somebody else's frame;
one mount with three users; a reset that is announced before it happens; a power cut inside a
sequence of flash writes; a clock that moves, stops or reads nonsense; a SAVE in the middle of a
reset, a sweep, a force, a settle or a query. `PROJECT.json` lists each at its line, with the
properties that cover it.

## 2. The modules

| Module | Models | Proofs |
|---|---|---|
| `Panel`, `MCPanel` | `panel.cpp` | `PanelProofs` |
| `RtuHub`, `MCRtuHub` | `modbus_rtu.cpp` with hub and modules | `RtuHubProofs` |
| `OtaPromise`, `OtaRunner`, `MCOtaRunner` | the promise of an update run; `ota_runner.cpp` with modules, hub, depot image and records | `OtaRunnerProofs` |
| `Clock`, `MCClock` | `sched.cpp`, `ntp.cpp`, the link of `net_runtime.cpp`, the clock marker of `gw_status.cpp` | `ClockProofs` |
| `GwRemote` | `gw_remote.cpp` without the console tunnel, resets, power cuts and the bootloader | `GwRemoteProofs` |
| `LogPromise`, `EventLog` | the log `event_log.h` promises; `event_log.cpp` with the flash, and LOG SINCE of `gw_console.cpp` | `EventLogProofs` |
| `Settings` | session and write verbs of `gw_console.cpp`, `gw_config.cpp`, `gw_store.cpp`, boot counter and safe mode of `gw_status.cpp`, `setup()` | `TcpBridgeProofs` |
| `TcpBridge`, `MCTcpBridge` | `Settings` composed with `net_runtime.cpp`, `tcp_bridge.cpp` and the console tunnel of `gw_remote.cpp` | `TcpBridgeProofs` |

`OtaRunner` is composed with its abstract specification by `Promise == INSTANCE OtaPromise WITH ...`
and `KeepsPromise == Promise!Spec` is checked as a property and proved; so is `KeepsLog` of `EventLog`
over `LogPromise`. `TcpBridge` extends `Settings` and calls its actions, and `BridgeImplementsSettings` proves that
it does nothing else to them. The modules otherwise meet at narrow
interfaces and stand in for each other as environments: `RtuHub` sees only "a transaction", `OtaRunner`
only "heard or not" and "quiet or not", `GwRemote` only "a run is going on", `Panel` only "the schedule
fired" and what the lamps are told.

### Panel

`pc` walks through one pass of `loop()`: a console command (LAMP, SAVE), `panel_update()`, the schedule,
the rest. `up` is the true uptime; the code sees `Millis == up % Wrap` and compares as it does there
(`Before` survives a wrap, `>=` on `_resetUntil` does not). `PanelUpdate` is the whole of
`panel_update()`, in its order: buttons, sweep, lamp test, force, outputs, with its early return while
a force lasts. Buttons are presses that have matured through the debounce. `resetEnd` and `walk` are
observers that no action reads.

### RtuHub

A transaction is a chain of steps, one per frame: trigger, further in-line attempts, held request,
direct request, judgement, re-sync, retry, second re-sync, report. Nothing else of the gateway runs
inside it, and time passes only on the wire (`Exchange`) and in `delay()`. The hub swallows the frame
that makes it switch and all frames until it has settled; a module that hears a request for somebody
else drops the next frame it hears (`deaf`), which is what the healing is for. `openBy` and `swallowed`
observe. Every frame that leaves is looked at, requests, re-syncs and the broadcasts of callers
(`Broadcast`), and one that leaves before the hub has settled is put into `swallowed` with its phase and
its channel. Lengths in ms become small numbers that keep their order.

### OtaRunner and OtaPromise

One action per phase of `otaRunner_update()`, each the whole handler with every counter it moves.
Timers are reduced to the three questions the code asks: has the bus been quiet long enough
(`quiet`), which modules may not be rebooted (`held`), has the hub settled. A frame for a channel that is
still settling is held and heard if what is left of the settle fits `bus.hub_budget_ms`, and fails unsent
otherwise (`Shut`); the defaults, 1400 ms against a settle of 2200, refuse it at first. `SettleWaits` says how
many of the one-second pauses of the confirmation it takes until the rest fits, 0 that all of it
does; no other read pauses before it is repeated. Between any two steps a
bridge may move the hub, touch a module, break the quiet; a session may expire; a frame or its
answer may be lost; the gateway may reset and tear the record it was writing; an ABORT may come.
`OtaPromise` says what all this must amount to: each module goes from to-do to staged to done, or is
written off; nothing is decided twice; a run ends by itself only with nothing open, and "ok" means
nothing written off.

### Clock

Minutes, the resolution of a schedule, on a calendar of small days, weeks and years. A pass is four
steps (console, network, NTP, schedule) with the world free in between. A minute does not end before
a pass has looked at it, because a loop that hangs longer ends in the watchdog (30 s at most,
`config.h:222`). The 250 ms and 500 ms gates are kept as: the first look of a minute is never gated, a
later one may be. An NTP query is answered or given up within 2 s, hence within its minute. A boot
restores what is in the store, or the defaults (safe mode, boot button: nondeterministic), and
believes the RTC as `sched_begin()` does; a brown-out leaves the marker and turns the RTC to nonsense
outside the believed range, a power cut clears both, and new firmware (`NewFirmware`) takes the
marker's register for its length; the observer `flashed` remembers that until the clock is next set,
and `WorkingClockKept` excuses nothing else. `time.tz_min` is left out: it shifts the day the
schedule reads, nothing else. Less than a year is followed (`ClockAssumption`), see section 7.

### GwRemote

An image is a number of pieces and whether they are the right ones: exactly what a CRC over the bytes
read back tells. A DATA request brings one to `MaxData` pieces at any offset, right or wrong, and what
lands on the flash may differ from what was sent. Requests that are refused change nothing and are
stutters, as is a depot request whose mount fails. Timeouts (60 s, 120 s, the session's) may strike
whenever the condition they are tested under holds; their lengths are left out. A power cut may tear
only files that were being written and may break the volume only while it is in use. Setting the clock
(`SetClock`) belongs here because the clock's marker and the length of an update share one backup
register. Nothing is kept out of the 300 ms between an APPLY and the reset it announces: every request,
of either slot or USB, and every answer of a time server is served there as at any other time. What may
reach the file or its length while the registers say install is noted in `touched`, an observer, and
`NoTornFirmware` excuses a torn image by that alone.

### EventLog and LogPromise

A record is its number and its body, as the scan reads them: a program that the power cuts short has
a damaged body, an erase cut short leaves any mix of old and blank records. `Note` is the whole of
`eventLog_note()`: erase when a sector begins, program, count on, each able to fail or to be the last
thing before a reset (`Steps`). `ScanForHead` is the two-pass scan of a boot. `LogPromise` is the log as a
reader understands it: numbers given once, a record never changed, only the oldest lost and never more
than the ring has to. Coil writes pass the token bucket, whose refusals are counted and summed up by
`eventLog_update()`. The collector asks LOG SINCE with any count and goes on from the `next=` it was told;
`got` and `told` remember what it knows. A number torn so that it reads too large is left out of the run
(`TornBy = {}`), see section 7.

### Settings

A configuration is one value: what the model tells apart is whether `gwConfig_validateStaged()` accepts it
and whether a boot hangs on it. A SET line may fail at its n-th key with the ones before it staged, so
any configuration may come out. The session is none, live, or gone by without `gwConsole_update()` having
noticed yet. `Save` is the whole of `gwConfig_commit()`: validate, store (which may refuse), and only then
take effect. A boot counts itself, samples the button, loads or not, and comes up or hangs; what was in
RAM is lost with every reset, the counter with a power cut, the record with worn flash. `brief` and
`leftover` are observers: boots in a row that did not last, and edits of a session that is over.

### TcpBridge

`tcpBridge_update()` is cut into accept and one request of one slot, so every order of the two slots and of
what comes between two passes is followed; the listener, the connections it has not handed over, the slots
and the other ends are state. `StartServer` closes everybody, as `tcpBridge_start()` does, also from inside
the SAVE that a slot is running (`Exec`). The answer buffer is `owner` alone; `outOf` and `asked` observe whose
answer is in it and who has asked. A client that leaves is noticed when its slot is next looked at, and
until then holds it. The link comes and goes at will. A request for the bus changes nothing here.

## 3. Runs

| Run | Instance | Shows |
|---|---|---|
| `panel` | 2 outputs, 2 buttons, 3 configurations that move the shelf and switch the lamps and 2 that sweep a cabinet of 3 or 2 slots, each edited within its kind; 8 time units, resets of 3, dwell of 2 | only a reset cuts the shelf, a dark shelf is explained, the relay follows the reset unless forced, resets end on time, an update lights the lamps; sweeps keep the unlock pace, stay in the cabinet and cover it |
| `rtu_hub` | a unit on each of 2 channels, one dead, a third without hub; garbled replies, 3 hub settings, 3 transactions or broadcasts in 10 time units | of what is sent to a channel of the hub, re-syncs included, only triggers meet it settling; no late answer, nothing held on an open channel or skipped there while the master's patience lasts, an unanswered request leaves its neighbours in phase, a module put out of phase recovers |
| `ota_run` | 2 modules of one row, one chunk, losses, one disturbance, ABORT at any step | nobody stranded, nobody rebooted while wanted, implements `OtaPromise` |
| `ota_restart` | 1 module, 2 chunks, 2 images, 2 runs, a disturbance, a reset, torn records | what is recorded is true of this image; the previous record survives; implements `OtaPromise`; every run ends |
| `ota_healthy` | 3 modules on 2 rows, a master too impatient for a settle (`SettleWaits = 2`), 2 disturbances, sessions expiring, nothing lost but to the hub | nobody is written off |
| `clock` | 2 slots, days of 3 minutes, 4 days of which 2⅓ believable, 3 mishaps | trusted clock is real and kept, minutes served once, socket discipline, recovery |
| `remote` | 2 slots for 3 names, images of 3 pieces sent by up to 2, 3 mishaps | only a BEGIN or the clock, in the window before the reset, spoils what is installed; uploads have their volume; the depot is sound and keeps what is complete |
| `event_log` | 3 sectors of 2 records, 8 records written, 3 coil writes a boot, 2 cuts or flash errors | implements `LogPromise`, the collector is told what it misses, coil writes are rationed |
| `tcp_bridge` | 4 configurations (the default, one on another port, one refused, one that hangs), 2 slots, 3 clients, one fault, safe mode after 2 boots | settings, flash and report agree; listener follows the settings; pages go to whom they belong; safe mode is earned; the board comes back |
| `ota_applied_doc`, `clock_refire_doc`, `settings_left_doc` | as above, smaller (`Settings` alone, three faults) | three statements of the repository that the code does not keep (section 7) |

Deadlock is checked in `clock` and `remote`, whose systems never stop. The others follow a bounded
uptime, number of transactions, runs, records or faults and may end there.

Why the bounds are enough. *Panel*: the horizon holds two resets back to back, or a whole sweep with a
reset and a SAVE inside it; more outputs only repeat the lamp's case. *RtuHub*: three transactions are
one that moves the hub, one that meets it settling, and one afterwards; three units give the asked
one, a neighbour it may put out of phase and one on another channel; the three settings are a master
that will not wait out a switch, one that waits for one in-line attempt but not for two, and one
without a deadline. *OtaRunner*: two modules give a group with one that
leaves it, `MaxTries`, `RepairRounds` and `ConfirmTries` of 2 let every counter count, reset and run out;
in `ota_healthy`, where none may run out, two disturbances at two reads each stay below the counters by one;
two runs and one reset are what the two alternating record files are for. *Clock*: three mishaps are
one more than any promise of the code spans (a cut, a brown-out, a lost answer); the readings are
one before, one inside and one past the minutes that matter. *GwRemote*: one name more than slots,
so that a slot has to be chosen, and one piece more than a request carries, so that an upload has
gaps, overlaps and an end. *EventLog*: eight records are the ring of six and two more, so the first sector is
entered and filled a second time over old records, the others once; two faults are a cut and a second one in
the recovery from it.
*TcpBridge*: two slots as in the code and one client more, so that one is refused; two ports; a hanging
configuration needs no fault to be stored, booted and healed from, so the one fault comes on top.
The theorems of section 5 hold without these bounds.

## 4. Fairness

Safety runs use `Spec` without fairness. `OtaRunner!FairSpec` asks that the runner is stepped (`loop()`
goes round or the watchdog resets it), that the bus becomes quiet once the bounded other traffic has
stopped (`Lull`), that a hub settles, and that a module that was touched may be rebooted some day
(`Release`: `apply_quiet` runs out). Losses have no fairness: `RunEnds` holds although every frame may be
lost, because each retry is counted. `Clock!FairSpec` asks that the four handlers run, that time
passes, that a cable pulled is put back, and that a server asked answers unless that answer is one of
the bounded mishaps; `ClockRecovers` would be meaningless with a server that never answers.
`TcpBridge!FairSpec` asks only that a board held in reset boots when nobody holds its button, and that the
watchdog, which is hardware, ends a boot that hangs: `BoardComesBack` needs no more.

## 5. Proofs

Every theorem is for every value of the constants under the named assumptions of its module
(`PanelAssumption`, `RtuAssumption`, `OtaAssumption`, `ClockAssumption`, `GwRemoteAssumption`,
`LogAssumption`, `SettingsAssumption`, `BridgeAssumption`), which TLC evaluates in every run, and under
the hypothesis it states itself, if any. Those hypotheses are true of the instances of the runs:

| Hypothesis | Says | Where the code has it |
|---|---|---|
| `NoWrap...` of `PanelProofs` | the uptime followed, plus one reset or one unlock step, is less than a turn of millis() | section 7: 49.7 days |
| `SettleCovers` | every settle and gap that a SAVE can apply is at least the hub's settling time, and their sum is less than half a turn of millis() | `bus.hub_settle_ms` is there for this |
| `PatientEnough` | a reply fits in `rs485.t1_ms`, an in-line timeout and a reply in the budget | the defaults; otherwise section 7 |
| `ShortUptime` | the uptime followed is at most half a turn of millis() | section 7: 24.8 days |
| `NoLeftovers` | no session outlives its run, or no frame is lost | otherwise section 7 |
| `Healthy` | no frame is lost but to the hub, no session outlives its run, the requests of other callers are fewer than `MAX_TRIES`, and the confirmation reads they cost (`Cost`) fewer than `CONFIRM_TRIES` | what the retries are for |
| `NoTornNumber` | a number that a power cut tears never reads too large | a question to the flash part, section 7 |

**PanelProofs.** Every property of the run `panel` is a theorem. `PanelTypeCorrect` is inductive with one lemma
per part of `panel_update()`. `ShelfSafe`, `ShelfInStep` and `LampsLitDuringOta` need only `TypeOK` and lemmas about
`LampUpdate`: what it does to a shelf output depends on the reset alone, what it does to a lamp on what
is wanted and the dwell. `ResetKeepsItsDeadline` and `NoUnexplainedCut` add `DeadlineInv`: the deadline the code
compares with is the true one. That is where millis() must not wrap.
`SweepsStayInside` is an action property of one step: the slot is computed from the position and checked
against the cabinet in effect. `LatchesArePaced` needs `PaceInv`: a sweep's walk holds nothing but its own writes,
so its last entry is what the next step must keep its distance from. `SweepsReachEverySlot` needs `CoverInv`:
while a sweep runs, the walk is exactly the positions before `index`. `PositionsAreTheCabinet` then says that the
positions are the cabinet (slot and window by division for all_8), and that `index` reached `total` does the rest.
Buttons are a finite set of numbers here: the code scans them in order and the lowest pressed one wins.

**RtuHubProofs.** `HubTypeCorrect` adds to the types that a dead unit never answered.
`HubNeverFedMidSettle` rests on `SettleInv`: the settle clock, which is a time modulo the wrap, agrees with the
true time at which the channel opens (`openBy`); the hub is where the gateway believes it left it, unless the
gateway has forgotten it (any SAVE); and in every phase that sends to a channel, the re-syncs included,
the clock has passed, for time only goes on from the request that had to wait for it. That is an
invariant because a signed difference of two times less than half a turn apart is their
difference (`SettleCovers` bounds it), so it survives any number of wraps. Frames for no channel of the hub
(a request to a unit beside it with its re-sync, a caller's broadcast) may leave at any time: `swallowed` has
them, and the theorem promises nothing of them because the code does not. `AnswersKeepTheBudget` uses
`BudgetInv`, what each phase may have spent: nothing before the first frame, a hold that fits, an attempt that
fits, a retry with an in-line timeout to spare. `HeldOnlyWhileSettling` needs `ReadyInv` and the uptime bound: the
clock is right for 24.8 days only. `UnansweredCostsNothing` needs `HealInv` (a request that left on an open channel
is judged with its healing still due); `HealingRecovers` adds `RecoverInv` (who is asked again has heard the
broadcast), `SettleInv` and `ReadyInv`'s clock.

Two properties were refuted by the attempt to prove them, and restated from the code. `HoldOnlyWhileSettling` said
that a request fails unsent only while the hub settles; a request whose in-line attempts leave no room for
the next also does (`modbus_rtu.cpp:228`), after its trigger was sent: `MCRtuHub` now has a master that
waits for one attempt but not for two, so that TLC meets it, and section 7 lists the comment it
contradicts. `UnansweredLeavesInPhase` took the hub to be open when the broadcast leaves if it is open when the
transaction ends; the guard time lies between, and four calls in 22 time units show it.

**OtaRunnerProofs.** `FlowInv` is what the runner knows in each phase: types, which phases leave which modules
in a session (`GroupInv`), and that whoever was probed has a version on record (`ProbedInv`).
`NobodyStranded` is its part for the phases between groups. `RebootsUnheld` is an action property: only
`ApplySend` makes a module act, and asks again there. `PreviousRunSurvives` needs `RecordInv`: the two files alternate by the
parity of the run's number, so the run writes where the last record is not; `nextSeq()` goes on from the larger one.
`RecordsAreTrue` needs `ImageInv`, one part for each way a wrong image could be taken for
this run's: a session holds chunks of this image only (`Collected`), the metadata reached all who act on it
(`Told`), what an open module verified is this image (`OpenIsOurs`), the version probed stands until APPLY
(`StillBefore`), who acted on APPLY runs the image (`NowRuns`). `Collected` is where a session that outlived its run
does harm, `Told` where a lost META does; the theorem therefore assumes only that one of the two cannot happen
(`NoLeftovers`), where the model so far had both or neither.
`RunnerKeepsPromise` is the refinement: `Init => Promise!Init`, and one lemma for each phase maps it to a
step of `OtaPromise` or a stutter, `FlowInv` telling which decisions are still open.
`HealthyRunsSucceed` is an argument about payment, with no measure summed over modules: one request of others
costs any one module at most one try (`TryInv`), even one whose crossing, with the reads refused unsent
while the hub settles, spends all three reads of a phase and drops a module that has verified: it is
`Away` from the request on, and is paid for when it is taken up again. Who may still lose a try in this
session (`Watched`) because the bus is busy, the hub elsewhere or the session gone (`Hurt`) has tries left by one more than the rest; the step that
calls `dropMember()` finds its module so, and the module is unhurt when it is picked again. `SessionInv` says what makes the other
ways to lose a module impossible: a session has every chunk sent so far or has timed out, so FINALIZE verifies it.
It shows by the way that on a bus that loses nothing there is never anything to repair:
`PH_REPAIR_SEND` is for lost frames (and modules slower than the pacing, which the model leaves out). CONFIRM
pays for its own tries in the same coin: a crossing by others costs it `Losses` reads, the frame that moves
the hub back and one for every second that the rest of the settle does not fit, and the reads spent and
still to be lost (`Ahead`) are covered by what the requests so far cost.

**ClockProofs.** `ClockIsReal` and `ClockIsKept` follow from `MarkInv == (mark => sane) /\ (timeSet => mark)`:
`TrustedClockIsReal` is not inductive because a boot reads the marker, not the clock's history. New
firmware is the named exception of `ClockIsKept`.
`MinuteServedOnce` needs `ServeInv`: no stamp is ahead of the clock, a slot not yet looked at this minute
has not fired for it, one that has fired counts one, one that was looked at is served. The arithmetic
core is `StampIsMinute`: within a year, day and minute of day determine the minute.
`SocketsAreReturned` needs no more than the types: every path of the client closes what it opened, and a pass
that finds the link down or the server gone ends the query before it returns.

**GwRemoteProofs.** The inductive invariant is `Inv`: types, the counted length of a stage is what is on the
flash, `UploadsOnVolume`, the slot being uploaded is not complete, complete means whole, names are
unique. Each operation has its lemma; `SlotForIsRight` says which slot an upload takes.
`NothingTornInstalled` adds `StillVerified`: while the registers say install, they have the length and the file on
the volume is the verified one, or one of the two requests that touch them has been served since. It assumes
nothing about what arrives when.
`CompleteImagesKept` is an action property from the same invariant.

**EventLogProofs.** `CoilsArePaced` rests on `LimiterInv`: from any record on, the records stored and the tokens
left are covered by one burst and the refill of the time since (`Covers`), which is what the bucket knows;
`CoilsPaced` compares any two records, and follows.

`RingKeepsPromise` is the refinement of `LogPromise`, for any number of sectors and records in one. `Ring(num, n)` is what
the flash holds when the next record is to be number n: every number sits in its place (`Home`), none is older than one
turn, none is missing but in the sector being entered, and what follows in a sector that was entered is blank.
It determines n (`RingUnique`), and the boot scan finds that n although sectors were erased in part, records
torn, and the head's own sector lost (`ScanFinds`). `LogStep` says that a step leaves the ring (`Stays`) or adds number n
and loses at most the oldest sector (`Grows`), however far an erase or a program got; each maps to a step of
`LogPromise` or a stutter. `CollectorIsTold` needs `CollectorInv`: what the collector has is what the ring holds under that
number, if the ring still holds it; and `ReplyTold`: without a gap= the numbers sent are all of those up to next=.
Divisions are by a constant nobody fixes, so the proofs carry their own facts about quotient and remainder.

**TcpBridgeProofs.** `SettingsInv` adds to `SettingsSound` what a boot starts from (`FreshAtBoot`) and that the boot
counter never runs ahead of the boots that failed (`CountsFailures`): `SafeModeEarned` speaks of boots, the
code has only a counter that is counted before, cleared after, and lost with the power. Its converse is not
claimed, nor true: a power cut forgives. `BridgeImplementsSettings` shows that every step of the gateway on the
network is a step of `Settings` or none, so both theorems carry over (`BridgeKeepsSettings`). `NetFollows` and
`PagesStayOwn` need `BridgeInv`: the network belongs to a running board not in safe mode, whoever has asked sits in
a slot, and a connection sits in one place only; one lemma per action says what becomes of the clients.
Any number of configurations, ports, slots, clients, faults.

Left to TLC: liveness (`RunEnds`, `ClockRecovers`, `BoardComesBack`), which needs fairness and ENABLED, beyond this
prover. Everything else that a passing run checks is a theorem.

## 6. Plan

Done, in the order of importance: Panel (it cuts power), RtuHub (every request goes through it),
OtaRunner (the longest protocol), Clock (it fires the power cut), GwRemote (it installs firmware),
EventLog (what is left to explain a failure), Settings and TcpBridge (what everything else is set by and
reached through).

Next:

1. One pass of `loop()` with USB bridge, both slots, runner and hub hold timed against the watchdog.
2. The hub map as a variable of `OtaRunner`, and `OtaRunner` over `RtuHub` in place of its own bus.

## 7. Disagreements between the code and what is said of it

Three have a run that shows them:

- **Applied is not applied** (`ota_runner.cpp:575`, run `ota_applied_doc`). APPLY goes out without parking the
  hub. After a request on another row it is the trigger frame and lost; the confirmation reads the old
  version and records "same". `event_log.h:75-76` calls that an applied module.
- **A served minute fires again** (`sched.cpp:56`, run `clock_refire_doc`). Setting the clock forgets every
  firing; within the minute of a schedule that is a second power cut, which the comment above it
  rules out. A reset within the minute does the same.
- **Edits outlive their session** (`gw_console.cpp:61`, run `settings_left_doc`). `disarm()` discards, "never leave
  staged edits behind" (69), but the end of a session is noticed by `gwConsole_update()` only, after
  `usbBridge_update()` in the same pass; a HELLO read in between re-arms without discarding, and the next
  SAVE stores what the old session had staged.

The others were met while modelling; the models show them where a constant is named.

*Panel.* A LAMP or lamp-test force returns before the shelf's relay is set, so the rails do not come
back on time while it lasts (`panel.cpp:340` against 418-419). With the lamps switched off a lamp that a
force lit stays lit (349; `panel.h:94-95`). A sweep killed by the end of a reset leaves `_total` standing
(422; `panel.h:110`). Through the dwell two lamps of one traffic light can be lit (359; `panel.h:63-64`).
`_resetUntil` does not survive the wrap of millis() (420).

*Transport.* The crossing path never heals an in-line attempt that was heard and not answered
(`modbus_rtu.cpp:226-232`; `modbus_rtu.h:32-34`). A re-sync goes out "only when the hub is not mid-settle"
(`modbus_rtu.h:32-34`): true of a unit on a channel of the hub (`NeverFedMidSettle`), but a unit beside the hub
is healed with no look at the settle clock (`modbus_rtu.cpp:205`, then 319), so its request, its re-sync and its retry
may meet a hub that is settling for somebody else, and so may the broadcasts of callers
(`tcp_bridge.cpp:184`, `usb_bridge.cpp:63`), which are held for nothing; what a settling hub eats of them is in
`swallowed` with channel 0. `skip` also counts requests whose
trigger was sent: in-line attempts that leave the master's patience no room for the next end there (228;
`modbus_rtu.h:70` says "WITHOUT touching the bus"). A first miss whose retry comes back garbled is in neither of the
two counters that are said to add up to all of them (335; `modbus_rtu.h:51-52`).
24.8 days after the last crossing an idle channel looks as if it were settling (238). With
`rs485.t1_ms` at or below the reply window an answer can come after the budget (183-186).

*Update runner.* An ABORT between ENTER and its check leaves a module receiving (`ota_runner.cpp:618`;
614-615). A session that outlived its run makes ENTER_CHECK believe its own ENTER was
heard when META and ENTER were lost, and the previous image is applied and recorded as this one (468;
`Leftover = TRUE` and `Lossy = TRUE` show it, either alone is harmless by `RecordsAreTrue`). A SAVE that re-maps a row
during a run leaves `parked()` false for ever (227). Broadcast writes of others do not count as touching a
module (`modbus_rtu.cpp:99`). `_sub` is carried over to the next member when one is dropped on its state
read (514). The three reads of FINALIZE_CHECK come one pass after the other without a pause (557-559): one foreign
crossing makes the first the trigger, and the two after it fail unsent (`modbus_rtu.cpp:189-192`) while the hold does
not fit the budget, so a module that has verified is dropped and goes round again, at the price of one try
(`HealthySucceeds` says that is all it costs). Duplicate ids in one START are taken twice. `docs/design-gateway-ota.md` lets verified
modules wait after an ABORT; the code frees them.

*Firmware stage and depot.* For 300 ms after an APPLY is answered every request is still served
(`gw_remote.cpp:348`, 735-749). A BEGIN truncates the file the registers point at; a TIME or an NTP answer puts
the clock's marker (`gw_status.cpp:77`) where the bootloader looks for the length. Either way something else than
what was verified may be installed, which the comment called "THE invariant" (121-124) does not
allow for; the two are the exceptions that `NoTornFirmware` names, and it fails without either. An
ABORT there is answered OK and the image installed all the same. Nor is the gateway reset "never in
the middle of a module update run" (313): an OTA START in the same 300 ms is reset when they are over, and
`$LGS REBOOT` asks nothing of the runner at any time (`gw_console.cpp:461-464`, 541-544). No property
claims otherwise: in `OtaRunner` a run may be reset anywhere. After a failed stage the volume is never let
go (763). The comment at 193-195 (the partition "holds nothing but our UPDATE.BIN") is older than the
depot: a format wipes images and run records.

*Clock and NTP.* TIME takes any epoch from 2020 and NTP any from 1.6e9, but a boot believes 2026 to 2099
only (`sched.cpp:136`; `sched.h:26-27`). A kick during a query is lost (`ntp.cpp:78`; `gw_config.cpp:648`).
The firing stamp has no year (`sched.cpp:162`).

*Event log.* A program cut short can tear the number of its record; where it reads too large the boot
scan believes it (`event_log.cpp:63`), and `eventLog_read()` refuses what was jumped over. `TornBy = {1}` shows it
within two boots; whether the flash part can leave such a number is not in the repository. A collector
whose gateway was replaced is told to start over only while the new log is shorter than what it remembers
(`gw_console.cpp:268`); asked later, it goes on in the new log without a word.

*Settings and network.* A SAVE over TCP that moves the port stops the slot it came in by and is never answered
(`gw_config.cpp:647`; `tcp_bridge.cpp:145-146` says everything is). A client that leaves is noticed
after the accept of the same pass, so one that reconnects at once is refused while both slots are taken (`tcp_bridge.cpp:255`).
The owner of the tunnel's buffer is a slot, not a connection: a client that has not asked
anything yet and sits in its predecessor's slot pages through the predecessor's answer (`gw_remote.cpp:97`; 36-38).
`gwConfig_applyLive()` runs before the watchdog is started (`main.cpp:71`, 75): what hangs there at a cold start
is not among the boots that heal themselves.

*Elsewhere.* The watchdog's period is checked
against the stalls of setup() only (`gw_config.cpp:591`). Every SAVE forgets the hub's channel (`modbus_rtu.cpp:57`). An
APPLY fills the registers DR1 to DR3 that `gw_status.cpp` keeps its boot counter and the clock's marker in
("DR1 upward are free", `gw_status.cpp:9`), so new firmware starts without the clock, which `sched.h:26-27`
says is kept as long as the RTC is.

## 8. Not modelled

The USB bridge's assembly of frames and the console's of lines, which take bytes and gap timers to tell
anything apart; MBAP framing and its half-sent frames; parsing and formatting of keys, layout of answers, EXC;
LEDs, identity, the watchdog's period (its check against one pass of `loop()` is in the plan); CRCs, byte
timing and host-side tools, which no property tells apart; the modules, hub, bootloader, FAT driver, flash,
store library and RTC beyond what the gateway's use of them says.
