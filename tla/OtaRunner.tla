----------------------------- MODULE OtaRunner ------------------------------
(***************************************************************************)
(* The module update the gateway runs in the background                    *)
(* (src/src/ota_runner.cpp): one step per loop() pass over an RS485 bus it *)
(* shares with the bridges, which move the hub, keep the bus busy and      *)
(* touch the modules between any two steps.                                *)
(*                                                                         *)
(* The modules are not part of the repository: dev says what ota_runner.cpp*)
(* expects of them (registers 282.., coils 505-508).  A hub swallows the   *)
(* unicast frame that makes it switch.  Time is reduced to what the code   *)
(* asks of it: whether the bus has been quiet for the idle period, which   *)
(* modules may not be rebooted yet, whether the hub has settled, whether   *)
(* the rest of a settle fits the hold; the pauses between frames are left  *)
(* out but where a hold fits after them.                                   *)
(***************************************************************************)
EXTENDS Integers, FiniteSets, FiniteSetsExt

CONSTANTS
    Ids,           \* the modules of a run
    Chan,          \* their hub channel, 0 = not behind the hub
    Images,        \* firmware versions a depot slot may hold
    Firmware,      \* firmware versions the modules may start with
    Total,         \* chunks of an image
    GroupMax,      \* group=
    MaxTries,      \* MAX_TRIES
    ReadTries,     \* reads before a module counts as silent
    RepairRounds,  \* REPAIR_ROUNDS
    ConfirmTries,  \* CONFIRM_TRIES
    Lossy,         \* may a frame or its answer be lost
    Leftover,      \* may a session outlive the run that opened it
    SettleWaits,   \* CONFIRM's pauses until bus.hub_budget_ms has room for what is
                   \* left of a settle (0: it has room for all of it)
    InLine,        \* and bus.hub_retry > 1: a crossing is ridden out in line
    MaxForeign,    \* bound on the requests of the bridges followed
    MaxRuns,       \* bound on the STARTs followed
    MaxResets      \* bound on the resets of the gateway followed

ASSUME OtaAssumption ==
    /\ IsFiniteSet(Ids) /\ Ids \subseteq Nat /\ Ids # {}
    /\ Chan \in [Ids -> Nat]
    /\ Images \subseteq Nat \ {0} /\ Firmware \subseteq Nat \ {0}
    /\ {Total, GroupMax, MaxTries, ReadTries, RepairRounds, ConfirmTries}
         \subseteq Nat \ {0}
    /\ {Lossy, Leftover, InLine} \subseteq BOOLEAN
    /\ {SettleWaits, MaxForeign, MaxRuns, MaxResets} \subseteq Nat
    /\ InLine => SettleWaits = 0

VARIABLES
    run,     \* the run in hand: _run, _abortReq, _ph, _applyIdx, _seq, ...
    mods,    \* _mods
    grp,     \* the group in session: _grp, _grpCh, _pos, _sub, _idx, ...
    file,    \* OTARES0.BIN, OTARES1.BIN
    hub,     \* channel the hub was left on, has it settled, pauses until a hold fits
    quiet,   \* rtu_msSinceForeign() >= idle
    held,    \* modules mayApply() refuses
    dev      \* the modules

\* History: read by no guard but the bounds.
VARIABLES
    applied,   \* modules that acted on APPLY in this run
    kept,      \* the record RESULT 0 showed when the run started
    foreign, starts, resets

vars == <<run, mods, grp, file, hub, quiet, held, dev, applied, kept, foreign,
          starts, resets>>

Phases == {"pick", "probe", "meta", "enter", "enterCheck", "stream", "repair",
           "repairSend", "finalize", "finalizeCheck", "apply", "confirm",
           "waitApply"}
ModStates == {"pending", "noReply", "session", "complete", "verified",
              "updated", "same", "failed", "gaveUp"}
DevStates == {"idle", "receiving", "verified", "error", "timedOut"}
Chunks == 0..(Total - 1)
Versions == Images \cup Firmware
Results == {"none", "running", "ok", "failed", "aborted"}

NoChunks == [c \in Chunks |-> 0]
Fresh == [u \in Ids |-> [st |-> "pending", tries |-> 0, before |-> 0]]
NoGroup == [members |-> {}, ch |-> 0, todo |-> {}, sub |-> 0, idx |-> 0,
            round |-> 0, missing |-> {}]
NoRun == [tries |-> 0, active |-> FALSE, abort |-> FALSE, ph |-> "pick",
          target |-> 0, seq |-> 0, img |-> 0, result |-> "none"]
NoRecord == [seq |-> 0, ok |-> FALSE, state |-> "none"]

In(states) == {u \in Ids : mods[u].st \in states}

-----------------------------------------------------------------------------
(* The bus.                                                                *)

Reach(u) == Chan[u] \in {0, hub.ch}

HubOn(ch) == [ch |-> ch, settled |-> TRUE, wait |-> 0]
Switching(ch, wait) == [ch |-> ch, settled |-> FALSE, wait |-> wait]

\* hubHoldAndSend(): on a channel that is still settling a frame is held, or
\* fails unsent when the hold does not fit the budget.
Shut(u) == Chan[u] # 0 /\ Chan[u] = hub.ch /\ ~hub.settled /\ hub.wait > 0

\* A unicast frame to u: does u hear it (and, for a read, is the answer back)
Fate(u, heard) ==
    /\ heard => Reach(u) \/ InLine
    /\ ~heard => Lossy \/ ~Reach(u) \/ Shut(u)

\* Where it leaves the hub
HubAfter(u, heard) ==
    IF Chan[u] = 0 THEN hub
    ELSE IF heard \/ (Reach(u) /\ hub.settled) THEN HubOn(Chan[u])
    ELSE Switching(Chan[u], IF Reach(u) THEN hub.wait ELSE SettleWaits)

Unicast(u, heard) == Fate(u, heard) /\ hub' = HubAfter(u, heard)

\* CONFIRM's second has passed since; APPLY_WAIT_MS outlasts every settle
Paused(h) == [h EXCEPT !.wait = IF @ = 0 THEN 0 ELSE @ - 1]
Outwaited(h) == [h EXCEPT !.wait = 0]

\* A broadcast frame is heard by exactly the modules H.
Broadcast(H) ==
    LET hearers == {u \in Ids : \/ Chan[u] = 0
                                \/ Chan[u] = hub.ch /\ hub.settled}
    IN  /\ H \subseteq hearers
        /\ ~Lossy => H = hearers

\* A module in session takes a chunk it does not have yet.
Taking(d, H, c) ==
    [u \in Ids |-> IF u \in H /\ d[u].state = "receiving" /\ d[u].have[c] = 0
                   THEN [d[u] EXCEPT !.have[c] = run.img] ELSE d[u]]

\* FINALIZE checks the image against the metadata; only modules that are
\* RECEIVING act on it, and not before they have every chunk.
Checked(d, H) ==
    [u \in Ids |->
        IF u \notin H \/ d[u].state # "receiving" \/ 0 \in {d[u].have[c] : c \in Chunks}
        THEN d[u]
        ELSE [d[u] EXCEPT !.state = IF \A c \in Chunks : d[u].have[c] = d[u].meta
                                    THEN "verified" ELSE "error",
                          !.have = NoChunks]]

Cleared(d) == [d EXCEPT !.state = "idle", !.have = NoChunks]

\* The staged image becomes the firmware.
Booted(d) == [Cleared(d) EXCEPT !.fw = d.meta]

\* mayTransmit(_idleMs)
MayTransmit == quiet

\* Seeded fault: the group's first module is taken to be on the hub's channel.
ParkedAnywhere == grp.ch = 0 \/ hub.settled

\* parked(): is the hub on the group's channel, and settled
Parked == grp.ch = 0 \/ (hub.ch = grp.ch /\ hub.settled)

\* mayApply(): the bus has been quiet, nobody wrote to u, u is not due a poll
MayApply(u) == u \notin held

-----------------------------------------------------------------------------
(* The record: two files, alternating.                                     *)

Readable == {i \in 0..1 : file[i].ok}

\* readRecord(0): the newer of the two, by its number
Latest ==
    IF Readable = {} THEN NoRecord
    ELSE file[CHOOSE i \in Readable : \A j \in Readable : file[j].seq <= file[i].seq]

NextSeq == Latest.seq + 1

\* Seeded fault: every run is written to the same file.
PathSame(seq) == 0

\* resPath(_seq & 1)
Path(seq) == seq % 2

WriteRecord(seq, state) ==
    file' = [file EXCEPT ![Path(seq)] = [seq |-> seq, ok |-> TRUE, state |-> state]]

-----------------------------------------------------------------------------
(* Steps shared by several phases.                                         *)

Goto(ph) == run' = [run EXCEPT !.ph = ph]

\* The member being worked on: _grp[_pos]
This == Min(grp.todo)

Set(u, m) == [mods EXCEPT ![u] = m]

\* dropMember(): count the try, give up after MAX_TRIES
Dropped(m) ==
    [m EXCEPT !.tries = @ + 1,
              !.st = IF m.tries + 1 >= MaxTries THEN "gaveUp" ELSE "pending"]

\* Back to PICK with what happened on record.  (PICK overwrites the target of
\* APPLY and the group; the model forgets them here.)
BackToPick ==
    /\ run' = [run EXCEPT !.ph = "pick", !.target = 0, !.tries = 0]
    /\ WriteRecord(run.seq, "running")

\* groupDone()
GroupDone == BackToPick /\ grp' = NoGroup

\* finish()
Finish(result) ==
    /\ run' = [NoRun EXCEPT !.seq = run.seq, !.img = run.img, !.result = result]
    /\ WriteRecord(run.seq, result)

\* Step of otaRunner_update() in phase ph
At(ph) == run.active /\ ~run.abort /\ run.ph = ph

\* Seeded fault: a module that is done stays first in line.
NextMemberStays == grp.todo

\* This done: the next member, or what follows when it was the last
NextMember == grp.todo \ {This}

\* What the runner does not touch: other callers' traffic and its bounds
Quietly == UNCHANGED <<quiet, held, kept, foreign, starts, resets>>
\* ... nor the modules and the record
Silently == Quietly /\ UNCHANGED <<file, dev, applied>>

-----------------------------------------------------------------------------
(* PICK and WAIT_APPLY.                                                    *)

ReadyToApply == {u \in In({"verified"}) : MayApply(u)}

\* pickGroup(): the channel the hub is on first; same channel, same pacing
Leader ==
    LET here == {u \in In({"pending"}) : Chan[u] = hub.ch}
    IN  Min(IF here # {} THEN here ELSE In({"pending"}))
Alike(u) == Chan[u] = Chan[Leader] /\ (mods[u].tries > 0) = (mods[Leader].tries > 0)
Candidates == {u \in In({"pending"}) : u >= Leader /\ Alike(u)}
Picked == {u \in Candidates : Cardinality({v \in Candidates : v < u}) < GroupMax}

\* Seeded fault: modules that never answered do not count as failed.
AllWellButSilent == In({"pending", "failed", "gaveUp"}) = {}

\* countFailed() == 0 && countPending() == 0
AllWell == In({"pending", "noReply", "failed", "gaveUp"}) = {}

\* A verified module whose moment has come goes first.
PickApply ==
    /\ At("pick") \/ At("waitApply")
    /\ ReadyToApply # {}
    /\ run' = [run EXCEPT !.ph = "apply", !.target = Min(ReadyToApply)]
    /\ Silently /\ UNCHANGED <<mods, grp, hub>>

PickGroup ==
    /\ At("pick")
    /\ ReadyToApply = {}
    /\ In({"pending"}) # {}
    /\ grp' = [grp EXCEPT !.members = Picked, !.ch = Chan[Leader], !.todo = Picked,
                          !.sub = 0]
    /\ Goto("probe")
    /\ Silently /\ UNCHANGED <<mods, hub>>

PickWait ==
    /\ At("pick")
    /\ ReadyToApply = {} /\ In({"pending"}) = {}
    /\ In({"verified"}) # {}
    /\ Goto("waitApply")
    /\ Silently /\ UNCHANGED <<mods, grp, hub>>

PickFinish ==
    /\ At("pick")
    /\ In({"pending", "verified"}) = {}
    /\ Finish(IF AllWell THEN "ok" ELSE "failed")
    /\ Quietly /\ UNCHANGED <<mods, grp, hub, dev, applied>>

-----------------------------------------------------------------------------
(* A group, from PROBE to the finalize check.                              *)

\* parked(): the crossing frame that moves the hub (lost by design)
Park ==
    /\ \/ At("probe") \/ At("meta") \/ At("stream") \/ At("repairSend")
       \/ At("finalize")
       \/ At("repair") /\ grp.todo # {} /\ mods[This].st = "session"
    /\ MayTransmit
    /\ grp.ch # 0 /\ hub.ch # grp.ch
    /\ hub' = IF InLine THEN HubOn(grp.ch) ELSE Switching(grp.ch, SettleWaits)
    /\ Silently /\ UNCHANGED <<run, mods, grp>>

\* Members left after a pass over the group, given the new mods
Still(states) == {u \in grp.members : mods'[u].st \in states}

\* ++_sub >= 3
Silent == grp.sub + 1 >= ReadTries

Probe(ok) ==
    /\ At("probe") /\ MayTransmit /\ Parked
    /\ Unicast(This, ok)
    /\ mods' =
         IF ok THEN Set(This, [mods[This] EXCEPT !.before = IF @ = 0 THEN dev[This].fw ELSE @])
         ELSE IF Silent THEN Set(This, [mods[This] EXCEPT !.st = "noReply"])
         ELSE mods
    /\ IF ~ok /\ ~Silent
       THEN grp' = [grp EXCEPT !.sub = @ + 1] /\ UNCHANGED <<run, file>>
       ELSE IF NextMember # {}
       THEN grp' = [grp EXCEPT !.sub = 0, !.todo = NextMember] /\ UNCHANGED <<run, file>>
       ELSE IF Still({"pending"}) = {} THEN GroupDone
       ELSE /\ grp' = [grp EXCEPT !.sub = 0, !.todo = {}, !.members = Still({"pending"})]
            /\ Goto("meta") /\ UNCHANGED file
    /\ Quietly /\ UNCHANGED <<dev, applied>>

Meta(H) ==
    /\ At("meta") /\ MayTransmit /\ Parked
    /\ Broadcast(H)
    /\ dev' = [u \in Ids |-> IF u \in H THEN [dev[u] EXCEPT !.meta = run.img] ELSE dev[u]]
    /\ grp' = [grp EXCEPT !.todo = grp.members]
    /\ Goto("enter")
    /\ Quietly /\ UNCHANGED <<mods, file, hub, applied>>

\* Unicast: only this group enters the session; the staging area is erased.
Enter(heard) ==
    /\ At("enter") /\ MayTransmit
    /\ Unicast(This, heard)
    /\ dev' = IF heard
              THEN [dev EXCEPT ![This] = [@ EXCEPT !.state = "receiving", !.have = NoChunks]]
              ELSE dev
    /\ IF NextMember # {}
       THEN grp' = [grp EXCEPT !.todo = NextMember] /\ UNCHANGED run
       ELSE grp' = [grp EXCEPT !.todo = grp.members] /\ Goto("enterCheck")
    /\ Quietly /\ UNCHANGED <<mods, file, applied>>

EnterCheck(ok) ==
    /\ At("enterCheck") /\ MayTransmit
    /\ Unicast(This, ok)
    /\ mods' = IF ok /\ dev[This].state = "receiving"
               THEN Set(This, [mods[This] EXCEPT !.st = "session"])
               ELSE Set(This, Dropped(mods[This]))
    /\ IF NextMember # {}
       THEN grp' = [grp EXCEPT !.todo = NextMember] /\ UNCHANGED <<run, file>>
       ELSE IF Still({"session"}) = {} THEN GroupDone
       ELSE /\ grp' = [grp EXCEPT !.todo = {}, !.members = Still({"session"}), !.idx = 0]
            /\ Goto("stream") /\ UNCHANGED file
    /\ Quietly /\ UNCHANGED <<dev, applied>>

Stream(H) ==
    /\ At("stream") /\ MayTransmit /\ Parked
    /\ Broadcast(H)
    /\ dev' = Taking(dev, H, grp.idx)
    /\ IF grp.idx + 1 < Total
       THEN grp' = [grp EXCEPT !.idx = @ + 1] /\ UNCHANGED run
       ELSE /\ grp' = [grp EXCEPT !.idx = 0, !.round = 1, !.todo = grp.members,
                                  !.sub = 0, !.missing = {}]
            /\ Goto("repair")
    /\ Quietly /\ UNCHANGED <<mods, file, hub, applied>>

RoundsSpent == grp.round >= RepairRounds

\* Every member has been looked at: send what is missing anywhere, or finalize.
RepairRound ==
    /\ At("repair") /\ MayTransmit
    /\ grp.todo = {}
    /\ Goto(IF grp.missing = {} \/ RoundsSpent THEN "finalize" ELSE "repairSend")
    /\ Silently /\ UNCHANGED <<mods, grp, hub>>

RepairSkip ==
    /\ At("repair") /\ MayTransmit
    /\ grp.todo # {} /\ mods[This].st # "session"
    /\ grp' = [grp EXCEPT !.todo = NextMember]
    /\ Silently /\ UNCHANGED <<run, mods, hub>>

Missing(u) == {c \in Chunks : dev'[u].have[c] = 0}

\* One member's state, then its bitmap; a member that left the session is
\* dropped.  H hears the keepalive, if one was due.
RepairRead(H, stateOk, mapOk) ==
    /\ At("repair") /\ MayTransmit
    /\ grp.todo # {} /\ mods[This].st = "session"
    /\ Parked
    /\ H # {} => Broadcast(H)
    /\ dev' = Taking(dev, H, 0)
    /\ mapOk => stateOk
    /\ Unicast(This, stateOk) /\ Unicast(This, mapOk)
    /\ \/ /\ ~stateOk \/ dev[This].state # "receiving"
          /\ mods' = Set(This, Dropped(mods[This]))
          /\ grp' = [grp EXCEPT !.todo = NextMember]
       \/ /\ stateOk /\ dev[This].state = "receiving" /\ ~mapOk
          /\ mods' = IF Silent THEN Set(This, Dropped(mods[This])) ELSE mods
          /\ grp' = IF Silent THEN [grp EXCEPT !.sub = 0, !.todo = NextMember]
                    ELSE [grp EXCEPT !.sub = @ + 1]
       \/ /\ dev[This].state = "receiving" /\ mapOk
          /\ mods' = IF Missing(This) # {} THEN mods
                     ELSE Set(This, [mods[This] EXCEPT !.st = "complete"])
          /\ grp' = [grp EXCEPT !.sub = 0, !.todo = NextMember,
                                !.missing = @ \cup Missing(This)]
    /\ Quietly /\ UNCHANGED <<run, file, applied>>

\* The repair list, in order; then another look at everybody
RepairSend(H) ==
    /\ At("repairSend") /\ MayTransmit /\ Parked
    /\ Broadcast(H)
    /\ dev' = Taking(dev, H, Min(grp.missing))
    /\ LET rest == grp.missing \ {Min(grp.missing)}
       IN  IF rest # {}
           THEN grp' = [grp EXCEPT !.missing = rest] /\ UNCHANGED run
           ELSE /\ grp' = [grp EXCEPT !.missing = {}, !.round = @ + 1,
                                      !.todo = grp.members]
                /\ Goto("repair")
    /\ Quietly /\ UNCHANGED <<mods, file, hub, applied>>

\* K hears the keepalive, if one was due; H hears FINALIZE.
Finalize(K, H) ==
    /\ At("finalize") /\ MayTransmit /\ Parked
    /\ K # {} => Broadcast(K)
    /\ Broadcast(H)
    /\ dev' = Checked(Taking(dev, K, 0), H)
    /\ grp' = [grp EXCEPT !.todo = grp.members, !.sub = 0, !.missing = {}]
    /\ Goto("finalizeCheck")
    /\ Quietly /\ UNCHANGED <<mods, file, hub, applied>>

\* Seeded fault: only members still in session are looked at.
OpenSession == {"session"}

\* Members whose outcome the finalize check has to read
Open == {"session", "complete"}

FinalizeSkip ==
    /\ At("finalizeCheck") /\ MayTransmit
    /\ grp.todo # {} /\ mods[This].st \notin Open
    /\ grp' = [grp EXCEPT !.todo = NextMember]
    /\ Silently /\ UNCHANGED <<run, mods, hub>>

\* What the module's state register says about the image
Outcome(u) ==
    CASE dev[u].state = "verified" -> [mods[u] EXCEPT !.st = "verified"]
      [] dev[u].state = "error"    -> [mods[u] EXCEPT !.st = "failed"]
      [] OTHER                     -> Dropped(mods[u])

FinalizeRead(ok) ==
    /\ At("finalizeCheck") /\ MayTransmit
    /\ grp.todo # {} /\ mods[This].st \in Open
    /\ Unicast(This, ok)
    /\ mods' = IF ok THEN Set(This, Outcome(This))
               ELSE IF Silent THEN Set(This, Dropped(mods[This])) ELSE mods
    /\ grp' = IF ok \/ Silent THEN [grp EXCEPT !.sub = 0, !.todo = NextMember]
              ELSE [grp EXCEPT !.sub = @ + 1]
    /\ Quietly /\ UNCHANGED <<run, file, dev, applied>>

FinalizeDone ==
    /\ At("finalizeCheck") /\ MayTransmit
    /\ grp.todo = {}
    /\ GroupDone
    /\ Quietly /\ UNCHANGED <<mods, hub, dev, applied>>

-----------------------------------------------------------------------------
(* APPLY.                                                                  *)

\* Seeded fault: the moment PICK saw is trusted.
StillMayApplyTrusted == TRUE

\* mayApply() asked again at the moment of sending
StillMayApply == MayApply(run.target)

ApplyPutOff ==
    /\ At("apply")
    /\ ~StillMayApply
    /\ run' = [run EXCEPT !.ph = "pick", !.target = 0]
    /\ Silently /\ UNCHANGED <<mods, grp, hub>>

\* A module that hears APPLY and is VERIFIED boots its staged image.
ApplySend(heard) ==
    /\ At("apply")
    /\ StillMayApply
    /\ Fate(run.target, heard)
    /\ hub' = Outwaited(HubAfter(run.target, heard))
    /\ LET boots == heard /\ dev[run.target].state = "verified"
       IN  /\ dev' = IF boots
                     THEN [dev EXCEPT ![run.target] = Booted(@)]
                     ELSE dev
           /\ applied' = IF boots THEN applied \cup {run.target} ELSE applied
    /\ run' = [run EXCEPT !.ph = "confirm", !.tries = 0]
    /\ Quietly /\ UNCHANGED <<mods, grp, file>>

Confirm(ok) ==
    /\ At("confirm") /\ MayTransmit
    /\ Fate(run.target, ok)
    /\ hub' = Paused(HubAfter(run.target, ok))
    /\ LET u == run.target
           new == IF dev[u].fw # mods[u].before THEN "updated" ELSE "same"
           last == run.tries + 1 >= ConfirmTries
       IN  IF ok \/ last
           THEN /\ mods' = Set(u, [mods[u] EXCEPT !.st = IF ok THEN new ELSE "failed"])
                /\ BackToPick
           ELSE /\ run' = [run EXCEPT !.tries = @ + 1]
                /\ UNCHANGED <<mods, file>>
    /\ Quietly /\ UNCHANGED <<grp, dev, applied>>

-----------------------------------------------------------------------------
(* The console and the rest of the gateway.                                *)

\* Seeded fault: the rows of the run before are kept.
RowsKept == [u \in Ids |-> [mods[u] EXCEPT !.st = "pending", !.tries = 0]]

Rows == Fresh

\* OTA START, once every refusal of cmdStart() is passed
Start(img) ==
    /\ ~run.active
    /\ starts < MaxRuns
    /\ Leftover \/ \A u \in Ids : dev[u].state # "receiving"
    /\ run' = [NoRun EXCEPT !.active = TRUE, !.seq = NextSeq, !.img = img,
                            !.result = "running"]
    /\ mods' = Rows
    /\ grp' = NoGroup
    /\ WriteRecord(NextSeq, "running")
    /\ applied' = {}
    /\ kept' = Latest
    /\ starts' = starts + 1
    /\ UNCHANGED <<hub, quiet, held, dev, foreign, resets>>

\* OTA ABORT
RequestAbort ==
    /\ run.active
    /\ run' = [run EXCEPT !.abort = TRUE]
    /\ UNCHANGED <<mods, grp, file, hub, quiet, held, dev, applied, kept, foreign,
                   starts, resets>>

\* Seeded fault: earlier groups are not told.
HoldersOfGroup == In({"session", "complete"})

\* The modules doAbort() tells
Holders == In({"session", "complete", "verified"})

\* Where the hub is when doAbort() comes to u
HubBefore(u) ==
    LET wired == {v \in Holders : v < u /\ Chan[v] # 0}
    IN  IF wired = {} THEN hub.ch ELSE Chan[Max(wired)]

\* ... and is it settled, with no crossing since
SettledBefore(u) ==
    /\ hub.settled
    /\ \A v \in Holders : v < u => Chan[v] \in {0, hub.ch}

\* doAbort(): one coil after the other, the crossings among them lost, and
\* perhaps those after a crossing; H heard
Abort(H) ==
    /\ run.active /\ run.abort
    /\ LET reached == {u \in Holders : InLine \/ Chan[u] \in {0, HubBefore(u)}}
           surely == {u \in reached : \/ Chan[u] = 0 \/ SettleWaits = 0
                                      \/ SettledBefore(u)}
           wired == {u \in Holders : Chan[u] # 0}
       IN  /\ H \subseteq reached
           /\ ~Lossy => surely \subseteq H
           /\ hub' = IF wired = {} THEN hub
                     ELSE IF Max(wired) \in H THEN HubOn(Chan[Max(wired)])
                     ELSE Switching(Chan[Max(wired)], SettleWaits)
    /\ dev' = [u \in Ids |-> IF u \in H THEN Cleared(dev[u]) ELSE dev[u]]
    /\ mods' = [u \in Ids |-> IF u \in Holders THEN [mods[u] EXCEPT !.st = "pending"]
                              ELSE mods[u]]
    /\ Finish("aborted")
    /\ grp' = NoGroup
    /\ Quietly /\ UNCHANGED applied

\* A bridge or a sweep asks u.
Foreign(u) ==
    /\ run.active
    /\ foreign < MaxForeign
    /\ foreign' = foreign + 1
    /\ quiet' = FALSE
    /\ held' = Ids
    /\ hub' = IF Chan[u] \in {0, hub.ch} THEN hub ELSE Switching(Chan[u], SettleWaits)
    /\ UNCHANGED <<run, mods, grp, file, dev, applied, kept, starts, resets>>

\* idle= has passed since the last foreign request.
Lull ==
    /\ ~quiet
    /\ quiet' = TRUE
    /\ UNCHANGED <<run, mods, grp, file, hub, held, dev, applied, kept, foreign,
                   starts, resets>>

\* apply_idle= and apply_quiet= have passed for u, and no poll of it is due.
Release(u) ==
    /\ u \in held
    /\ held' = held \ {u}
    /\ UNCHANGED <<run, mods, grp, file, hub, quiet, dev, applied, kept, foreign,
                   starts, resets>>

Settle ==
    /\ ~hub.settled
    /\ hub' = HubOn(hub.ch)
    /\ UNCHANGED <<run, mods, grp, file, quiet, held, dev, applied, kept, foreign,
                   starts, resets>>

\* A module leaves a session nobody keeps alive (90 s, bitmap wiped).
Expire(u) ==
    /\ dev[u].state = "receiving"
    /\ ~quiet \/ Lossy \/ ~run.active
    /\ dev' = [dev EXCEPT ![u] = [@ EXCEPT !.state = "timedOut", !.have = NoChunks]]
    /\ UNCHANGED <<run, mods, grp, file, hub, quiet, held, applied, kept, foreign,
                   starts, resets>>

\* The gateway resets, perhaps in the middle of writing the record and perhaps
\* taking the modules' power with it.
Reset(torn, cycled) ==
    /\ resets < MaxResets
    /\ resets' = resets + 1
    /\ torn => run.active
    /\ file' = IF torn THEN [file EXCEPT ![Path(run.seq)] = NoRecord] ELSE file
    /\ dev' = IF cycled THEN [u \in Ids |-> Cleared(dev[u])] ELSE dev
    /\ run' = NoRun /\ mods' = Fresh /\ grp' = NoGroup
    /\ hub' = HubOn(0)
    /\ quiet' = TRUE /\ held' = {}
    /\ applied' = {}
    /\ UNCHANGED <<kept, foreign, starts>>

Init ==
    /\ run = NoRun /\ mods = Fresh /\ grp = NoGroup
    /\ file = [i \in 0..1 |-> NoRecord]
    /\ hub = HubOn(0)
    /\ quiet \in BOOLEAN /\ held \in {{}, Ids}    \* the bridges were here first
    /\ dev \in [Ids -> [state : {"idle"}, have : {NoChunks}, meta : {0}, fw : Firmware]]
    /\ applied = {} /\ kept = NoRecord
    /\ foreign = 0 /\ starts = 0 /\ resets = 0

\* One call of otaRunner_update()
Step ==
    \/ PickApply \/ PickGroup \/ PickWait \/ PickFinish
    \/ Park
    \/ RepairRound \/ RepairSkip \/ FinalizeSkip \/ FinalizeDone
    \/ ApplyPutOff
    \/ \E ok \in BOOLEAN :
           \/ Probe(ok) \/ Enter(ok) \/ EnterCheck(ok) \/ FinalizeRead(ok)
           \/ ApplySend(ok) \/ Confirm(ok)
    \/ \E H \in SUBSET Ids :
           \/ Meta(H) \/ Stream(H) \/ RepairSend(H) \/ Abort(H)
           \/ \E K \in SUBSET Ids : Finalize(K, H)
           \/ \E stateOk, mapOk \in BOOLEAN : RepairRead(H, stateOk, mapOk)

Next ==
    \/ Step
    \/ \E img \in Images : Start(img)
    \/ RequestAbort
    \/ \E u \in Ids : Foreign(u) \/ Release(u) \/ Expire(u)
    \/ Lull
    \/ Settle
    \/ \E torn, cycled \in BOOLEAN : Reset(torn, cycled)

Spec == Init /\ [][Next]_vars

\* loop() steps the runner on every pass; a hub settles, and traffic that has
\* stopped leaves the bus quiet and every module free to be rebooted.
Fairness ==
    /\ WF_vars(Step) /\ WF_vars(Lull) /\ WF_vars(Settle)
    /\ \A u \in Ids : WF_vars(Release(u))

FairSpec == Spec /\ Fairness

-----------------------------------------------------------------------------
(* Properties.                                                             *)

\* A group is left only when every one of its modules is decided: whatever was
\* lost, nobody is left in a session nobody is looking after.
NoneStranded ==
    run.active /\ run.ph \in {"pick", "waitApply"} => In({"session", "complete"}) = {}

\* A module recorded as verified holds exactly this run's image, and one
\* recorded as updated runs it, although either may have been left in any state
\* by a run that was interrupted.
RecordedIsTrue ==
    /\ \A u \in In({"verified"}) :
           run.active /\ u \notin applied =>
               dev[u].state = "verified" /\ dev[u].meta = run.img
    /\ \A u \in In({"updated"}) : dev[u].fw = run.img

\* A module is never rebooted while somebody may want it ("re-check at the
\* moment of sending: the bus and the module must still be quiet").
RebootsOnlyUnheld == [][(applied' \ applied) \cap held = {}]_vars

\* The record of the run before survives the current one, resets included
\* ("alternating, so the two latest runs survive").
PreviousRunKept ==
    run.active /\ kept.ok => \E i \in 0..1 : file[i] = kept

\* On a bus that loses nothing but what a crossing or a settling hub swallows or
\* refuses, where other callers disturb a run less often than MAX_TRIES, nobody
\* is written off: the crossings, the reads that fail unsent after them, expired
\* sessions and resumed groups are all made up for.
HealthySucceeds == In({"noReply", "gaveUp", "failed"}) = {}

\* Once other traffic stops, every run ends by itself, however many frames are
\* lost and whenever sessions expire.
RunEnds == run.active ~> ~run.active

\* "4 a module applied": a module recorded as applied did act on APPLY.
AppliedMeansApplied == In({"updated", "same"}) \subseteq applied

\* The run keeps what an update run promises.
StateOf ==
    IF run.active THEN "running" ELSE run.result
OutcomeOf(st) ==
    CASE st \in {"pending", "session", "complete"} -> "todo"
      [] st = "verified" -> "staged"
      [] st \in {"updated", "same"} -> "done"
      [] OTHER -> "lost"
Promise == INSTANCE OtaPromise WITH
    state <- StateOf, outcome <- [u \in Ids |-> OutcomeOf(mods[u].st)]
KeepsPromise == Promise!Spec
=============================================================================
