------------------------------- MODULE Panel -------------------------------
(***************************************************************************)
(* The front panel of the gateway (src/src/panel.cpp): five buttons, the   *)
(* sweeps they start, and four relay outputs of which one normally carries *)
(* the shelf's power while the others are status lamps.                    *)
(*                                                                         *)
(* The firmware is one cooperative loop().  What can touch the panel in    *)
(* one iteration, in the order main.cpp calls it, is a console command     *)
(* (LAMP, or a SAVE that re-applies the configuration), panel_update() and *)
(* a reset started by the scheduler; pc says which comes next.  Between    *)
(* two iterations time passes.  up is the true uptime; the code only sees  *)
(* millis(), which is up modulo Wrap (2^32 in the firmware).               *)
(***************************************************************************)
EXTENDS Integers, Sequences, FiniteSets

CONSTANTS
    NOutputs,      \* relay outputs (PANEL_OUTPUTS, four on the Opta)
    Buttons,       \* the panel buttons, a set of naturals: scan order
    Configs,       \* the configurations of the gateway
    Edits,         \* which configuration a SAVE may replace by which
    Facts,         \* what the rest of the gateway can report to the lamps
    ForceTimes,    \* durations a LAMP command can ask for
    Windows,       \* windows of a slot in an all_8 sweep (8 in the code)
    Wrap,          \* modulus of millis()
    Horizon,       \* bound on the uptime followed
    LoopMax,       \* longest time between two iterations of loop()
    ResetMs, DwellMs, TestStepMs,          \* panel.reset_ms, lamp_dwell_ms
    StepOnMs, StepOffMs, StepUnlockMs      \* pacing of the sweeps

Outputs == 1..NOutputs
NotForced == 0                 \* _forceOut = 0xFF
LampOff == NOutputs + 1        \* PANEL_LAMP_OFF

Sweeps == {"all_on", "all_off", "all_unlock", "all_8"}
Actions == Sweeps \cup {"none", "reset", "lamp_test"}
Sources == {"none", "ready", "busy", "fault", "link", "client", "sweep",
            "reset", "shelf"}

ConfigType == [enabled : BOOLEAN, act : [Buttons -> Actions], lamps : BOOLEAN,
               out : [Outputs -> Sources], slots : Nat]
FactsType == [fault : BOOLEAN, traffic : BOOLEAN, link : BOOLEAN,
              client : BOOLEAN, ota : BOOLEAN]

ASSUME PanelAssumption ==
    /\ NOutputs \in Nat \ {0}
    /\ Buttons \subseteq Nat /\ IsFiniteSet(Buttons)
    /\ Configs \subseteq ConfigType
    /\ Edits \subseteq Configs \X Configs
    /\ Facts \subseteq FactsType
    /\ ForceTimes \subseteq Nat
    /\ Windows \in Nat \ {0}
    /\ Wrap \in Nat \ {0}
    /\ Horizon \in Nat \ {0}
    /\ LoopMax \in Nat \ {0}
    /\ ResetMs \in Nat \ {0}
    /\ DwellMs \in Nat /\ TestStepMs \in Nat
    /\ StepOnMs \in Nat /\ StepOffMs \in Nat /\ StepUnlockMs \in Nat

VARIABLES
    pc,          \* who runs next in this iteration of loop()
    up,          \* true uptime
    cfg,         \* the applied configuration
    sweep,       \* _running, _index, _total, _nextStepAt
    resetUntil,  \* _resetUntil, 0 when no reset is running
    test,        \* _lampTestStep, _lampTestNextAt
    force,       \* _forceOut, _forceUntil
    lit,         \* _outLit: the level each output is driven to
    since,       \* _outSince: when each lamp last switched, 0 = free to switch
    facts        \* what the last panel_update() read from the other parts

\* History: never read by an action.
VARIABLES
    resetEnd,    \* true deadline of the last reset that was started
    walk         \* bus writes of the current sweep: slot, window, true time

history == <<resetEnd, walk>>
vars == <<pc, up, cfg, sweep, resetUntil, test, force, lit, since, facts,
          resetEnd, walk>>

-----------------------------------------------------------------------------
(* The clock, as the code compares it.                                     *)

Millis == up % Wrap

\* (int32_t)(a - b) < 0, the comparison that survives the wrap
Before(a, b) == ((a - b) % Wrap) >= (Wrap + 1) \div 2

\* the unsigned difference a - b
Elapsed(a, b) == ((a - b) % Wrap)

-----------------------------------------------------------------------------
(* Buttons and sweeps.                                                     *)

IsShelf(i) == cfg.out[i] = "shelf"

\* _total as startSweep() sets it
SweepLength(action) ==
    CASE action = "reset" -> 0
      [] action = "all_8" -> cfg.slots * Windows
      [] OTHER -> cfg.slots

Pressed(presses) == {b \in presses : cfg.enabled /\ cfg.act[b] # "none"}
SweepPresses(presses) == {b \in Pressed(presses) : cfg.act[b] # "lamp_test"}
TestPressed(presses) == \E b \in Pressed(presses) : cfg.act[b] = "lamp_test"
ResetPressed(presses) == \E b \in Pressed(presses) : cfg.act[b] = "reset"

ResetExpired == resetUntil # 0 /\ Millis >= resetUntil

\* Seeded fault: any press, not only a reset, ends the reset that is running.
ResetAfterPressEndsReset(presses) ==
    IF ResetPressed(presses) THEN (Millis + ResetMs) % Wrap
    ELSE IF ResetExpired \/ Pressed(presses) # {} THEN 0 ELSE resetUntil

\* _resetUntil after the expiry check and the buttons of one panel_update()
ResetAfter(presses) ==
    IF ResetPressed(presses) THEN (Millis + ResetMs) % Wrap
    ELSE IF ResetExpired THEN 0 ELSE resetUntil

StartSweep(action) ==
    [running |-> action, index |-> 0, total |-> SweepLength(action),
     nextAt |-> Millis]

\* The sweep after the expiry check and the buttons: with several presses in
\* one scan the highest input wins.
SweepAfter(presses) ==
    LET last == {b \in SweepPresses(presses) :
                    \A c \in SweepPresses(presses) : c <= b}
    IN  IF last # {} THEN StartSweep(cfg.act[CHOOSE b \in last : TRUE])
        ELSE IF ResetExpired THEN [sweep EXCEPT !.running = "none"]
        ELSE sweep

\* Seeded fault: a position past the end of the cabinet is not refused.
SlotOfUnchecked(s) ==
    (IF s.running = "all_8" THEN s.index \div Windows ELSE s.index) + 1

\* The slot of the cabinet a sweep position addresses, 0 past the end
SlotOf(s) ==
    LET k == IF s.running = "all_8" THEN s.index \div Windows ELSE s.index
    IN  IF k < cfg.slots THEN k + 1 ELSE 0

WindowOf(s) == IF s.running = "all_8" THEN (s.index % Windows) + 1 ELSE 0

StepDue(s) == s.running \in Sweeps /\ Millis >= s.nextAt

Pace(action) ==
    CASE action = "all_unlock" -> StepUnlockMs
      [] action = "all_off" -> StepOffMs
      [] OTHER -> StepOnMs

\* Seeded fault: the next step is due as soon as this one is done.
StepSweepUnpaced(s) ==
    IF SlotOf(s) = 0
    THEN [s EXCEPT !.running = "none", !.total = 0]
    ELSE LET ended == s.index + 1 >= s.total
         IN  [running |-> IF ended THEN "none" ELSE s.running,
              index |-> s.index + 1,
              total |-> IF ended THEN 0 ELSE s.total,
              nextAt |-> Millis]

\* Seeded fault: the walk ends one position early.
StepSweepShort(s) ==
    IF SlotOf(s) = 0
    THEN [s EXCEPT !.running = "none", !.total = 0]
    ELSE LET ended == s.index + 2 >= s.total
         IN  [running |-> IF ended THEN "none" ELSE s.running,
              index |-> IF ended THEN s.total ELSE s.index + 1,
              total |-> IF ended THEN 0 ELSE s.total,
              nextAt |-> (Millis + Pace(s.running)) % Wrap]

\* stepSweep(): one slot (one window of it, for all_8) per call
StepSweep(s) ==
    IF SlotOf(s) = 0
    THEN [s EXCEPT !.running = "none", !.total = 0]
    ELSE LET ended == s.index + 1 >= s.total
             running == IF ended THEN "none" ELSE s.running
         IN  [running |-> running,
              index |-> s.index + 1,
              total |-> IF ended THEN 0 ELSE s.total,
              nextAt |-> (Millis + Pace(running)) % Wrap]

-----------------------------------------------------------------------------
(* Forcing outputs: the LAMP command and the lamp test.                    *)

ForceRecord(o, ms) == [out |-> o, until |-> (Millis + ms) % Wrap]

\* Seeded fault: forcing one output puts all the others out, shelf included.
ForcedLevelsAll(o) == [i \in Outputs |-> o # LampOff /\ i = o]

\* panel_forceLamp(): every output but the shelf's is driven
ForcedLevels(o) ==
    [i \in Outputs |-> IF IsShelf(i) THEN lit[i] ELSE o # LampOff /\ i = o]

TestAfter(presses) ==
    IF TestPressed(presses) THEN [nextAt |-> Millis, step |-> 1] ELSE test

TestDue(t) == t.step # 0 /\ Millis >= t.nextAt

\* the output this call of panel_update() forces for a lamp test that has
\* reached t.step: the first from there on that is no shelf, 0 if none is
TestForces(t) ==
    LET left  == {o \in Outputs : o >= t.step /\ ~IsShelf(o)}
        first == {o \in left : \A q \in left : o <= q}
    IN  IF TestDue(t) /\ first # {} THEN CHOOSE o \in first : TRUE
                                    ELSE NotForced

LampTest(t) ==
    LET o == TestForces(t)
    IN  IF ~TestDue(t) THEN t
        ELSE IF o = NotForced THEN [t EXCEPT !.step = 0]
        ELSE [nextAt |-> (Millis + TestStepMs) % Wrap, step |-> o + 1]

-----------------------------------------------------------------------------
(* The outputs.                                                            *)

\* gatewayState(): the gateway's one state, worst news first
GatewayState(f, reset, s) ==
    CASE reset # 0 \/ f.fault -> "fault"
      [] reset = 0 /\ ~f.fault /\ (s.running # "none" \/ f.traffic) -> "busy"
      [] OTHER -> "ready"

SourceTrue(src, f, reset, s) ==
    CASE src \in {"ready", "busy", "fault"} -> src = GatewayState(f, reset, s)
      [] src = "link" -> f.link
      [] src = "client" -> f.client
      [] src = "sweep" -> s.running # "none"
      [] src = "reset" -> reset # 0
      [] src = "shelf" -> reset = 0
      [] OTHER -> FALSE

\* Seeded fault: the update's "light every lamp" is forgotten.
WantNoOta(i, f, reset, s) == SourceTrue(cfg.out[i], f, reset, s)

\* Every status lamp is lit while a module update runs
Want(i, f, reset, s) ==
    \/ f.ota /\ cfg.out[i] \notin {"none", "shelf"}
    \/ SourceTrue(cfg.out[i], f, reset, s)

\* Seeded fault: the dwell holds the shelf's relay back as well.
HeldShelfToo(i, since1) ==
    \/ ~cfg.lamps /\ ~IsShelf(i)
    \/ since1[i] # 0 /\ Elapsed(Millis, since1[i]) < DwellMs

\* What keeps lampUpdate() from switching output i now
Held(i, since1) ==
    \/ ~cfg.lamps /\ ~IsShelf(i)
    \/ ~IsShelf(i) /\ since1[i] # 0 /\ Elapsed(Millis, since1[i]) < DwellMs

Forcing(fo) == fo.out # NotForced /\ Before(Millis, fo.until)
ForceOver(fo) == fo.out # NotForced /\ ~Before(Millis, fo.until)

\* lampUpdate(): fo and level are the force and the levels as the lamp test
\* has left them in this call.
LampUpdate(f, fo, level, reset, s) ==
    LET since1 == IF ForceOver(fo) THEN [i \in Outputs |-> 0] ELSE since
        Switch(i) == Want(i, f, reset, s) # level[i] /\ ~Held(i, since1)
    IN  IF Forcing(fo)
        THEN force' = fo /\ lit' = level /\ since' = since
        ELSE /\ force' = IF ForceOver(fo) THEN [fo EXCEPT !.out = NotForced]
                                          ELSE fo
             /\ lit' = [i \in Outputs |->
                           IF Switch(i) THEN ~level[i] ELSE level[i]]
             /\ since' = [i \in Outputs |->
                             IF Switch(i) THEN Millis ELSE since1[i]]

-----------------------------------------------------------------------------
(* The actions.                                                            *)

\* panel_begin(), after gwConfig_begin() has applied a configuration
Init ==
    /\ pc = "console"
    /\ up = 1
    /\ cfg \in Configs
    /\ sweep = [running |-> "none", index |-> 0, total |-> 0, nextAt |-> 0]
    /\ resetUntil = 0
    /\ test = [nextAt |-> 0, step |-> 0]
    /\ force = [out |-> NotForced, until |-> 0]
    /\ lit = [i \in Outputs |-> IsShelf(i)]
    /\ since = [i \in Outputs |-> 0]
    /\ facts \in Facts
    /\ resetEnd = 0
    /\ walk = <<>>

\* No console command touches the panel in this iteration.
NoCommand ==
    /\ pc = "console"
    /\ pc' = "panel"
    /\ UNCHANGED <<up, cfg, sweep, resetUntil, test, force, lit, since, facts,
                   history>>

\* LAMP <n>|off [ms]
LampCommand(o, ms) ==
    /\ pc = "console"
    /\ pc' = "panel"
    /\ force' = ForceRecord(o, ms)
    /\ lit' = ForcedLevels(o)
    /\ UNCHANGED <<up, cfg, sweep, resetUntil, test, since, facts, history>>

\* SAVE: panel_applyConfig() with the committed configuration
ApplyConfig(c) ==
    /\ pc = "console"
    /\ <<cfg, c>> \in Edits
    /\ pc' = "panel"
    /\ cfg' = c
    /\ lit' = [i \in Outputs |-> lit[i] /\ (cfg.lamps /\ ~c.lamps => IsShelf(i))]
    /\ since' = [i \in Outputs |-> 0]
    /\ UNCHANGED <<up, sweep, resetUntil, test, force, facts, history>>

\* panel_update(): presses are the inputs whose press has just matured, f is
\* what the other parts of the gateway answer.
PanelUpdate(presses, f) ==
    LET s  == SweepAfter(presses)
        t  == TestAfter(presses)
        s1 == IF StepDue(s) THEN StepSweep(s) ELSE s
        o  == TestForces(t)
        walked == IF SweepPresses(presses) # {} THEN <<>> ELSE walk
    IN  /\ pc = "panel"
        /\ pc' = "sched"
        /\ resetUntil' = ResetAfter(presses)
        /\ sweep' = s1
        /\ test' = LampTest(t)
        /\ LampUpdate(f,
                      IF o # NotForced THEN ForceRecord(o, TestStepMs) ELSE force,
                      IF o # NotForced THEN ForcedLevels(o) ELSE lit,
                      ResetAfter(presses), s1)
        /\ facts' = f
        /\ resetEnd' = IF ResetPressed(presses) THEN up + ResetMs ELSE resetEnd
        /\ walk' = IF StepDue(s) /\ s1.index > s.index
                   THEN Append(walked, [kind |-> s.running, slot |-> SlotOf(s),
                                        window |-> WindowOf(s), at |-> up])
                   ELSE walked
        /\ UNCHANGED <<up, cfg>>

\* sched_update() has nothing due
NoSchedule ==
    /\ pc = "sched"
    /\ pc' = "rest"
    /\ UNCHANGED <<up, cfg, sweep, resetUntil, test, force, lit, since, facts,
                   history>>

\* sched_update() fires: panel_startReset()
SchedReset ==
    /\ pc = "sched"
    /\ pc' = "rest"
    /\ sweep' = StartSweep("reset")
    /\ resetUntil' = (Millis + ResetMs) % Wrap
    /\ resetEnd' = up + ResetMs
    /\ walk' = <<>>
    /\ UNCHANGED <<up, cfg, test, force, lit, since, facts>>

\* The rest of loop() takes d, with the uptime bounded by Horizon.
LoopAgain(d) ==
    /\ pc = "rest"
    /\ up + d <= Horizon
    /\ pc' = "console"
    /\ up' = up + d
    /\ UNCHANGED <<cfg, sweep, resetUntil, test, force, lit, since, facts,
                   history>>

Next ==
    \/ NoCommand
    \/ \E o \in Outputs \cup {LampOff}, ms \in ForceTimes : LampCommand(o, ms)
    \/ \E c \in Configs : ApplyConfig(c)
    \/ \E presses \in SUBSET Buttons, f \in Facts : PanelUpdate(presses, f)
    \/ NoSchedule
    \/ SchedReset
    \/ \E d \in 1..LoopMax : LoopAgain(d)

Spec == Init /\ [][Next]_vars

-----------------------------------------------------------------------------
(* Properties.                                                             *)

\* Type correctness of the panel's state.
TypeOK ==
    /\ pc \in {"console", "panel", "sched", "rest"}
    /\ up \in Nat
    /\ cfg \in ConfigType
    /\ sweep \in [running : Sweeps \cup {"none", "reset"}, index : Nat,
                  total : Nat, nextAt : Nat]
    /\ resetUntil \in Nat
    /\ test \in [step : 0..(NOutputs + 1), nextAt : Nat]
    /\ force \in [out : {NotForced, LampOff} \cup Outputs, until : Nat]
    /\ lit \in [Outputs -> BOOLEAN]
    /\ since \in [Outputs -> Nat]
    /\ facts \in FactsType
    /\ resetEnd \in Nat
    /\ walk \in Seq([kind : Actions, slot : Nat, window : Nat, at : Nat])

\* A powered shelf output goes dark only in a step that leaves a reset
\* running: no lamp test, LAMP command, lamps-off switch, module update or
\* dwell ever cuts the cabinet (isShelf() and its callers).
ShelfCutOnlyByReset ==
    [][\A i \in Outputs : IsShelf(i) /\ lit[i] /\ ~lit'[i] => resetUntil' # 0]_vars

\* A shelf output that is dark is explained by a running reset or by a force
\* in progress, from the panel_update() that follows any re-mapping on: the
\* cabinet cannot be left without power by an order of events.
DarkShelfExplained ==
    pc # "panel" =>
        \A i \in Outputs : IsShelf(i) /\ ~lit[i] =>
            resetUntil # 0 \/ force.out # NotForced

\* Unless a force is in progress every panel_update() leaves the shelf's
\* relay saying exactly whether a reset is running ("a reset must start and
\* end on time"): neither the dwell nor the lamps switch delays it.
ShelfFollowsReset ==
    pc = "sched" /\ force.out = NotForced =>
        \A i \in Outputs : IsShelf(i) => (lit[i] <=> resetUntil = 0)

\* A reset lasts panel.reset_ms of true time: it is never over before its
\* deadline, whatever is pressed meanwhile, and the first panel_update() past
\* the deadline ends it.
ResetOnTime ==
    /\ up < resetEnd => resetUntil # 0
    /\ pc = "sched" /\ resetUntil # 0 => up < resetEnd

\* While a module update runs every status lamp is lit once its dwell allows
\* and no force is in progress, so nobody switches the cabinet off.
OtaLightsLamps ==
    pc = "sched" /\ facts.ota /\ force.out = NotForced /\ cfg.lamps =>
        \A i \in Outputs : cfg.out[i] \notin {"none", "shelf"} =>
            lit[i] \/ (since[i] # 0 /\ Elapsed(Millis, since[i]) < DwellMs)

\* The latches of an all_unlock sweep are never fired closer together than
\* panel.step_unlock_ms: the pause is a power budget.
UnlockPaced ==
    \A k \in 1..(Len(walk) - 1) :
        walk[k].kind = "all_unlock" => walk[k + 1].at - walk[k].at >= StepUnlockMs

\* A sweep never addresses a slot outside the cabinet that is configured at
\* that moment, even if a SAVE shrank the cabinet half way.
SweepStaysInCabinet ==
    [][walk' # walk /\ walk' # <<>> => walk'[Len(walk')].slot \in 1..cfg.slots]_vars

\* A sweep that runs to its end in an unchanged cabinet has addressed every
\* slot (every window of every slot, for all_8) exactly once.
SweepCoversCabinet ==
    [][ /\ sweep.running \in Sweeps /\ sweep'.running = "none"
        /\ sweep.total = SweepLength(sweep.running) /\ sweep'.index = sweep.total
        => /\ Len(walk') = sweep.total
           /\ {<<walk'[k].slot, walk'[k].window>> : k \in 1..Len(walk')} =
                (1..cfg.slots) \X
                (IF sweep.running = "all_8" THEN 1..Windows ELSE {0}) ]_vars

=============================================================================
