---------------------------- MODULE PanelProofs ----------------------------
(***************************************************************************)
(* Theorems about Panel, for every number of outputs, every set of         *)
(* buttons and configurations and every timing.  The ones about deadlines  *)
(* assume that millis() does not wrap within the uptime considered; the    *)
(* assumption is real: _resetUntil is compared with no regard to the wrap. *)
(***************************************************************************)
EXTENDS Panel, FiniteSetTheorems, WellFoundedInduction, TLAPS

\* A clock value is a number.
LEMMA ModType ==
    ASSUME NEW a \in Int, NEW n \in Nat \ {0}
    PROVE  a % n \in Nat /\ a % n < n
OBVIOUS

\* Before the wrap a clock value is the uptime itself.
LEMMA ModSmall ==
    ASSUME NEW n \in Nat \ {0}, NEW a \in Nat, a < n
    PROVE  a % n = a
OBVIOUS

\* millis() and every deadline computed from it are numbers.
LEMMA MillisNat ==
    TypeOK => Millis \in Nat /\ \A d \in Nat : (Millis + d) % Wrap \in Nat
BY ModType, PanelAssumption DEF TypeOK, Millis, PanelAssumption

(***************************************************************************)
(* Type correctness.                                                       *)
(***************************************************************************)

SweepType == [running : Sweeps \cup {"none", "reset"}, index : Nat,
              total : Nat, nextAt : Nat]
TestType == [step : 0..(NOutputs + 1), nextAt : Nat]
ForceType == [out : {NotForced, LampOff} \cup Outputs, until : Nat]
WalkEntry == [kind : Actions, slot : Nat, window : Nat, at : Nat]

\* A sweep has a length (startSweep()).
LEMMA LengthNat ==
    ASSUME TypeOK, NEW a \in Actions
    PROVE  SweepLength(a) \in Nat
<1>1. cfg.slots \in Nat /\ Windows \in Nat
  BY PanelAssumption DEF TypeOK, ConfigType, PanelAssumption
<1>2. cfg.slots * Windows \in Nat
  BY <1>1
<1>3. QED
  BY <1>1, <1>2 DEF SweepLength

\* startSweep() leaves a well-formed sweep.
LEMMA StartSweepType ==
    ASSUME TypeOK, NEW a \in Sweeps \cup {"reset"}
    PROVE  StartSweep(a) \in SweepType
BY MillisNat, LengthNat DEF StartSweep, SweepType, Actions

\* So does a scan of the buttons (panel_update()).
LEMMA SweepAfterType ==
    ASSUME TypeOK, NEW presses \in SUBSET Buttons
    PROVE  SweepAfter(presses) \in SweepType
<1> DEFINE last == {b \in SweepPresses(presses) :
                       \A c \in SweepPresses(presses) : c <= b}
<1>1. \A b \in SweepPresses(presses) : cfg.act[b] \in Sweeps \cup {"reset"}
  BY DEF SweepPresses, Pressed, TypeOK, ConfigType, Actions
<1>2. CASE last # {}
  <2>1. (CHOOSE b \in last : TRUE) \in last
    BY <1>2
  <2>2. SweepAfter(presses) = StartSweep(cfg.act[CHOOSE b \in last : TRUE])
    BY <1>2 DEF SweepAfter
  <2>3. QED
    BY <2>1, <2>2, <1>1, StartSweepType
<1>3. CASE last = {}
  BY <1>3 DEF SweepAfter, TypeOK, SweepType
<1>4. QED
  BY <1>2, <1>3

\* So does a step of it (stepSweep()).
LEMMA StepSweepType ==
    ASSUME TypeOK, NEW s \in SweepType
    PROVE  StepSweep(s) \in SweepType
<1>1. Pace("none") \in Nat /\ Pace(s.running) \in Nat
  BY PanelAssumption DEF Pace, PanelAssumption
<1>2. \A a \in {"none", s.running} : (Millis + Pace(a)) % Wrap \in Nat
  BY <1>1, MillisNat
<1>3. s.running \in Sweeps \cup {"none", "reset"} /\ s.index + 1 \in Nat /\ s.total \in Nat
  BY DEF SweepType
<1>4. QED
  BY <1>2, <1>3 DEF StepSweep, SweepType

\* The lamp test forces real outputs.
LEMMA TestForcesType ==
    ASSUME TypeOK, NEW t \in TestType
    PROVE  TestForces(t) \in {NotForced} \cup Outputs
BY DEF TestForces

\* startLampTest() leaves a well-formed test.
LEMMA TestAfterType ==
    ASSUME TypeOK, NEW presses \in SUBSET Buttons
    PROVE  TestAfter(presses) \in TestType
BY MillisNat, PanelAssumption DEF TestAfter, TestType, TypeOK, PanelAssumption

\* So does a step of the test.
LEMMA LampTestType ==
    ASSUME TypeOK, NEW t \in TestType
    PROVE  LampTest(t) \in TestType
<1>1. (Millis + TestStepMs) % Wrap \in Nat
  BY MillisNat, PanelAssumption DEF PanelAssumption
<1>2. TestForces(t) # NotForced => TestForces(t) + 1 \in 0..(NOutputs + 1)
  BY TestForcesType, PanelAssumption DEF Outputs, PanelAssumption
<1>3. QED
  BY <1>1, <1>2, PanelAssumption DEF LampTest, TestType, PanelAssumption

\* lampUpdate() leaves a level and a stamp for every output.
LEMMA LampUpdateType ==
    ASSUME TypeOK, NEW f \in FactsType, NEW fo \in ForceType,
           NEW level \in [Outputs -> BOOLEAN], NEW reset, NEW s,
           LampUpdate(f, fo, level, reset, s)
    PROVE  /\ force' \in ForceType
           /\ lit' \in [Outputs -> BOOLEAN]
           /\ since' \in [Outputs -> Nat]
<1>1. CASE Forcing(fo)
  BY <1>1 DEF LampUpdate, TypeOK
<1>2. CASE ~Forcing(fo)
  <2> DEFINE since1 == IF ForceOver(fo) THEN [i \in Outputs |-> 0] ELSE since
             Switch(i) == Want(i, f, reset, s) # level[i] /\ ~Held(i, since1)
  <2>1. since1 \in [Outputs -> Nat] /\ Millis \in Nat
    BY MillisNat DEF TypeOK
  <2>2. /\ force' = IF ForceOver(fo) THEN [fo EXCEPT !.out = NotForced] ELSE fo
        /\ lit' = [i \in Outputs |-> IF Switch(i) THEN ~level[i] ELSE level[i]]
        /\ since' = [i \in Outputs |-> IF Switch(i) THEN Millis ELSE since1[i]]
    BY <1>2 DEF LampUpdate
  <2> HIDE DEF since1, Switch
  <2>3. QED
    BY <2>1, <2>2 DEF ForceType
<1>3. QED
  BY <1>1, <1>2

\* panel_forceLamp() leaves a well-formed force and levels.
LEMMA ForceRecordType ==
    ASSUME TypeOK, NEW o \in Outputs \cup {LampOff}, NEW ms \in Nat
    PROVE  ForceRecord(o, ms) \in ForceType /\ ForcedLevels(o) \in [Outputs -> BOOLEAN]
BY MillisNat DEF ForceRecord, ForceType, ForcedLevels, TypeOK

\* The state of the panel is always well typed (every handler of panel.cpp).
THEOREM PanelTypeCorrect == Spec => []TypeOK
<1>1. Init => TypeOK
  BY PanelAssumption
     DEF Init, TypeOK, IsShelf, ConfigType, PanelAssumption, Outputs, NotForced
<1>2. TypeOK /\ [Next]_vars => TypeOK'
  <2> SUFFICES ASSUME TypeOK, [Next]_vars PROVE TypeOK'
    OBVIOUS
  <2>1. CASE NoCommand
    BY <2>1 DEF NoCommand, TypeOK, history
  <2>2. ASSUME NEW o \in Outputs \cup {LampOff}, NEW ms \in ForceTimes,
               LampCommand(o, ms)
        PROVE  TypeOK'
    <3>1. force' \in ForceType /\ lit' \in [Outputs -> BOOLEAN]
      BY <2>2, ForceRecordType, PanelAssumption DEF LampCommand, PanelAssumption
    <3>2. QED
      BY <2>2, <3>1 DEF LampCommand, TypeOK, history, ForceType
  <2>3. ASSUME NEW c \in Configs, ApplyConfig(c)
        PROVE  TypeOK'
    BY <2>3, PanelAssumption DEF ApplyConfig, TypeOK, history, PanelAssumption
  <2>4. ASSUME NEW presses \in SUBSET Buttons, NEW f \in Facts,
               PanelUpdate(presses, f)
        PROVE  TypeOK'
    <3> DEFINE s  == SweepAfter(presses)
               t  == TestAfter(presses)
               s1 == IF StepDue(s) THEN StepSweep(s) ELSE s
               o  == TestForces(t)
               fo == IF o # NotForced THEN ForceRecord(o, TestStepMs) ELSE force
               level == IF o # NotForced THEN ForcedLevels(o) ELSE lit
               walked == IF SweepPresses(presses) # {} THEN <<>> ELSE walk
    <3>1. s \in SweepType /\ s1 \in SweepType /\ t \in TestType
      BY SweepAfterType, StepSweepType, TestAfterType
    <3>2. o \in {NotForced} \cup Outputs
      BY <3>1, TestForcesType
    <3>3. fo \in ForceType /\ level \in [Outputs -> BOOLEAN]
      BY <3>2, ForceRecordType, PanelAssumption DEF PanelAssumption, TypeOK, ForceType
    <3>4. f \in FactsType
      BY PanelAssumption DEF PanelAssumption
    <3>5. LampUpdate(f, fo, level, ResetAfter(presses), s1)
      BY <2>4 DEF PanelUpdate
    <3>6. force' \in ForceType /\ lit' \in [Outputs -> BOOLEAN] /\ since' \in [Outputs -> Nat]
      BY <3>3, <3>4, <3>5, LampUpdateType
    <3>7. sweep' \in SweepType /\ test' \in TestType
      BY <2>4, <3>1, LampTestType DEF PanelUpdate
    <3>8. resetUntil' \in Nat /\ resetEnd' \in Nat
      <4>1. /\ resetUntil' = ResetAfter(presses)
            /\ resetEnd' = IF ResetPressed(presses) THEN up + ResetMs ELSE resetEnd
        BY <2>4 DEF PanelUpdate
      <4>2. (Millis + ResetMs) % Wrap \in Nat /\ up + ResetMs \in Nat
        <5>1. ResetMs \in Nat
          BY PanelAssumption DEF PanelAssumption
        <5>2. (Millis + ResetMs) % Wrap \in Nat
          BY <5>1, MillisNat
        <5>3. QED
          BY <5>1, <5>2 DEF TypeOK
      <4>3. resetUntil \in Nat /\ resetEnd \in Nat
        BY DEF TypeOK
      <4>4. QED
        BY <4>1, <4>2, <4>3 DEF ResetAfter
    <3>9. walk' \in Seq(WalkEntry)
      <4>1. walked \in Seq(WalkEntry)
        BY DEF TypeOK, WalkEntry
      <4>2. [kind |-> s.running, slot |-> SlotOf(s), window |-> WindowOf(s), at |-> up]
                \in WalkEntry
        <5>1. s.running \in Actions /\ s.index \in Nat
          BY <3>1 DEF SweepType, Actions
        <5>2. Windows \in Nat \ {0} /\ cfg.slots \in Nat
          BY PanelAssumption DEF PanelAssumption, TypeOK, ConfigType
        <5>3. s.index \div Windows \in Nat /\ s.index % Windows \in Nat
          BY <5>1, <5>2
        <5>4. SlotOf(s) \in Nat /\ WindowOf(s) \in Nat
          BY <5>1, <5>2, <5>3 DEF SlotOf, WindowOf
        <5>5. QED
          BY <5>1, <5>4 DEF WalkEntry, TypeOK
      <4>3. walk' = IF StepDue(s) /\ s1.index > s.index
                    THEN Append(walked, [kind |-> s.running, slot |-> SlotOf(s),
                                         window |-> WindowOf(s), at |-> up])
                    ELSE walked
        BY <2>4 DEF PanelUpdate
      <4> HIDE DEF walked, s, s1
      <4>4. QED
        BY <4>1, <4>2, <4>3
    <3>10. pc' = "sched" /\ UNCHANGED <<up, cfg>> /\ facts' = f
      BY <2>4 DEF PanelUpdate
    <3>11. QED
      BY <3>4, <3>6, <3>7, <3>8, <3>9, <3>10
         DEF TypeOK, SweepType, TestType, ForceType, WalkEntry
  <2>5. CASE NoSchedule
    BY <2>5 DEF NoSchedule, TypeOK, history
  <2>6. CASE SchedReset
    <3>1. StartSweep("reset") \in SweepType /\ (Millis + ResetMs) % Wrap \in Nat
      BY StartSweepType, MillisNat, PanelAssumption DEF PanelAssumption
    <3>2. QED
      BY <2>6, <3>1, PanelAssumption DEF SchedReset, TypeOK, SweepType, PanelAssumption
  <2>7. ASSUME NEW d \in 1..LoopMax, LoopAgain(d)
        PROVE  TypeOK'
    BY <2>7, PanelAssumption DEF LoopAgain, TypeOK, history, PanelAssumption
  <2>8. CASE UNCHANGED vars
    BY <2>8 DEF vars, TypeOK
  <2>9. QED
    BY <2>1, <2>2, <2>3, <2>4, <2>5, <2>6, <2>7, <2>8 DEF Next
<1>3. QED
  BY <1>1, <1>2, PTL DEF Spec

(***************************************************************************)
(* The shelf.                                                              *)
(***************************************************************************)

\* What lampUpdate() does to an output that carries the shelf's power.
LEMMA LampUpdateShelf ==
    ASSUME TypeOK, NEW f \in FactsType, NEW fo \in ForceType,
           NEW level \in [Outputs -> BOOLEAN], NEW reset \in Nat, NEW s \in SweepType,
           LampUpdate(f, fo, level, reset, s),
           NEW i \in Outputs, IsShelf(i)
    PROVE  IF Forcing(fo) THEN lit'[i] = level[i] /\ force' = fo
                          ELSE lit'[i] = (reset = 0)
<1>1. CASE Forcing(fo)
  BY <1>1 DEF LampUpdate
<1>2. CASE ~Forcing(fo)
  <2> DEFINE since1 == IF ForceOver(fo) THEN [j \in Outputs |-> 0] ELSE since
             Switch(j) == Want(j, f, reset, s) # level[j] /\ ~Held(j, since1)
  <2>1. lit' = [j \in Outputs |-> IF Switch(j) THEN ~level[j] ELSE level[j]]
    BY <1>2 DEF LampUpdate
  <2>2. Want(i, f, reset, s) <=> reset = 0
    BY DEF Want, SourceTrue, IsShelf
  <2>3. ~Held(i, since1)
    BY DEF Held
  <2>4. Switch(i) <=> (reset = 0) # level[i]
    BY <2>2, <2>3 DEF Want, SourceTrue, IsShelf
  <2>5. level[i] \in BOOLEAN
    OBVIOUS
  <2> HIDE DEF since1, Switch
  <2>6. lit'[i] = IF Switch(i) THEN ~level[i] ELSE level[i]
    BY <2>1
  <2>7. QED
    BY <1>2, <2>4, <2>5, <2>6
<1>3. QED
  BY <1>1, <1>2

\* What a whole panel_update() does to the shelf's outputs.
LEMMA UpdateShelf ==
    ASSUME TypeOK, NEW presses \in SUBSET Buttons, NEW f \in Facts,
           PanelUpdate(presses, f), NEW i \in Outputs, IsShelf(i)
    PROVE  \/ lit'[i] = lit[i] /\ force'.out # NotForced
           \/ lit'[i] = (resetUntil' = 0)
<1> DEFINE s  == SweepAfter(presses)
           t  == TestAfter(presses)
           s1 == IF StepDue(s) THEN StepSweep(s) ELSE s
           o  == TestForces(t)
           fo == IF o # NotForced THEN ForceRecord(o, TestStepMs) ELSE force
           level == IF o # NotForced THEN ForcedLevels(o) ELSE lit
<1>1. s1 \in SweepType /\ t \in TestType
  BY SweepAfterType, StepSweepType, TestAfterType
<1>2. o \in {NotForced} \cup Outputs
  BY <1>1, TestForcesType
<1>3. fo \in ForceType /\ level \in [Outputs -> BOOLEAN]
  BY <1>2, ForceRecordType, PanelAssumption DEF PanelAssumption, TypeOK, ForceType
<1>4. level[i] = lit[i]
  BY DEF ForcedLevels
<1>5. resetUntil' = ResetAfter(presses) /\ resetUntil' \in Nat
  <2>1. ResetMs \in Nat /\ resetUntil \in Nat
    BY PanelAssumption DEF PanelAssumption, TypeOK
  <2>2. (Millis + ResetMs) % Wrap \in Nat
    BY <2>1, MillisNat
  <2>3. QED
    BY <2>1, <2>2 DEF PanelUpdate, ResetAfter
<1>6. LampUpdate(f, fo, level, resetUntil', s1)
  BY <1>5 DEF PanelUpdate
<1>7. f \in FactsType
  BY PanelAssumption DEF PanelAssumption
<1> HIDE DEF fo, level, s1
<1>8. IF Forcing(fo) THEN lit'[i] = level[i] /\ force' = fo
                     ELSE lit'[i] = (resetUntil' = 0)
  BY <1>1, <1>3, <1>5, <1>6, <1>7, LampUpdateShelf
<1>9. QED
  BY <1>4, <1>8 DEF Forcing

\* A powered shelf output goes dark only in a step that leaves a reset
\* running (isShelf() as lampUpdate(), panel_forceLamp() and
\* panel_applyConfig() use it).
THEOREM ShelfSafe == Spec => ShelfCutOnlyByReset
<1>1. TypeOK /\ [Next]_vars =>
        [\A i \in Outputs : IsShelf(i) /\ lit[i] /\ ~lit'[i] => resetUntil' # 0]_vars
  <2> SUFFICES ASSUME TypeOK, Next, NEW i \in Outputs, IsShelf(i), lit[i], ~lit'[i]
               PROVE  resetUntil' # 0
    OBVIOUS
  <2>1. CASE NoCommand \/ NoSchedule \/ SchedReset \/ \E d \in 1..LoopMax : LoopAgain(d)
    BY <2>1 DEF NoCommand, NoSchedule, SchedReset, LoopAgain
  <2>2. ASSUME NEW o \in Outputs \cup {LampOff}, NEW ms \in ForceTimes,
               LampCommand(o, ms)
        PROVE  FALSE
    BY <2>2 DEF LampCommand, ForcedLevels
  <2>3. ASSUME NEW c \in Configs, ApplyConfig(c)
        PROVE  FALSE
    BY <2>3 DEF ApplyConfig
  <2>4. ASSUME NEW presses \in SUBSET Buttons, NEW f \in Facts,
               PanelUpdate(presses, f)
        PROVE  resetUntil' # 0
    BY <2>4, UpdateShelf
  <2>5. QED
    BY <2>1, <2>2, <2>3, <2>4 DEF Next
<1>2. QED
  BY <1>1, PanelTypeCorrect, PTL DEF Spec, ShelfCutOnlyByReset

\* Every panel_update() leaves the shelf's relay in step with the reset,
\* unless a LAMP command or a lamp test holds the outputs (lampUpdate()).
THEOREM ShelfInStep == Spec => []ShelfFollowsReset
<1>1. Init => ShelfFollowsReset
  BY DEF Init, ShelfFollowsReset
<1>2. TypeOK /\ ShelfFollowsReset /\ [Next]_vars => ShelfFollowsReset'
  <2> SUFFICES ASSUME TypeOK, ShelfFollowsReset, [Next]_vars,
                      (pc = "sched")', (force.out = NotForced)',
                      NEW i \in Outputs, IsShelf(i)'
               PROVE  lit'[i] <=> resetUntil' = 0
    BY DEF ShelfFollowsReset
  <2>1. ASSUME NEW presses \in SUBSET Buttons, NEW f \in Facts,
               PanelUpdate(presses, f)
        PROVE  lit'[i] <=> resetUntil' = 0
    <3>1. IsShelf(i)
      BY <2>1 DEF PanelUpdate, IsShelf
    <3>2. QED
      BY <2>1, <3>1, UpdateShelf
  <2>2. CASE UNCHANGED vars
    BY <2>2 DEF vars, ShelfFollowsReset, IsShelf
  <2>3. CASE \/ NoCommand \/ NoSchedule \/ SchedReset
             \/ \E o \in Outputs \cup {LampOff}, ms \in ForceTimes : LampCommand(o, ms)
             \/ \E c \in Configs : ApplyConfig(c)
             \/ \E d \in 1..LoopMax : LoopAgain(d)
    BY <2>3 DEF NoCommand, NoSchedule, SchedReset, LampCommand, ApplyConfig, LoopAgain
  <2>4. QED
    BY <2>1, <2>2, <2>3 DEF Next
<1>3. QED
  BY <1>1, <1>2, PanelTypeCorrect, PTL DEF Spec

(***************************************************************************)
(* The deadline of a reset.  _resetUntil, read against a millis() that     *)
(* does not wrap, is the true deadline of the last reset until the first   *)
(* panel_update() that finds it passed.                                    *)
(***************************************************************************)

NoWrap == Horizon + ResetMs < Wrap

DeadlineInv ==
    /\ TypeOK
    /\ up <= Horizon
    /\ resetUntil # 0 => resetUntil = resetEnd
    /\ resetUntil = 0 => resetEnd <= up
    /\ ResetOnTime

\* Before the wrap the code sees the true uptime.
LEMMA MillisIsUptime ==
    ASSUME TypeOK, up <= Horizon, NoWrap
    PROVE  Millis = up /\ (Millis + ResetMs) % Wrap = up + ResetMs
<1>1. /\ up \in Nat /\ ResetMs \in Nat \ {0} /\ Wrap \in Nat \ {0} /\ Horizon \in Nat
      /\ up < Wrap /\ up + ResetMs < Wrap
  BY PanelAssumption DEF PanelAssumption, TypeOK, NoWrap
<1>2. Millis = up
  BY <1>1, ModSmall DEF Millis
<1>3. (up + ResetMs) % Wrap = up + ResetMs
  BY <1>1, ModSmall
<1>4. QED
  BY <1>2, <1>3

\* What one call of panel_update() does to the deadline of a reset.
LEMMA DeadlineStep ==
    ASSUME NoWrap, DeadlineInv, TypeOK', [Next]_vars
    PROVE  DeadlineInv'
<1>1. /\ up \in Nat /\ ResetMs \in Nat \ {0} /\ Horizon \in Nat
      /\ resetUntil \in Nat /\ resetEnd \in Nat
  BY PanelAssumption DEF PanelAssumption, DeadlineInv, TypeOK
<1>2. Millis = up /\ (Millis + ResetMs) % Wrap = up + ResetMs
  BY MillisIsUptime DEF DeadlineInv
<1>3. CASE UNCHANGED <<up, resetUntil, resetEnd>> /\ pc' # "sched"
  BY <1>3 DEF DeadlineInv, ResetOnTime
<1>4. ASSUME NEW presses \in SUBSET Buttons, NEW f \in Facts,
             PanelUpdate(presses, f)
      PROVE  DeadlineInv'
  <2>1. /\ resetUntil' = ResetAfter(presses)
        /\ resetEnd' = IF ResetPressed(presses) THEN up + ResetMs ELSE resetEnd
        /\ up' = up
    BY <1>4 DEF PanelUpdate
  <2>2. CASE ResetPressed(presses)
    BY <1>1, <1>2, <2>1, <2>2 DEF ResetAfter, DeadlineInv, ResetOnTime
  <2>3. CASE ~ResetPressed(presses)
    BY <1>1, <1>2, <2>1, <2>3 DEF ResetAfter, ResetExpired, DeadlineInv, ResetOnTime
  <2>4. QED
    BY <2>2, <2>3
<1>5. CASE SchedReset
  BY <1>1, <1>2, <1>5 DEF SchedReset, DeadlineInv, ResetOnTime
<1>6. ASSUME NEW d \in 1..LoopMax, LoopAgain(d)
      PROVE  DeadlineInv'
  <2>1. /\ up' = up + d /\ up' <= Horizon /\ d \in Nat /\ pc = "rest" /\ pc' = "console"
        /\ resetUntil' = resetUntil /\ resetEnd' = resetEnd
    BY <1>6, PanelAssumption DEF LoopAgain, history, PanelAssumption
  <2>2. QED
    BY <1>1, <2>1 DEF DeadlineInv, ResetOnTime
<1>7. CASE UNCHANGED vars
  BY <1>7 DEF vars, DeadlineInv, ResetOnTime
<1>8. CASE \/ NoCommand \/ NoSchedule
           \/ \E o \in Outputs \cup {LampOff}, ms \in ForceTimes : LampCommand(o, ms)
           \/ \E c \in Configs : ApplyConfig(c)
  BY <1>3, <1>8 DEF NoCommand, NoSchedule, LampCommand, ApplyConfig, history
<1>9. QED
  BY <1>4, <1>5, <1>6, <1>7, <1>8 DEF Next

\* The deadline the code keeps is the true one, which is inductive.
LEMMA DeadlineInvariant ==
    ASSUME NoWrap
    PROVE  Spec => []DeadlineInv
<1>1. Init /\ TypeOK => DeadlineInv
  BY PanelAssumption DEF Init, DeadlineInv, ResetOnTime, PanelAssumption
<1>2. TypeOK' /\ DeadlineInv /\ [Next]_vars => DeadlineInv'
  BY DeadlineStep
<1>3. QED
  BY <1>1, <1>2, PanelTypeCorrect, PTL DEF Spec

\* While millis() does not wrap a reset lasts exactly panel.reset_ms, up to
\* the next panel_update(), whatever is pressed or applied meanwhile.
THEOREM ResetKeepsItsDeadline ==
    ASSUME NoWrap
    PROVE  Spec => []ResetOnTime
<1>1. DeadlineInv => ResetOnTime
  BY DEF DeadlineInv
<1>2. QED
  BY <1>1, DeadlineInvariant, PTL

\* While millis() does not wrap a dark shelf always has a running reset or a
\* force in progress behind it.
THEOREM NoUnexplainedCut ==
    ASSUME NoWrap
    PROVE  Spec => []DarkShelfExplained
<1>1. Init => DarkShelfExplained
  BY DEF Init, DarkShelfExplained, IsShelf
<1>2. DeadlineInv /\ DarkShelfExplained /\ [Next]_vars => DarkShelfExplained'
  <2> SUFFICES ASSUME DeadlineInv, DarkShelfExplained, [Next]_vars, pc' # "panel",
                      NEW i \in Outputs, IsShelf(i)', ~lit'[i]
               PROVE  resetUntil' # 0 \/ force'.out # NotForced
    BY DEF DarkShelfExplained
  <2>1. ASSUME NEW presses \in SUBSET Buttons, NEW f \in Facts,
               PanelUpdate(presses, f)
        PROVE  resetUntil' # 0 \/ force'.out # NotForced
    <3>1. IsShelf(i)
      BY <2>1 DEF PanelUpdate, IsShelf
    <3>2. QED
      BY <2>1, <3>1, UpdateShelf DEF DeadlineInv
  <2>2. CASE SchedReset
    <3>1. resetUntil' = up + ResetMs
      BY <2>2, MillisIsUptime DEF SchedReset, DeadlineInv
    <3>2. QED
      BY <3>1, PanelAssumption DEF PanelAssumption, DeadlineInv, TypeOK
  <2>3. CASE NoSchedule \/ \E d \in 1..LoopMax : LoopAgain(d)
    BY <2>3 DEF NoSchedule, LoopAgain, DarkShelfExplained, IsShelf
  <2>4. CASE \/ NoCommand
             \/ \E o \in Outputs \cup {LampOff}, ms \in ForceTimes : LampCommand(o, ms)
             \/ \E c \in Configs : ApplyConfig(c)
    BY <2>4 DEF NoCommand, LampCommand, ApplyConfig
  <2>5. CASE UNCHANGED vars
    BY <2>5 DEF vars, DarkShelfExplained, IsShelf
  <2>6. QED
    BY <2>1, <2>2, <2>3, <2>4, <2>5 DEF Next
<1>3. QED
  BY <1>1, <1>2, DeadlineInvariant, PTL DEF Spec

(***************************************************************************)
(* The lamps while a module update runs.                                   *)
(***************************************************************************)

\* A panel_update() during a module update lights every status lamp that no
\* force, dwell or lamps switch holds back (gatewayState(), lampUpdate()).
THEOREM LampsLitDuringOta == Spec => []OtaLightsLamps
<1>1. Init => OtaLightsLamps
  BY DEF Init, OtaLightsLamps
<1>2. TypeOK /\ OtaLightsLamps /\ [Next]_vars => OtaLightsLamps'
  <2> SUFFICES ASSUME TypeOK, OtaLightsLamps, [Next]_vars,
                      pc' = "sched", facts'.ota, force'.out = NotForced, cfg'.lamps,
                      NEW i \in Outputs, cfg'.out[i] \notin {"none", "shelf"}
               PROVE  lit'[i] \/ (since'[i] # 0 /\ Elapsed(Millis, since[i])' < DwellMs)
    BY DEF OtaLightsLamps
  <2>1. ASSUME NEW presses \in SUBSET Buttons, NEW f \in Facts,
               PanelUpdate(presses, f)
        PROVE  lit'[i] \/ (since'[i] # 0 /\ Elapsed(Millis, since[i])' < DwellMs)
    <3> DEFINE s  == SweepAfter(presses)
               t  == TestAfter(presses)
               s1 == IF StepDue(s) THEN StepSweep(s) ELSE s
               o  == TestForces(t)
               fo == IF o # NotForced THEN ForceRecord(o, TestStepMs) ELSE force
               level == IF o # NotForced THEN ForcedLevels(o) ELSE lit
               since1 == IF ForceOver(fo) THEN [j \in Outputs |-> 0] ELSE since
               Switch(j) == /\ Want(j, f, ResetAfter(presses), s1) # level[j]
                            /\ ~Held(j, since1)
    <3>1. /\ LampUpdate(f, fo, level, ResetAfter(presses), s1)
          /\ facts' = f /\ up' = up /\ cfg' = cfg
      BY <2>1 DEF PanelUpdate
    <3>2. ~Forcing(fo)
      BY <3>1 DEF LampUpdate, Forcing
    <3>3. /\ lit' = [j \in Outputs |-> IF Switch(j) THEN ~level[j] ELSE level[j]]
          /\ since' = [j \in Outputs |-> IF Switch(j) THEN Millis ELSE since1[j]]
      BY <3>1, <3>2 DEF LampUpdate
    <3>4. Want(i, f, ResetAfter(presses), s1)
      BY <3>1 DEF Want
    <3>5. ~IsShelf(i) /\ cfg.lamps
      BY <3>1 DEF IsShelf
    <3>6. t \in TestType
      BY TestAfterType
    <3>7. level[i] \in BOOLEAN
      BY <3>6, TestForcesType, ForceRecordType, PanelAssumption DEF TypeOK, PanelAssumption
    <3>8. Held(i, since1) => since1[i] # 0 /\ Elapsed(Millis, since1[i]) < DwellMs
      BY <3>5 DEF Held
    <3>9. Switch(i) <=> TRUE # level[i] /\ ~Held(i, since1)
      <4>1. Want(i, f, ResetAfter(presses), s1) \in BOOLEAN
        BY DEF Want
      <4>2. Want(i, f, ResetAfter(presses), s1) = TRUE
        BY <3>4, <4>1
      <4>3. QED
        BY <4>2
    <3>10. Elapsed(Millis, since[i])' = Elapsed(Millis, since'[i])
      BY <3>1 DEF Elapsed, Millis
    <3> HIDE DEF Switch, level, since1
    <3>11. /\ lit'[i] = IF Switch(i) THEN ~level[i] ELSE level[i]
           /\ since'[i] = IF Switch(i) THEN Millis ELSE since1[i]
      BY <3>3
    <3>12. QED
      BY <3>7, <3>8, <3>9, <3>10, <3>11
  <2>2. CASE UNCHANGED vars
    BY <2>2 DEF vars, OtaLightsLamps, Elapsed, Millis
  <2>3. CASE \/ NoCommand \/ NoSchedule \/ SchedReset
             \/ \E o \in Outputs \cup {LampOff}, ms \in ForceTimes : LampCommand(o, ms)
             \/ \E c \in Configs : ApplyConfig(c)
             \/ \E d \in 1..LoopMax : LoopAgain(d)
    BY <2>3 DEF NoCommand, NoSchedule, SchedReset, LampCommand, ApplyConfig, LoopAgain
  <2>4. QED
    BY <2>1, <2>2, <2>3 DEF Next
<1>3. QED
  BY <1>1, <1>2, PanelTypeCorrect, PTL DEF Spec

(***************************************************************************)
(* The walks of the sweeps.                                                *)
(***************************************************************************)

\* A position past the end of the cabinet is refused (SlotOf() in stepSweep()).
LEMMA SlotInCabinet ==
    ASSUME TypeOK, NEW s \in SweepType, SlotOf(s) # 0
    PROVE  SlotOf(s) \in 1..cfg.slots
<1> DEFINE k == IF s.running = "all_8" THEN s.index \div Windows ELSE s.index
<1>1. s.index \in Nat /\ Windows \in Nat \ {0} /\ cfg.slots \in Nat
  BY PanelAssumption DEF PanelAssumption, TypeOK, ConfigType, SweepType
<1>2. s.index \div Windows \in Nat
  BY <1>1
<1>3. k \in Nat
  BY <1>1, <1>2
<1>4. k < cfg.slots /\ SlotOf(s) = k + 1
  BY DEF SlotOf
<1> HIDE DEF k
<1>5. QED
  BY <1>1, <1>3, <1>4

\* What one call of panel_update() adds to the walk: nothing, or the slot the
\* sweep stands at.
LEMMA WalkStep ==
    ASSUME TypeOK, NEW presses \in SUBSET Buttons, NEW f \in Facts,
           PanelUpdate(presses, f),
           NEW s, s = SweepAfter(presses),
           NEW walked, walked = IF SweepPresses(presses) # {} THEN <<>> ELSE walk
    PROVE  /\ s \in SweepType /\ walked \in Seq(WalkEntry)
           /\ \/ /\ StepDue(s) /\ SlotOf(s) # 0
                 /\ SlotOf(s) \in 1..cfg.slots
                 /\ sweep' = StepSweep(s)
                 /\ walk' = Append(walked, [kind |-> s.running, slot |-> SlotOf(s),
                                            window |-> WindowOf(s), at |-> up])
              \/ /\ StepDue(s) /\ SlotOf(s) = 0
                 /\ sweep' = [s EXCEPT !.running = "none", !.total = 0]
                 /\ walk' = walked
              \/ ~StepDue(s) /\ sweep' = s /\ walk' = walked
<1> DEFINE s1 == IF StepDue(s) THEN StepSweep(s) ELSE s
<1>1. s \in SweepType /\ walked \in Seq(WalkEntry)
  BY SweepAfterType DEF TypeOK, WalkEntry
<1>2. /\ sweep' = s1
      /\ walk' = IF StepDue(s) /\ s1.index > s.index
                 THEN Append(walked, [kind |-> s.running, slot |-> SlotOf(s),
                                      window |-> WindowOf(s), at |-> up])
                 ELSE walked
  BY DEF PanelUpdate
<1>3. s.index \in Nat
  BY <1>1 DEF SweepType
<1>4. SlotOf(s) = 0 => /\ StepSweep(s) = [s EXCEPT !.running = "none", !.total = 0]
                       /\ StepSweep(s).index = s.index
  BY <1>1 DEF StepSweep, SweepType
<1>5. SlotOf(s) # 0 => StepSweep(s).index = s.index + 1 /\ SlotOf(s) \in 1..cfg.slots
  BY <1>1, SlotInCabinet DEF StepSweep
<1>6. CASE StepDue(s) /\ SlotOf(s) # 0
  BY <1>1, <1>2, <1>3, <1>5, <1>6
<1>7. CASE StepDue(s) /\ SlotOf(s) = 0
  BY <1>1, <1>2, <1>3, <1>4, <1>7
<1>8. CASE ~StepDue(s)
  BY <1>1, <1>2, <1>8
<1>9. QED
  BY <1>6, <1>7, <1>8

\* Every bus write of a sweep goes to a slot of the cabinet as configured at
\* that moment, whatever a SAVE did meanwhile (stepSweep()).
THEOREM SweepsStayInside == Spec => SweepStaysInCabinet
<1>1. TypeOK /\ [Next]_vars =>
        [walk' # walk /\ walk' # <<>> => walk'[Len(walk')].slot \in 1..cfg.slots]_vars
  <2> SUFFICES ASSUME TypeOK, Next, walk' # walk, walk' # <<>>
               PROVE  walk'[Len(walk')].slot \in 1..cfg.slots
    OBVIOUS
  <2>1. ASSUME NEW presses \in SUBSET Buttons, NEW f \in Facts,
               PanelUpdate(presses, f)
        PROVE  walk'[Len(walk')].slot \in 1..cfg.slots
    <3> DEFINE s == SweepAfter(presses)
               walked == IF SweepPresses(presses) # {} THEN <<>> ELSE walk
               entry == [kind |-> s.running, slot |-> SlotOf(s),
                         window |-> WindowOf(s), at |-> up]
    <3> HIDE DEF s, walked
    <3>1. /\ walked \in Seq(WalkEntry)
          /\ walked \in {<<>>, walk}
          /\ \/ SlotOf(s) \in 1..cfg.slots /\ walk' = Append(walked, entry)
             \/ walk' = walked
      BY <2>1, WalkStep DEF s, walked
    <3>2. walk' = Append(walked, entry) /\ SlotOf(s) \in 1..cfg.slots
      BY <3>1
    <3>3. walk'[Len(walk')] = entry
      <4> HIDE DEF entry
      <4>1. QED
        BY <3>1, <3>2
    <3>4. QED
      BY <3>2, <3>3
  <2>2. CASE \/ NoCommand \/ NoSchedule \/ SchedReset
             \/ \E o \in Outputs \cup {LampOff}, ms \in ForceTimes : LampCommand(o, ms)
             \/ \E c \in Configs : ApplyConfig(c)
             \/ \E d \in 1..LoopMax : LoopAgain(d)
    BY <2>2 DEF NoCommand, NoSchedule, SchedReset, LampCommand, ApplyConfig,
                LoopAgain, history
  <2>3. QED
    BY <2>1, <2>2 DEF Next
<1>2. QED
  BY <1>1, PanelTypeCorrect, PTL DEF Spec, SweepStaysInCabinet

(***************************************************************************)
(* The pause between two latches.  As long as an all_unlock sweep runs,    *)
(* the walk holds nothing but its own writes and the next step stands      *)
(* panel.step_unlock_ms after the last of them.                            *)
(***************************************************************************)

NoWrapUnlocking == Horizon + StepUnlockMs < Wrap

PaceInv ==
    /\ TypeOK
    /\ up <= Horizon
    /\ UnlockPaced
    /\ sweep.running = "all_unlock" /\ walk # <<>> =>
           sweep.nextAt >= walk[Len(walk)].at + StepUnlockMs
    /\ sweep.running \in Sweeps /\ sweep.running # "all_unlock" /\ walk # <<>> =>
           walk[Len(walk)].kind # "all_unlock"

\* A new sweep begins with an empty walk (startSweep()); otherwise the scan of
\* the buttons leaves the sweep as it was or, a reset over, stops it.
LEMMA ScanOfSweep ==
    ASSUME TypeOK, NEW presses \in SUBSET Buttons
    PROVE  \/ SweepPresses(presses) # {}
           \/ SweepPresses(presses) = {} /\ SweepAfter(presses) = sweep
           \/ /\ SweepPresses(presses) = {} /\ ResetExpired
              /\ SweepAfter(presses) = [sweep EXCEPT !.running = "none"]
BY DEF SweepAfter

\* The pause holds for one entry more, if the sweep was due.
LEMMA PacedAppend ==
    ASSUME NEW w \in Seq(WalkEntry), NEW e \in WalkEntry,
           \A k \in 1..(Len(w) - 1) :
              w[k].kind = "all_unlock" => w[k + 1].at - w[k].at >= StepUnlockMs,
           w # <<>> /\ w[Len(w)].kind = "all_unlock" =>
              e.at - w[Len(w)].at >= StepUnlockMs
    PROVE  LET v == Append(w, e)
           IN  \A k \in 1..(Len(v) - 1) :
                  v[k].kind = "all_unlock" => v[k + 1].at - v[k].at >= StepUnlockMs
<1> DEFINE v == Append(w, e)
<1>1. Len(v) = Len(w) + 1 /\ v[Len(w) + 1] = e /\ \A k \in 1..Len(w) : v[k] = w[k]
  OBVIOUS
<1>2. Len(w) \in Nat
  OBVIOUS
<1> HIDE DEF v
<1>3. ASSUME NEW k \in 1..(Len(v) - 1), v[k].kind = "all_unlock"
      PROVE  v[k + 1].at - v[k].at >= StepUnlockMs
  <2>1. k \in 1..Len(w) /\ v[k] = w[k]
    BY <1>1, <1>2
  <2>2. CASE k = Len(w)
    <3>1. v[k + 1] = e /\ w # <<>>
      BY <1>1, <1>2, <2>1, <2>2
    <3>2. QED
      BY <1>3, <2>1, <2>2, <3>1
  <2>3. CASE k # Len(w)
    <3>1. k \in 1..(Len(w) - 1) /\ v[k + 1] = w[k + 1]
      BY <1>1, <1>2, <2>1, <2>3
    <3>2. QED
      BY <1>3, <2>1, <3>1
  <2>4. QED
    BY <2>2, <2>3
<1>4. QED
  BY <1>3 DEF v

\* A panel_update() keeps the pause.
LEMMA PaceOfUpdate ==
    ASSUME NoWrapUnlocking, PaceInv,
           NEW presses \in SUBSET Buttons, NEW f \in Facts, PanelUpdate(presses, f)
    PROVE  /\ UnlockPaced'
           /\ (sweep.running = "all_unlock" /\ walk # <<>> =>
                  sweep.nextAt >= walk[Len(walk)].at + StepUnlockMs)'
           /\ (sweep.running \in Sweeps /\ sweep.running # "all_unlock" /\ walk # <<>> =>
                  walk[Len(walk)].kind # "all_unlock")'
<1> DEFINE s == SweepAfter(presses)
           walked == IF SweepPresses(presses) # {} THEN <<>> ELSE walk
           entry == [kind |-> s.running, slot |-> SlotOf(s),
                     window |-> WindowOf(s), at |-> up]
<1>1. /\ s \in SweepType /\ walked \in Seq(WalkEntry)
      /\ \/ /\ StepDue(s) /\ SlotOf(s) # 0
            /\ sweep' = StepSweep(s)
            /\ walk' = Append(walked, entry)
         \/ sweep'.running = "none" /\ walk' = walked
         \/ sweep' = s /\ walk' = walked
  <2>1. TypeOK
    BY DEF PaceInv
  <2> HIDE DEF s, walked
  <2>2. /\ s \in SweepType /\ walked \in Seq(WalkEntry)
        /\ \/ /\ StepDue(s) /\ SlotOf(s) # 0
              /\ SlotOf(s) \in 1..cfg.slots
              /\ sweep' = StepSweep(s)
              /\ walk' = Append(walked, entry)
           \/ /\ StepDue(s) /\ SlotOf(s) = 0
              /\ sweep' = [s EXCEPT !.running = "none", !.total = 0]
              /\ walk' = walked
           \/ ~StepDue(s) /\ sweep' = s /\ walk' = walked
    BY <2>1, WalkStep DEF s, walked
  <2>3. QED
    BY <2>2 DEF SweepType
<1>2. walked # <<>> => walked = walk /\ (s = sweep \/ s.running = "none")
  BY ScanOfSweep DEF PaceInv, TypeOK, SweepType
<1>3. \A k \in 1..(Len(walked) - 1) :
         walked[k].kind = "all_unlock" => walked[k + 1].at - walked[k].at >= StepUnlockMs
  <2>1. CASE walked = <<>>
    BY <2>1
  <2>2. CASE walked # <<>>
    BY <1>2, <2>2 DEF PaceInv, UnlockPaced
  <2>3. QED
    BY <2>1, <2>2
<1>4. /\ up \in Nat /\ StepUnlockMs \in Nat /\ Wrap \in Nat \ {0} /\ up <= Horizon
      /\ Horizon \in Nat /\ up + StepUnlockMs < Wrap
  BY PanelAssumption DEF PanelAssumption, PaceInv, TypeOK, NoWrapUnlocking
<1>5. Millis = up /\ (Millis + StepUnlockMs) % Wrap = up + StepUnlockMs
  <2>1. up < Wrap /\ up + StepUnlockMs \in Nat
    BY <1>4
  <2>2. Millis = up
    BY <1>4, <2>1, ModSmall DEF Millis
  <2>3. QED
    BY <1>4, <2>1, <2>2, ModSmall
<1> HIDE DEF s, walked
<1>6. CASE sweep'.running = "none" /\ walk' = walked
  BY <1>3, <1>6 DEF UnlockPaced, Sweeps
<1>7. CASE sweep' = s /\ walk' = walked
  BY <1>2, <1>3, <1>7 DEF UnlockPaced, PaceInv, Sweeps
<1>8. CASE /\ StepDue(s) /\ SlotOf(s) # 0
           /\ sweep' = StepSweep(s)
           /\ walk' = Append(walked, entry)
  <2>1. s.running \in Sweeps /\ up >= s.nextAt
    BY <1>5, <1>8 DEF StepDue
  <2>2. walked # <<>> => walked = walk /\ s = sweep
    BY <1>2, <2>1 DEF Sweeps
  <2>3. walked # <<>> /\ walked[Len(walked)].kind = "all_unlock" =>
           up - walked[Len(walked)].at >= StepUnlockMs
    <3> SUFFICES ASSUME walked # <<>>, walked[Len(walked)].kind = "all_unlock"
                 PROVE  up - walked[Len(walked)].at >= StepUnlockMs
      OBVIOUS
    <3>1. sweep.running = "all_unlock"
      BY <2>1, <2>2 DEF PaceInv
    <3>2. sweep.nextAt >= walked[Len(walked)].at + StepUnlockMs /\ up >= sweep.nextAt
      BY <2>1, <2>2, <3>1 DEF PaceInv
    <3>3. Len(walked) \in 1..Len(walked)
      BY <1>1
    <3>4. walked[Len(walked)].at \in Nat /\ sweep.nextAt \in Nat
      <4>1. walked[Len(walked)] \in WalkEntry
        BY <1>1, <3>3
      <4>2. QED
        BY <4>1 DEF WalkEntry, PaceInv, TypeOK
    <3>5. QED
      BY <1>4, <3>2, <3>4
  <2>4. entry \in WalkEntry /\ entry.at = up /\ entry.kind = s.running
    <3>2. s.index \in Nat /\ s.running \in Actions
      BY <1>1, <2>1 DEF SweepType, Actions
    <3>3. Windows \in Nat \ {0} /\ TypeOK
      BY PanelAssumption DEF PanelAssumption, PaceInv
    <3>4. SlotOf(s) \in 1..cfg.slots /\ cfg.slots \in Nat
      BY <1>1, <1>8, <3>3, SlotInCabinet DEF TypeOK, ConfigType
    <3>5. WindowOf(s) \in Nat
      <4>1. s.index % Windows \in Nat
        BY <3>2, <3>3
      <4>2. QED
        BY <4>1 DEF WindowOf
    <3>6. QED
      BY <1>4, <3>2, <3>4, <3>5 DEF WalkEntry
  <2> HIDE DEF entry
  <2>5. UnlockPaced'
    <3>1. LET v == Append(walked, entry)
          IN  \A k \in 1..(Len(v) - 1) :
                 v[k].kind = "all_unlock" => v[k + 1].at - v[k].at >= StepUnlockMs
      BY <1>1, <1>3, <2>3, <2>4, PacedAppend
    <3>2. QED
      BY <1>8, <3>1 DEF UnlockPaced
  <2>6. walk'[Len(walk')] = entry
    BY <1>1, <1>8, <2>4
  <2>7. /\ sweep'.running \in {"none", s.running}
        /\ sweep'.running = "all_unlock" => sweep'.nextAt = up + StepUnlockMs
    BY <1>5, <1>8 DEF StepSweep, Pace
  <2>8. QED
    BY <1>4, <2>4, <2>5, <2>6, <2>7 DEF Sweeps
<1>9. QED
  BY <1>1, <1>6, <1>7, <1>8

\* The pause is inductive.
LEMMA PaceInvariant ==
    ASSUME NoWrapUnlocking
    PROVE  Spec => []PaceInv
<1>1. Init /\ TypeOK => PaceInv
  BY PanelAssumption DEF Init, PaceInv, UnlockPaced, PanelAssumption, Sweeps
<1>2. TypeOK' /\ PaceInv /\ [Next]_vars => PaceInv'
  <2> SUFFICES ASSUME TypeOK', PaceInv, [Next]_vars PROVE PaceInv'
    OBVIOUS
  <2>1. ASSUME NEW presses \in SUBSET Buttons, NEW f \in Facts,
               PanelUpdate(presses, f)
        PROVE  PaceInv'
    <3>1. up' = up
      BY <2>1 DEF PanelUpdate
    <3>2. QED
      BY <2>1, <3>1, PaceOfUpdate DEF PaceInv
  <2>2. CASE SchedReset
    <3>1. sweep'.running = "reset" /\ walk' = <<>> /\ up' = up
      BY <2>2 DEF SchedReset, StartSweep
    <3>2. UnlockPaced'
      BY <3>1 DEF UnlockPaced
    <3>3. QED
      BY <3>1, <3>2 DEF PaceInv, Sweeps
  <2>3. ASSUME NEW d \in 1..LoopMax, LoopAgain(d)
        PROVE  PaceInv'
    BY <2>3 DEF LoopAgain, history, PaceInv, UnlockPaced
  <2>4. CASE \/ NoCommand \/ NoSchedule
             \/ \E o \in Outputs \cup {LampOff}, ms \in ForceTimes : LampCommand(o, ms)
             \/ \E c \in Configs : ApplyConfig(c)
    BY <2>4 DEF NoCommand, NoSchedule, LampCommand, ApplyConfig, history, PaceInv,
                UnlockPaced
  <2>5. CASE UNCHANGED vars
    BY <2>5 DEF vars, PaceInv, UnlockPaced
  <2>6. QED
    BY <2>1, <2>2, <2>3, <2>4, <2>5 DEF Next
<1>3. QED
  BY <1>1, <1>2, PanelTypeCorrect, PTL DEF Spec

\* While millis() does not wrap no two latches of an all_unlock sweep are
\* fired closer together than panel.step_unlock_ms (stepSweep()).
THEOREM LatchesArePaced ==
    ASSUME NoWrapUnlocking
    PROVE  Spec => []UnlockPaced
<1>1. PaceInv => UnlockPaced
  BY DEF PaceInv
<1>2. QED
  BY <1>1, PaceInvariant, PTL

(***************************************************************************)
(* A sweep that is let run to its end.  While one runs, the walk holds one *)
(* write for every position it has passed, each at the slot and window     *)
(* that position stands for, whatever cabinet was configured then; and it  *)
(* has begun and not ended, because startSweep() and the first step are in *)
(* one call of panel_update().                                             *)
(***************************************************************************)

\* The slot and window of the position i of a sweep.
PositionSlot(kind, i) == (IF kind = "all_8" THEN i \div Windows ELSE i) + 1
PositionWindow(kind, i) == IF kind = "all_8" THEN (i % Windows) + 1 ELSE 0

\* w holds the positions before n of a sweep of this kind.
WalkedTo(w, kind, n) ==
    /\ Len(w) = n
    /\ \A k \in 1..n : /\ w[k].slot = PositionSlot(kind, k - 1)
                       /\ w[k].window = PositionWindow(kind, k - 1)

CoverInv ==
    /\ TypeOK
    /\ sweep.running \in Sweeps =>
           /\ sweep.index \in 1..(sweep.total - 1)
           /\ WalkedTo(walk, sweep.running, sweep.index)

\* A set of numbers that is not empty has a least one.
LEMMA LeastOf ==
    ASSUME NEW S, S \subseteq Nat, S # {}
    PROVE  \E x \in S : \A y \in S : x <= y
<1>1. PICK x \in S : \A y \in S : ~(<<y, x>> \in OpToRel(<, Nat))
  BY WFMin, NatLessThanWellFounded
<1>2. \A y \in S : ~(y < x)
  BY <1>1 DEF OpToRel
<1>3. \A y \in S : x <= y
  BY <1>2
<1>4. QED
  BY <1>3

\* Of several presses in one scan there is a highest input.
LEMMA HighestOf ==
    ASSUME NEW S, S \subseteq Nat, S # {}, IsFiniteSet(S)
    PROVE  \E x \in S : \A y \in S : y <= x
<1> DEFINE above(x) == {y \in S : y >= x}
           C == {Cardinality(above(x)) : x \in S}
<1>1. \A x \in S : IsFiniteSet(above(x)) /\ Cardinality(above(x)) \in Nat
  BY FS_Subset, FS_CardinalityType
<1>2. PICK n \in C : \A m \in C : n <= m
  <2>1. C \subseteq Nat /\ C # {}
    BY <1>1
  <2>2. QED
    BY <2>1, LeastOf
<1>3. PICK x \in S : n = Cardinality(above(x))
  BY <1>2
<1>4. ASSUME NEW y \in S, y > x
      PROVE  FALSE
  <2>1. x \in Nat /\ y \in Nat /\ \A z \in S : z \in Nat
    OBVIOUS
  <2>2. above(y) \subseteq above(x) /\ x \in above(x) /\ x \notin above(y)
    <3>1. x >= x /\ ~(x >= y) /\ \A z \in S : z >= y => z >= x
      BY <1>4, <2>1
    <3>2. QED
      BY <3>1
  <2>3. Cardinality(above(y)) < Cardinality(above(x))
    BY <1>1, <2>2, FS_Subset
  <2>4. n <= Cardinality(above(y))
    BY <1>2
  <2>5. Cardinality(above(x)) \in Nat /\ Cardinality(above(y)) \in Nat
    BY <1>1
  <2>6. QED
    BY <1>3, <2>3, <2>4, <2>5
<1>5. \A y \in S : y <= x
  BY <1>4
<1>6. QED
  BY <1>5

\* A press that starts a sweep leaves it at its first position, due at once.
LEMMA StartedSweep ==
    ASSUME TypeOK, NEW presses \in SUBSET Buttons, SweepPresses(presses) # {}
    PROVE  \E a \in Sweeps \cup {"reset"} : SweepAfter(presses) = StartSweep(a)
<1> DEFINE last == {b \in SweepPresses(presses) :
                       \A c \in SweepPresses(presses) : c <= b}
<1>1. /\ SweepPresses(presses) \subseteq Nat
      /\ IsFiniteSet(SweepPresses(presses))
  <2>1. SweepPresses(presses) \subseteq Buttons
    BY DEF SweepPresses, Pressed
  <2>2. QED
    BY <2>1, FS_Subset, PanelAssumption DEF PanelAssumption
<1>2. last # {}
  BY <1>1, HighestOf
<1>3. (CHOOSE b \in last : TRUE) \in last
  BY <1>2
<1>4. \A b \in SweepPresses(presses) : cfg.act[b] \in Sweeps \cup {"reset"}
  BY DEF SweepPresses, Pressed, TypeOK, ConfigType, Actions
<1>5. QED
  BY <1>2, <1>3, <1>4 DEF SweepAfter

\* One more position is walked.
LEMMA WalkedOneMore ==
    ASSUME NEW w \in Seq(WalkEntry), NEW kind, NEW n \in Nat, WalkedTo(w, kind, n),
           NEW e, e.slot = PositionSlot(kind, n), e.window = PositionWindow(kind, n)
    PROVE  WalkedTo(Append(w, e), kind, n + 1)
<1> DEFINE v == Append(w, e)
<1>1. Len(w) = n
  BY DEF WalkedTo
<1>2. Len(v) = n + 1 /\ v[n + 1] = e /\ \A k \in 1..n : v[k] = w[k]
  BY <1>1
<1> HIDE DEF v
<1>3. ASSUME NEW k \in 1..(n + 1)
      PROVE  v[k].slot = PositionSlot(kind, k - 1) /\ v[k].window = PositionWindow(kind, k - 1)
  <2>1. CASE k = n + 1
    <3>1. k - 1 = n
      BY <2>1
    <3>2. QED
      BY <1>2, <2>1, <3>1
  <2>2. CASE k \in 1..n
    BY <1>2, <2>2 DEF WalkedTo
  <2>3. QED
    BY <2>1, <2>2
<1>4. QED
  BY <1>2, <1>3 DEF WalkedTo, v

\* A step of a sweep that stands at its index walks that position.
LEMMA CoverStep ==
    ASSUME TypeOK, NEW s \in SweepType, NEW w \in Seq(WalkEntry),
           StepDue(s), SlotOf(s) # 0, WalkedTo(w, s.running, s.index),
           sweep' = StepSweep(s),
           walk' = Append(w, [kind |-> s.running, slot |-> SlotOf(s),
                              window |-> WindowOf(s), at |-> up])
    PROVE  /\ WalkedTo(walk', s.running, s.index + 1)
           /\ sweep'.index = s.index + 1
           /\ sweep'.running = IF s.index + 1 >= s.total THEN "none" ELSE s.running
           /\ s.index + 1 < s.total => sweep'.total = s.total
<1>1. s.index \in Nat /\ s.total \in Nat
  BY DEF SweepType
<1>2. SlotOf(s) = PositionSlot(s.running, s.index)
  BY DEF SlotOf, PositionSlot
<1>3. WindowOf(s) = PositionWindow(s.running, s.index)
  BY DEF WindowOf, PositionWindow
<1>4. WalkedTo(walk', s.running, s.index + 1)
  BY <1>1, <1>2, <1>3, WalkedOneMore
<1>5. StepSweep(s) =
         [running |-> IF s.index + 1 >= s.total THEN "none" ELSE s.running,
          index |-> s.index + 1,
          total |-> IF s.index + 1 >= s.total THEN 0 ELSE s.total,
          nextAt |-> (Millis + Pace(IF s.index + 1 >= s.total THEN "none"
                                    ELSE s.running)) % Wrap]
  BY DEF StepSweep
<1>6. QED
  BY <1>1, <1>4, <1>5

\* What one panel_update() does to a walk: it goes on with it, or begins one.
LEMMA CoverUpdate ==
    ASSUME CoverInv, TypeOK',
           NEW presses \in SUBSET Buttons, NEW f \in Facts, PanelUpdate(presses, f)
    PROVE  /\ CoverInv'
           /\ sweep.running \in Sweeps /\ sweep'.running = "none"
                 /\ sweep'.index = sweep.total
              => WalkedTo(walk', sweep.running, sweep.total)
<1> DEFINE s == SweepAfter(presses)
           walked == IF SweepPresses(presses) # {} THEN <<>> ELSE walk
<1>1. TypeOK
  BY DEF CoverInv
<1>2. /\ s \in SweepType /\ walked \in Seq(WalkEntry)
      /\ \/ /\ StepDue(s) /\ SlotOf(s) # 0
            /\ sweep' = StepSweep(s)
            /\ walk' = Append(walked, [kind |-> s.running, slot |-> SlotOf(s),
                                       window |-> WindowOf(s), at |-> up])
         \/ /\ StepDue(s) /\ SlotOf(s) = 0
            /\ sweep' = [s EXCEPT !.running = "none", !.total = 0]
            /\ walk' = walked
         \/ ~StepDue(s) /\ sweep' = s /\ walk' = walked
  <2> HIDE DEF s, walked
  <2>1. QED
    BY <1>1, WalkStep DEF s, walked
<1>3. s.index \in Nat /\ s.total \in Nat /\ sweep.index \in Nat /\ sweep.total \in Nat
  BY <1>1, <1>2 DEF SweepType, TypeOK
<1>4. sweep.running \in Sweeps => sweep.index \in 1..(sweep.total - 1)
  BY DEF CoverInv
\* It begins one.
<1>5. CASE SweepPresses(presses) # {}
  <2>1. PICK a \in Sweeps \cup {"reset"} : s = StartSweep(a)
    BY <1>1, <1>5, StartedSweep
  <2>2. /\ s.running = a /\ s.index = 0 /\ s.nextAt = Millis
        /\ walked = <<>>
    BY <1>5, <2>1 DEF StartSweep
  <2>3. Millis >= Millis
    BY <1>1, MillisNat
  <2>4. WalkedTo(walked, s.running, s.index)
    BY <2>2 DEF WalkedTo
  <2>5. StepDue(s) <=> a \in Sweeps
    BY <2>2, <2>3 DEF StepDue
  <2> HIDE DEF s, walked
  <2>6. CASE StepDue(s) /\ SlotOf(s) # 0
    <3>1. /\ WalkedTo(walk', s.running, 1)
          /\ sweep'.index = 1
          /\ sweep'.running = IF 1 >= s.total THEN "none" ELSE s.running
          /\ 1 < s.total => sweep'.total = s.total
      <4>1. /\ WalkedTo(walk', s.running, s.index + 1)
            /\ sweep'.index = s.index + 1
            /\ sweep'.running = IF s.index + 1 >= s.total THEN "none" ELSE s.running
            /\ s.index + 1 < s.total => sweep'.total = s.total
        BY <1>1, <1>2, <2>4, <2>6, CoverStep
      <4>2. s.index + 1 = 1
        BY <2>2
      <4>3. QED
        BY <4>1, <4>2
    <3>2. CASE 1 < s.total
      BY <1>1, <1>3, <1>4, <3>1, <3>2 DEF CoverInv, Sweeps
    <3>3. CASE 1 >= s.total
      <4>1. sweep'.running = "none"
        BY <3>1, <3>3
      <4>2. CoverInv'
        BY <4>1 DEF CoverInv, Sweeps
      <4>3. QED
        BY <1>3, <1>4, <3>1, <4>2
    <3>4. QED
      BY <1>3, <3>2, <3>3
  <2>7. CASE StepDue(s) /\ SlotOf(s) = 0
    <3>1. sweep'.running = "none" /\ sweep'.index = 0
      BY <1>2, <2>2, <2>7 DEF SweepType
    <3>2. QED
      BY <1>3, <1>4, <3>1 DEF CoverInv, Sweeps
  <2>8. CASE ~StepDue(s)
    <3>1. sweep'.running = "reset"
      BY <1>2, <2>2, <2>5, <2>8
    <3>2. QED
      BY <3>1 DEF CoverInv, Sweeps
  <2>9. QED
    BY <2>6, <2>7, <2>8
\* It goes on with the one that runs.
<1>6. CASE SweepPresses(presses) = {} /\ s = sweep
  <2>1. walked = walk
    BY <1>6
  <2> HIDE DEF s, walked
  <2>2. CASE StepDue(s) /\ SlotOf(s) # 0
    <3>1. sweep.running \in Sweeps /\ sweep.index \in 1..(sweep.total - 1)
      BY <1>4, <1>6, <2>2 DEF StepDue
    <3>2. WalkedTo(walked, s.running, s.index)
      BY <1>6, <2>1, <3>1 DEF CoverInv
    <3>3. /\ WalkedTo(walk', sweep.running, sweep.index + 1)
          /\ sweep'.index = sweep.index + 1
          /\ sweep'.running = IF sweep.index + 1 >= sweep.total THEN "none"
                              ELSE sweep.running
          /\ sweep.index + 1 < sweep.total => sweep'.total = sweep.total
      BY <1>1, <1>2, <1>6, <2>2, <3>2, CoverStep
    <3>4. CASE sweep.index + 1 < sweep.total
      <4>1. sweep'.running = sweep.running /\ sweep'.index \in 1..(sweep'.total - 1)
        BY <1>3, <3>1, <3>3, <3>4
      <4>2. QED
        BY <3>1, <3>3, <4>1 DEF CoverInv, Sweeps
    <3>5. CASE sweep.index + 1 >= sweep.total
      <4>1. sweep'.running = "none" /\ sweep.index + 1 = sweep.total
        BY <1>3, <3>1, <3>3, <3>5
      <4>2. QED
        BY <3>3, <4>1 DEF CoverInv, Sweeps
    <3>6. QED
      BY <1>3, <3>4, <3>5
  <2>3. CASE StepDue(s) /\ SlotOf(s) = 0
    <3>1. sweep'.running = "none" /\ sweep'.index = sweep.index
      BY <1>2, <1>6, <2>3 DEF SweepType
    <3>2. QED
      BY <1>3, <1>4, <3>1 DEF CoverInv, Sweeps
  <2>4. CASE ~StepDue(s)
    <3>1. sweep' = sweep /\ walk' = walk
      BY <1>2, <1>6, <2>1, <2>4
    <3>2. QED
      BY <3>1 DEF CoverInv, Sweeps
  <2>5. QED
    BY <2>2, <2>3, <2>4
\* A reset that is over stops whatever ran.
<1>7. CASE s = [sweep EXCEPT !.running = "none"]
  <2>1. s.running = "none" /\ s.index = sweep.index
    BY <1>1, <1>7 DEF TypeOK
  <2> HIDE DEF s, walked
  <2>2. sweep' = s
    BY <1>2, <2>1 DEF StepDue, Sweeps
  <2>3. QED
    BY <1>3, <1>4, <2>1, <2>2 DEF CoverInv, Sweeps
<1>8. QED
  BY <1>1, <1>5, <1>6, <1>7, ScanOfSweep

\* The walk is inductive.
LEMMA CoverInvariant == Spec => []CoverInv
<1>1. Init /\ TypeOK => CoverInv
  BY DEF Init, CoverInv, Sweeps
<1>2. TypeOK' /\ CoverInv /\ [Next]_vars => CoverInv'
  <2> SUFFICES ASSUME TypeOK', CoverInv, [Next]_vars PROVE CoverInv'
    OBVIOUS
  <2>1. CASE UNCHANGED <<sweep, walk>>
    BY <2>1 DEF CoverInv
  <2>2. CASE SchedReset
    BY <2>2 DEF SchedReset, StartSweep, CoverInv, Sweeps
  <2>3. ASSUME NEW presses \in SUBSET Buttons, NEW f \in Facts,
               PanelUpdate(presses, f)
        PROVE  CoverInv'
    BY <2>3, CoverUpdate
  <2>4. CASE \/ NoCommand \/ NoSchedule
             \/ \E o \in Outputs \cup {LampOff}, ms \in ForceTimes : LampCommand(o, ms)
             \/ \E c \in Configs : ApplyConfig(c)
             \/ \E d \in 1..LoopMax : LoopAgain(d)
    BY <2>1, <2>4 DEF NoCommand, NoSchedule, LampCommand, ApplyConfig, LoopAgain, history
  <2>5. CASE UNCHANGED vars
    BY <2>1, <2>5 DEF vars
  <2>6. QED
    BY <2>2, <2>3, <2>4, <2>5 DEF Next
<1>3. QED
  BY <1>1, <1>2, PanelTypeCorrect, PTL DEF Spec

\* Quotient and remainder of a window number: the windows of the slots before
\* q are q * d, and every slot and window is reached by one number.
LEMMA Windowed ==
    ASSUME NEW d \in Nat \ {0}, NEW n \in Nat
    PROVE  /\ \A a \in 0..(n * d - 1) : /\ a \div d \in 0..(n - 1)
                                        /\ a % d \in 0..(d - 1)
           /\ \A q \in 0..(n - 1), r \in 0..(d - 1) :
                 /\ q * d + r \in 0..(n * d - 1)
                 /\ (q * d + r) \div d = q
                 /\ (q * d + r) % d = r
<1>1. n * d \in Nat
  OBVIOUS
<1>2. ASSUME NEW a \in 0..(n * d - 1)
      PROVE  a \div d \in 0..(n - 1) /\ a % d \in 0..(d - 1)
  <2> DEFINE q == a \div d
             r == a % d
  <2>1. q \in Nat /\ r \in 0..(d - 1) /\ a = d * q + r /\ a < n * d
    BY <1>1
  <2>2. d * q = q * d
    BY <2>1
  <2>3. q < n
    <3>1. SUFFICES ASSUME q >= n PROVE FALSE
      BY <2>1
    <3>2. q * d >= n * d
      BY <2>1, <3>1
    <3>3. QED
      BY <1>1, <2>1, <2>2, <3>2
  <2>4. QED
    BY <2>1, <2>3
<1>3. ASSUME NEW q \in 0..(n - 1), NEW r \in 0..(d - 1)
      PROVE  /\ q * d + r \in 0..(n * d - 1)
             /\ (q * d + r) \div d = q
             /\ (q * d + r) % d = r
  <2>1. q * d \in Nat /\ (q + 1) * d = q * d + d
    BY SMT
  <2>2. (q + 1) * d <= n * d
    BY SMT
  <2>3. q * d + r \in 0..(n * d - 1)
    BY <1>1, <2>1, <2>2
  <2> DEFINE a == q * d + r
             p == a \div d
             m == a % d
  <2>4. p \in Nat /\ m \in 0..(d - 1) /\ a = d * p + m
    BY <2>1
  <2>5. d * p = p * d
    BY <2>4
  <2>6. p = q
    <3>1. CASE p > q
      <4>1. p * d >= (q + 1) * d
        BY <2>4, <3>1
      <4>2. QED
        BY <2>1, <2>4, <2>5, <4>1
    <3>2. CASE p < q
      <4>1. q * d >= (p + 1) * d /\ (p + 1) * d = p * d + d
        BY <2>4, <3>2
      <4>2. QED
        BY <2>1, <2>4, <2>5, <4>1
    <3>3. QED
      BY <2>4, <3>1, <3>2
  <2>7. m = r
    BY <2>1, <2>4, <2>5, <2>6
  <2>8. QED
    BY <2>3, <2>6, <2>7
<1>4. QED
  BY <1>2, <1>3

\* The positions of a whole sweep are the slots of the cabinet, each once for
\* each of its windows.
LEMMA PositionsAreTheCabinet ==
    ASSUME TypeOK, NEW kind \in Sweeps, NEW w, WalkedTo(w, kind, SweepLength(kind))
    PROVE  {<<w[k].slot, w[k].window>> : k \in 1..Len(w)} =
              (1..cfg.slots) \X (IF kind = "all_8" THEN 1..Windows ELSE {0})
<1> DEFINE n == SweepLength(kind)
<1>1. Windows \in Nat \ {0} /\ cfg.slots \in Nat
  BY PanelAssumption DEF PanelAssumption, TypeOK, ConfigType
<1>2. /\ Len(w) = n
      /\ \A k \in 1..n : /\ w[k].slot = PositionSlot(kind, k - 1)
                         /\ w[k].window = PositionWindow(kind, k - 1)
  BY DEF WalkedTo
<1>3. CASE kind # "all_8"
  <2>1. n = cfg.slots
    BY <1>3 DEF SweepLength, Sweeps
  <2>2. \A k \in 1..n : w[k].slot = k /\ w[k].window = 0
    BY <1>1, <1>2, <1>3, <2>1 DEF PositionSlot, PositionWindow
  <2>3. {<<w[k].slot, w[k].window>> : k \in 1..Len(w)} = (1..cfg.slots) \X {0}
    <3>1. ASSUME NEW k \in 1..Len(w)
          PROVE  <<w[k].slot, w[k].window>> \in (1..cfg.slots) \X {0}
      BY <1>2, <2>1, <2>2
    <3>2. ASSUME NEW x \in (1..cfg.slots) \X {0}
          PROVE  \E k \in 1..Len(w) : x = <<w[k].slot, w[k].window>>
      <4>1. x[1] \in 1..Len(w) /\ x = <<x[1], 0>>
        BY <1>2, <2>1
      <4>2. x = <<w[x[1]].slot, w[x[1]].window>>
        BY <1>2, <2>2, <4>1
      <4>3. QED
        BY <4>1, <4>2
    <3>3. QED
      BY <3>1, <3>2
  <2>4. QED
    BY <1>3, <2>3
<1>4. CASE kind = "all_8"
  <2>1. n = cfg.slots * Windows /\ n \in Nat
    BY <1>1, <1>4 DEF SweepLength
  <2>2. \A k \in 1..n : /\ w[k].slot = ((k - 1) \div Windows) + 1
                        /\ w[k].window = ((k - 1) % Windows) + 1
    BY <1>2, <1>4 DEF PositionSlot, PositionWindow
  <2> HIDE DEF n
  <2>3. ASSUME NEW k \in 1..n
        PROVE  <<w[k].slot, w[k].window>> \in (1..cfg.slots) \X (1..Windows)
    <3>1. k - 1 \in 0..(cfg.slots * Windows - 1)
      BY <2>1
    <3>2. (k - 1) \div Windows \in 0..(cfg.slots - 1) /\ (k - 1) % Windows \in 0..(Windows - 1)
      BY <1>1, <3>1, Windowed
    <3>3. w[k].slot \in 1..cfg.slots /\ w[k].window \in 1..Windows
      BY <1>1, <2>2, <3>2
    <3>4. QED
      BY <3>3
  <2>4. ASSUME NEW q \in 1..cfg.slots, NEW r \in 1..Windows
        PROVE  \E k \in 1..n : <<q, r>> = <<w[k].slot, w[k].window>>
    <3>1. q - 1 \in 0..(cfg.slots - 1) /\ r - 1 \in 0..(Windows - 1)
      BY <1>1
    <3>2. /\ (q - 1) * Windows + (r - 1) \in 0..(cfg.slots * Windows - 1)
          /\ ((q - 1) * Windows + (r - 1)) \div Windows = q - 1
          /\ ((q - 1) * Windows + (r - 1)) % Windows = r - 1
      <4>1. \A b \in 0..(cfg.slots - 1), c \in 0..(Windows - 1) :
                 /\ b * Windows + c \in 0..(cfg.slots * Windows - 1)
                 /\ (b * Windows + c) \div Windows = b
                 /\ (b * Windows + c) % Windows = c
        BY <1>1, Windowed
      <4> HIDE DEF n
      <4>2. QED
        BY <3>1, <4>1
    <3>3. PICK a \in 0..(n - 1) : a \div Windows = q - 1 /\ a % Windows = r - 1
      BY <2>1, <3>2
    <3>4. a + 1 \in 1..n /\ (a + 1) - 1 = a
      BY <2>1, <3>3
    <3>5. w[a + 1].slot = (q - 1) + 1 /\ w[a + 1].window = (r - 1) + 1
      BY <2>2, <3>3, <3>4
    <3>6. w[a + 1].slot = q /\ w[a + 1].window = r
      BY <3>5
    <3>7. QED
      BY <3>4, <3>6
  <2>5. {<<w[k].slot, w[k].window>> : k \in 1..n} = (1..cfg.slots) \X (1..Windows)
    <3>1. ASSUME NEW x \in (1..cfg.slots) \X (1..Windows)
          PROVE  \E k \in 1..n : x = <<w[k].slot, w[k].window>>
      <4>1. PICK q \in 1..cfg.slots, r \in 1..Windows : x = <<q, r>>
        OBVIOUS
      <4>2. QED
        BY <2>4, <4>1
    <3>2. QED
      BY <2>3, <3>1
  <2>6. QED
    BY <1>2, <1>4, <2>5 DEF n
<1>5. QED
  BY <1>3, <1>4

\* A sweep that ends at the end of the cabinet it was sized for has addressed
\* every slot, and for all_8 every window of it, exactly once.
THEOREM SweepsReachEverySlot == Spec => SweepCoversCabinet
<1>1. CoverInv /\ TypeOK' /\ [Next]_vars =>
        [ /\ sweep.running \in Sweeps /\ sweep'.running = "none"
          /\ sweep.total = SweepLength(sweep.running) /\ sweep'.index = sweep.total
          => /\ Len(walk') = sweep.total
             /\ {<<walk'[k].slot, walk'[k].window>> : k \in 1..Len(walk')} =
                  (1..cfg.slots) \X
                  (IF sweep.running = "all_8" THEN 1..Windows ELSE {0}) ]_vars
  <2> SUFFICES ASSUME CoverInv, TypeOK', Next,
                      sweep.running \in Sweeps, sweep'.running = "none",
                      sweep.total = SweepLength(sweep.running),
                      sweep'.index = sweep.total
               PROVE  /\ Len(walk') = sweep.total
                      /\ {<<walk'[k].slot, walk'[k].window>> : k \in 1..Len(walk')} =
                           (1..cfg.slots) \X
                           (IF sweep.running = "all_8" THEN 1..Windows ELSE {0})
    OBVIOUS
  <2>1. CASE \E presses \in SUBSET Buttons, f \in Facts : PanelUpdate(presses, f)
    <3>1. WalkedTo(walk', sweep.running, sweep.total)
      BY <2>1, CoverUpdate
    <3>2. Len(walk') = sweep.total
      BY <3>1 DEF WalkedTo
    <3>3. QED
      BY <3>1, <3>2, PositionsAreTheCabinet DEF CoverInv
  <2>2. CASE \/ NoCommand \/ NoSchedule
             \/ \E o \in Outputs \cup {LampOff}, ms \in ForceTimes : LampCommand(o, ms)
             \/ \E c \in Configs : ApplyConfig(c)
             \/ \E d \in 1..LoopMax : LoopAgain(d)
    <3>1. sweep' = sweep
      BY <2>2 DEF NoCommand, NoSchedule, LampCommand, ApplyConfig, LoopAgain
    <3>2. QED
      BY <3>1 DEF Sweeps
  <2>3. CASE SchedReset
    BY <2>3 DEF SchedReset, StartSweep
  <2>4. QED
    BY <2>1, <2>2, <2>3 DEF Next
<1>2. QED
  BY <1>1, CoverInvariant, PanelTypeCorrect, PTL DEF Spec, SweepCoversCabinet
=============================================================================
