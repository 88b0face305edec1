---------------------------- MODULE ClockProofs ----------------------------
(***************************************************************************)
(* Theorems about Clock, for every calendar, schedule and number of        *)
(* mishaps: the clock is believed exactly as long as it deserves it, and   *)
(* an undisturbed minute is served exactly once.                           *)
(***************************************************************************)
EXTENDS Clock, TLAPS

\* A number below n * d has a quotient below n and is put together again from
\* quotient and remainder.
LEMMA DivMod ==
    ASSUME NEW w \in Nat, NEW d \in Nat \ {0}, NEW n \in Nat \ {0}, w < n * d
    PROVE  /\ w \div d \in 0..(n - 1)
           /\ w % d \in 0..(d - 1)
           /\ (w \div d) * d + (w % d) = w
<1> DEFINE q == w \div d
           r == w % d
<1>1. q \in Nat /\ r \in 0..(d - 1) /\ w = d * q + r
  OBVIOUS
<1>2. d * q = q * d
  BY <1>1
<1>3. q < n
  <2>1. SUFFICES ASSUME q >= n PROVE FALSE
    BY <1>1
  <2>2. q * d >= n * d
    BY <2>1, <1>1
  <2>3. QED
    BY <2>2, <1>1, <1>2
<1>4. QED
  BY <1>1, <1>2, <1>3

\* A remainder is the number itself while that is below the modulus.
LEMMA ModSmall ==
    ASSUME NEW n \in Nat \ {0}, NEW a \in 0..(n - 1)
    PROVE  a % n = a
OBVIOUS

\* Within a year the stamp of a minute, day of the year * 1440 + minute of the
\* day (sched_update()), is that minute's own.
LEMMA StampIsMinute ==
    ASSUME NEW w \in 0..Top
    PROVE  Stamp(w) = w
<1>1. /\ DayLength \in Nat \ {0} /\ Year \in Nat \ {0} /\ Top \in Nat
      /\ Top < Year * DayLength
  BY ClockAssumption DEF ClockAssumption
<1>2. w \in Nat /\ w < Year * DayLength
  <2>1. Year * DayLength \in Nat
    BY <1>1
  <2>2. QED
    BY <1>1, <2>1
<1>3. Day(w) \in 0..(Year - 1) /\ Day(w) * DayLength + MinuteOfDay(w) = w
  BY <1>1, <1>2, DivMod DEF Day, MinuteOfDay
<1>4. Day(w) % Year = Day(w)
  BY <1>1, <1>3, ModSmall
<1>5. QED
  BY <1>3, <1>4 DEF Stamp
(***************************************************************************)
(* Type correctness.                                                       *)
(***************************************************************************)

\* The bounds the types are built from.
LEMMA Bounds ==
    /\ Top \in Nat /\ Floor \in Nat /\ Ceiling \in Nat
    /\ 0 < Floor /\ Ceiling <= Top
    /\ Times \subseteq 0..Top
    /\ Resync \in Nat /\ Retry \in 0..Resync /\ Mishaps \in Nat
<1>1. /\ Top \in Nat /\ Floor \in Nat /\ Ceiling \in Nat
      /\ 0 < Floor /\ Ceiling <= Top
      /\ Times \subseteq 1..Top
      /\ Resync \in Nat /\ Retry \in Nat /\ Retry <= Resync /\ Mishaps \in Nat
  BY ClockAssumption, Zenon DEF ClockAssumption
<1>2. QED
  BY <1>1

\* A mishap is counted down to zero at most.
LEMMA MishapType == TypeOK /\ Mishap => mishaps' \in 0..Mishaps
BY Bounds DEF TypeOK, Mishap

\* No slot has fired (forgetFirings()).
LEMMA NoFiringsType == NoFirings \in [Slots -> {None} \cup 0..Top]
BY DEF NoFirings

\* A boot leaves the whole state well typed (setup()).
LEMMA BootType ==
    ASSUME TypeOK, NEW w \in 0..Top, NEW m \in BOOLEAN, Boot(w, m), Mishap,
           sane' \in BOOLEAN, flashed' \in BOOLEAN
    PROVE  TypeOK'
<1>1. Believed(w, m) \in BOOLEAN
  BY DEF Believed
<1>2. active' \in AllConfigs /\ net' \in NetStates
  BY DEF Boot, TypeOK, AllConfigs, NetStates
<1>3. mishaps' \in 0..Mishaps
  BY MishapType
<1>4. due' \in 0..Resync
  BY Bounds DEF Boot
<1>5. fired' \in [Slots -> {None} \cup 0..Top]
  BY NoFiringsType DEF Boot
<1>6. /\ at' \in Handlers /\ looked' \subseteq {"net", "sched"}
      /\ ntp' \in NtpStates /\ query' \in Fates /\ waiting' = (query' # NoQuery)
  BY DEF Boot, Handlers, NtpStates, Fates, NoQuery
<1>7. mark' \in BOOLEAN /\ timeSet' \in BOOLEAN
  BY <1>1 DEF Boot
<1>8. whole' \in BOOLEAN /\ socket' \in BOOLEAN
  BY DEF Boot, TypeOK
<1>9. wall' \in 0..Top /\ lastFire' \in {None} \cup 0..Top /\ firings' \in 0..2
  BY DEF Boot
<1>10. stored' \in AllConfigs /\ cable' \in BOOLEAN
  BY DEF Boot, TypeOK
<1>11. QED
  BY <1>2, <1>3, <1>4, <1>5, <1>6, <1>7, <1>8, <1>9, <1>10 DEF TypeOK

\* Handing the clock over leaves it well typed (sched_setTime()).
LEMMA SetTimeType ==
    ASSUME TypeOK, NEW t \in Times, SetTime(t)
    PROVE  /\ wall' \in 0..Top
           /\ sane' \in BOOLEAN /\ flashed' \in BOOLEAN
           /\ mark' \in BOOLEAN /\ timeSet' \in BOOLEAN
           /\ fired' \in [Slots -> {None} \cup 0..Top]
           /\ lastFire' \in {None} \cup 0..Top
           /\ whole' \in BOOLEAN /\ firings' \in 0..2
<1>1. wall' \in 0..Top
  BY Bounds DEF SetTime
<1>2. fired' \in [Slots -> {None} \cup 0..Top]
  BY NoFiringsType DEF SetTime
<1>3. sane' \in BOOLEAN /\ flashed' \in BOOLEAN
  BY DEF SetTime, TypeOK
<1>4. mark' \in BOOLEAN /\ timeSet' \in BOOLEAN
  BY DEF SetTime, TypeOK
<1>5. lastFire' \in {None} \cup 0..Top
  BY DEF SetTime, TypeOK
<1>6. whole' \in BOOLEAN
  BY DEF SetTime, TypeOK
<1>7. firings' \in 0..2
  BY DEF SetTime, TypeOK
<1>8. QED
  BY <1>1, <1>2, <1>3, <1>4, <1>5, <1>6, <1>7

\* sched_update() leaves the stamps well typed.
LEMMA SchedUpdateType == TypeOK /\ SchedUpdate => TypeOK'
<1> SUFFICES ASSUME TypeOK, SchedUpdate PROVE TypeOK'
  OBVIOUS
<1>1. wall \in 0..Top /\ Stamp(wall) \in 0..Top
  BY StampIsMinute DEF TypeOK
<1>2. fired' \in [Slots -> {None} \cup 0..Top]
  BY <1>1 DEF SchedUpdate, TypeOK, schedVars
<1>3. lastFire' \in {None} \cup 0..Top
  BY <1>1 DEF SchedUpdate, TypeOK, schedVars
<1>4. firings' \in 0..2
  BY DEF SchedUpdate, TypeOK, schedVars, Min
<1>5. QED
  BY <1>2, <1>3, <1>4
     DEF SchedUpdate, TypeOK, schedVars, rtcVars, cfgVars, linkVars, ntpVars,
         Handlers

\* So does the SNTP client (ntp_update()).
LEMMA NtpUpdateType == TypeOK /\ NtpUpdate => TypeOK'
<1> SUFFICES ASSUME TypeOK, NtpUpdate PROVE TypeOK'
  OBVIOUS
<1> USE DEF NtpUpdate, cfgVars, linkVars, Handlers
<1>1. Retry \in 0..Resync /\ Resync \in 0..Resync
  BY Bounds
<1>2. CASE NtpIdle
  BY <1>2 DEF NtpIdle, CloseQuery, rtcVars, schedVars, TypeOK, NtpStates, Fates,
              NoQuery
<1>3. CASE NtpAnswered
  <2>1. PICK t \in Times : SetTime(t)
    BY <1>3 DEF NtpAnswered
  <2>2. /\ wall' \in 0..Top
        /\ sane' \in BOOLEAN /\ flashed' \in BOOLEAN
        /\ mark' \in BOOLEAN /\ timeSet' \in BOOLEAN
        /\ fired' \in [Slots -> {None} \cup 0..Top]
        /\ lastFire' \in {None} \cup 0..Top
        /\ whole' \in BOOLEAN /\ firings' \in 0..2
    BY <2>1, SetTimeType
  <2>3. QED
    BY <1>1, <1>3, <2>2 DEF NtpAnswered, CloseQuery, TypeOK, NtpStates, Fates,
                            NoQuery
<1>4. CASE NtpFailed
  BY <1>1, <1>4 DEF NtpFailed, FailQuery, CloseQuery, rtcVars, schedVars, TypeOK,
                    NtpStates, Fates, NoQuery
<1>5. CASE NtpQuiet
  BY <1>5 DEF NtpQuiet, ntpVars, rtcVars, schedVars, TypeOK
<1>6. CASE NtpLaunch
  BY <1>1, <1>6, MishapType DEF NtpLaunch, FailQuery, CloseQuery, rtcVars, schedVars,
                    TypeOK, NtpStates, Fates, NoQuery
<1>7. QED
  BY <1>2, <1>3, <1>4, <1>5, <1>6

\* And the link poll and the console.
LEMMA LoopType ==
    TypeOK /\ (NetUpdate \/ Console) => TypeOK'
<1> SUFFICES ASSUME TypeOK, NetUpdate \/ Console PROVE TypeOK'
  OBVIOUS
<1>1. CASE NetUpdate
  BY <1>1, Bounds
     DEF NetUpdate, rtcVars, schedVars, cfgVars, TypeOK, Handlers, NetStates
<1>2. CASE ConsoleQuiet
  BY <1>2 DEF ConsoleQuiet, rtcVars, schedVars, cfgVars, linkVars, ntpVars, TypeOK,
              Handlers
<1>3. ASSUME NEW t \in Times, Time(t) PROVE TypeOK'
  BY <1>3, SetTimeType, MishapType DEF Time, cfgVars, linkVars, ntpVars, TypeOK, Handlers
<1>4. ASSUME NEW c \in Configs, Save(c) PROVE TypeOK'
  BY <1>4, Bounds, MishapType
     DEF Save, rtcVars, linkVars, TypeOK, Handlers, AllConfigs
<1>5. QED
  BY <1>1, <1>2, <1>3, <1>4 DEF Console

\* And what the world does to it.
LEMMA WorldType ==
    TypeOK /\ (World \/ Reset \/ NewFirmware \/ PowerCut \/ BrownOut) => TypeOK'
<1> SUFFICES ASSUME TypeOK, World \/ Reset \/ NewFirmware \/ PowerCut \/ BrownOut PROVE TypeOK'
  OBVIOUS
<1>1. Top \in Nat /\ Resync \in Nat
  BY Bounds
<1>2. CASE Tick
  <2>1. wall' \in 0..Top /\ due' \in 0..Resync
    BY <1>1, <1>2 DEF Tick, Min, TypeOK
  <2>2. looked' \subseteq {"net", "sched"} /\ firings' \in 0..2
    BY <1>2 DEF Tick, TypeOK
  <2>4. whole' \in BOOLEAN
    BY <1>2 DEF Tick, TypeOK
  <2>3. QED
    BY <1>2, <2>1, <2>2, <2>4 DEF Tick, cfgVars, linkVars, TypeOK
<1>3. CASE Unplug \/ Plug
  BY <1>3, MishapType DEF Unplug, Plug, rtcVars, schedVars, cfgVars, ntpVars, TypeOK
<1>4. ASSUME NEW f \in Fates \ {NoQuery, "asked"}, Fate(f) PROVE TypeOK'
  BY <1>4, MishapType DEF Fate, rtcVars, schedVars, cfgVars, linkVars, TypeOK, NoQuery
<1>5. CASE Reset \/ NewFirmware
  BY <1>5, BootType DEF Reset, NewFirmware, TypeOK
<1>6. CASE PowerCut
  <2>1. 0 \in 0..Top /\ FALSE \in BOOLEAN
    BY <1>1
  <2>2. Mishap /\ Boot(0, FALSE) /\ sane' \in BOOLEAN /\ flashed' \in BOOLEAN
    BY <1>6 DEF PowerCut, TypeOK
  <2>3. QED
    BY <2>1, <2>2, BootType
<1>7. CASE BrownOut
  <2>1. PICK w \in {0, Top} : Boot(w, mark)
    BY <1>7 DEF BrownOut
  <2>2. w \in 0..Top /\ mark \in BOOLEAN /\ Mishap
    BY <1>1, <1>7 DEF BrownOut, TypeOK
  <2>4. sane' \in BOOLEAN /\ flashed' \in BOOLEAN
    BY <1>7 DEF BrownOut, TypeOK
  <2>3. QED
    BY <2>1, <2>2, <2>4, BootType
<1>8. QED
  BY <1>2, <1>3, <1>4, <1>5, <1>6, <1>7 DEF World

\* Every reachable state is well typed.
THEOREM ClockTypeCorrect == Spec => []TypeOK
<1>1. Init => TypeOK
  <2> SUFFICES ASSUME Init PROVE TypeOK
    OBVIOUS
  <2>1. wall \in 0..Top /\ due \in 0..Resync /\ mishaps \in 0..Mishaps
    BY Bounds DEF Init
  <2>2. fired \in [Slots -> {None} \cup 0..Top]
    BY NoFiringsType DEF Init
  <2>3. /\ at \in Handlers /\ looked \subseteq {"net", "sched"}
        /\ net \in NetStates /\ ntp \in NtpStates
        /\ query \in Fates /\ waiting = (query # NoQuery)
    BY DEF Init, Handlers, NetStates, NtpStates, Fates, NoQuery
  <2>4. sane \in BOOLEAN /\ flashed \in BOOLEAN /\ mark \in BOOLEAN /\ timeSet \in BOOLEAN
    BY DEF Init
  <2>5. whole \in BOOLEAN /\ socket \in BOOLEAN
    BY DEF Init
  <2>6. lastFire \in {None} \cup 0..Top /\ firings \in 0..2
    BY DEF Init
  <2>7. QED
    BY <2>1, <2>2, <2>3, <2>4, <2>5, <2>6 DEF Init, TypeOK
<1>2. TypeOK /\ [Next]_vars => TypeOK'
  <2>1. TypeOK /\ UNCHANGED vars => TypeOK'
    BY DEF vars, TypeOK
  <2>2. QED
    BY <2>1, SchedUpdateType, NtpUpdateType, LoopType, WorldType DEF Next
<1>3. QED
  BY <1>1, <1>2, PTL DEF Spec
(***************************************************************************)
(* The marker.  It is set with the clock and never outlives it, so what a  *)
(* boot believes is wall time; and it is there whenever the clock is set,  *)
(* so a boot that finds the RTC sane believes it.                          *)
(***************************************************************************)

MarkInv == (mark => sane) /\ (timeSet => mark)

\* What each step does to the marker, the RTC and _timeSet.
LEMMA MarkStep ==
    ASSUME TypeOK, MarkInv, [Next]_vars
    PROVE  MarkInv' /\ (timeSet /\ wall \in Trusted /\ sane' /\ ~flashed' => timeSet')
<1> USE DEF MarkInv
<1>1. CASE UNCHANGED rtcVars
  BY <1>1 DEF rtcVars
<1>2. ASSUME NEW t \in Times, SetTime(t)
      PROVE  MarkInv' /\ timeSet'
  BY <1>2 DEF SetTime
<1>3. CASE Reset
  BY <1>3 DEF Reset, Boot, Believed
<1>4. CASE PowerCut \/ NewFirmware
  BY <1>4 DEF PowerCut, NewFirmware, Boot, Believed
<1>5. CASE BrownOut
  <2>1. PICK w \in {0, Top} : Boot(w, mark)
    BY <1>5 DEF BrownOut
  <2>2. w \notin Trusted
    BY Bounds DEF Trusted
  <2>3. ~mark' /\ ~timeSet' /\ ~sane'
    BY <1>5, <2>1, <2>2 DEF BrownOut, Boot, Believed
  <2>4. QED
    BY <2>3
<1>6. CASE Tick
  BY <1>6 DEF Tick
<1>7. CASE NtpUpdate
  <2>1. CASE NtpAnswered
    BY <1>2, <2>1 DEF NtpAnswered
  <2>2. CASE ~NtpAnswered
    BY <1>1, <1>7, <2>2 DEF NtpUpdate, NtpIdle, NtpFailed, NtpQuiet, NtpLaunch
  <2>3. QED
    BY <2>1, <2>2
<1>8. CASE Console
  <2>1. ASSUME NEW t \in Times, Time(t) PROVE MarkInv' /\ timeSet'
    BY <1>2, <2>1 DEF Time
  <2>2. CASE ConsoleQuiet \/ \E c \in Configs : Save(c)
    BY <1>1, <2>2 DEF ConsoleQuiet, Save
  <2>3. QED
    BY <1>8, <2>1, <2>2 DEF Console
<1>9. CASE \/ NetUpdate \/ SchedUpdate \/ Unplug \/ Plug
           \/ \E f \in Fates \ {NoQuery, "asked"} : Fate(f)
  BY <1>1, <1>9 DEF NetUpdate, SchedUpdate, Unplug, Plug, Fate
<1>10. CASE UNCHANGED vars
  BY <1>1, <1>10 DEF vars, rtcVars
<1>11. QED
  BY <1>3, <1>4, <1>5, <1>6, <1>7, <1>8, <1>9, <1>10 DEF Next, World

\* The marker is right in every reachable state.
LEMMA MarkInvariant == Spec => []MarkInv
<1>1. Init => MarkInv
  BY DEF Init, MarkInv
<1>2. TypeOK /\ MarkInv /\ [Next]_vars => MarkInv'
  BY MarkStep
<1>3. QED
  BY <1>1, <1>2, ClockTypeCorrect, PTL DEF Spec

\* The gateway never takes a meaningless RTC reading for the time, however
\* resets, power cuts and brown-outs of the backup domain follow each other.
THEOREM ClockIsReal == Spec => []TrustedClockIsReal
<1>1. MarkInv => TrustedClockIsReal
  BY DEF MarkInv, TrustedClockIsReal
<1>2. QED
  BY <1>1, MarkInvariant, PTL

\* No step but the RTC losing its time, or the installation of new firmware,
\* makes the gateway forget a clock that reads within sched_begin()'s range.
THEOREM ClockIsKept == Spec => WorkingClockKept
<1>1. TypeOK /\ MarkInv /\ [Next]_vars
        => [timeSet /\ wall \in Trusted /\ sane' /\ ~flashed' => timeSet']_vars
  BY MarkStep
<1>2. QED
  BY <1>1, ClockTypeCorrect, MarkInvariant, PTL DEF Spec, WorkingClockKept
(***************************************************************************)
(* The schedule.  ServedOnce counts firings; what makes it inductive is    *)
(* what the stamps say: none lies ahead of the clock, in a minute that has *)
(* not been served no stamp is the present minute's, and in one that has,  *)
(* every slot that names it carries its stamp.                             *)
(***************************************************************************)

StampsBehind == \A s \in Slots : fired[s] <= wall
Unfired == whole /\ firings = 0 => \A s \in Slots : fired[s] # wall
Fired ==
    whole /\ firings # 0 =>
        /\ firings = 1 /\ timeSet /\ DueAt(active, wall)
        /\ \A s \in Named(active, wall) : fired[s] = wall
Served == whole /\ "sched" \in looked /\ timeSet /\ DueAt(active, wall) => firings # 0
ServeInv == StampsBehind /\ Unfired /\ Fired /\ Served

\* Every slot that names a minute is a slot.
LEMMA NamedSlots == \A c \in AllConfigs, w \in Int : Named(c, w) \subseteq Slots
<1>1. \A c \in Configs : c.armed \subseteq Slots
  BY ClockAssumption, Zenon DEF ClockAssumption
<1>2. Defaults.armed \subseteq Slots
  BY DEF Defaults
<1>3. QED
  BY <1>1, <1>2 DEF Named, AllConfigs

\* A schedule that is the same names the same minutes.
LEMMA SameSchedule ==
    ASSUME NEW c, NEW d, Schedule(c) = Schedule(d), NEW w
    PROVE  Named(c, w) = Named(d, w) /\ DueAt(c, w) = DueAt(d, w)
<1>1. /\ c.enabled = d.enabled /\ c.armed = d.armed
      /\ c.days = d.days /\ c.hhmm = d.hhmm
  BY DEF Schedule
<1>2. QED
  BY <1>1 DEF Named, DueAt, Today

\* A minute nobody vouches for asks only that no stamp lies ahead.
LEMMA FreshServe ==
    ASSUME ~whole', fired' = NoFirings, wall' \in Nat
    PROVE  ServeInv'
<1>1. \A s \in Slots : fired'[s] = -1
  BY DEF NoFirings, None
<1>2. QED
  BY <1>1 DEF ServeInv, StampsBehind, Unfired, Fired, Served

\* What sched_update() does to a minute.
LEMMA SchedUpdateServe ==
    ASSUME TypeOK, ServeInv, SchedUpdate
    PROVE  ServeInv'
<1>1. /\ wall \in Nat /\ Stamp(wall) = wall /\ wall' = wall
      /\ timeSet' = timeSet /\ active' = active
  BY StampIsMinute, Bounds DEF TypeOK, SchedUpdate, rtcVars, cfgVars
<1>2. Named(active, wall) \subseteq Slots
  BY <1>1, NamedSlots DEF TypeOK
<1>3. CASE UNCHANGED schedVars /\ "sched" \in looked
  BY <1>1, <1>3 DEF schedVars, ServeInv, StampsBehind, Unfired, Fired, Served
<1>4. CASE ~(UNCHANGED schedVars /\ "sched" \in looked)
  <2> DEFINE mustServe == timeSet /\ DueAt(active, wall)
             serve == IF mustServe THEN Unserved ELSE {}
  <2>1. /\ whole' = whole
        /\ fired' = [s \in Slots |-> IF s \in serve THEN wall ELSE fired[s]]
        /\ firings' = IF serve # {} THEN Min(firings + 1, 2) ELSE firings
    BY <1>1, <1>4 DEF SchedUpdate
  <2>2. serve \subseteq Slots
    BY <1>2 DEF Unserved
  <2>3. \A s \in Slots : fired'[s] = IF s \in serve THEN wall ELSE fired[s]
    BY <2>1
  <2>4. StampsBehind'
    BY <1>1, <2>3 DEF ServeInv, StampsBehind
  <2>5. CASE ~mustServe
    <3>1. serve = {} /\ firings' = firings
      BY <2>1, <2>5
    <3>2. QED
      BY <1>1, <2>1, <2>3, <2>4, <2>5, <3>1 DEF ServeInv, Unfired, Fired, Served
  <2>6. CASE mustServe /\ whole /\ firings = 0
    <3>1. serve = Named(active, wall)
      BY <1>1, <1>2, <2>6 DEF ServeInv, Unfired, Unserved
    <3>2. serve # {}
      BY <2>6, <3>1 DEF DueAt
    <3>3. firings' = 1
      BY <2>1, <2>6, <3>2 DEF Min
    <3>4. \A s \in Named(active, wall) : fired'[s] = wall
      BY <1>2, <2>3, <3>1
    <3>5. QED
      BY <1>1, <2>4, <2>6, <3>3, <3>4 DEF ServeInv, Unfired, Fired, Served
  <2>7. CASE mustServe /\ whole /\ firings # 0
    <3>1. serve = {}
      BY <1>1, <2>7 DEF ServeInv, Fired, Unserved
    <3>2. firings' = firings /\ \A s \in Slots : fired'[s] = fired[s]
      BY <2>1, <2>3, <3>1
    <3>3. \A s \in Named(active, wall) : fired'[s] = wall
      BY <1>2, <2>7, <3>2 DEF ServeInv, Fired
    <3>4. Unfired' /\ Fired' /\ Served'
      BY <1>1, <2>1, <2>7, <3>2, <3>3 DEF ServeInv, Unfired, Fired, Served
    <3>5. QED
      BY <2>4, <3>4 DEF ServeInv
  <2>8. CASE ~whole
    BY <2>1, <2>4, <2>8 DEF ServeInv, Unfired, Fired, Served
  <2>9. QED
    BY <2>5, <2>6, <2>7, <2>8
<1>5. QED
  BY <1>3, <1>4

\* What the next minute does to it.
LEMMA TickServe ==
    ASSUME TypeOK, ServeInv, Tick
    PROVE  ServeInv'
<1>1. wall \in Nat /\ Top \in Nat /\ wall <= Top /\ looked' = {} /\ fired' = fired
  BY Bounds DEF TypeOK, Tick
<1>2. \A s \in Slots : fired[s] \in Int
  BY Bounds DEF TypeOK, None
<1>3. CASE wall < Top
  <2>1. wall' = wall + 1 /\ firings' = 0
    BY <1>1, <1>3 DEF Tick, Min
  <2>2. QED
    BY <1>1, <1>2, <2>1 DEF ServeInv, StampsBehind, Unfired, Fired, Served
<1>4. CASE ~(wall < Top)
  <2>1. wall' = wall /\ firings' = firings /\ whole' = whole
    BY <1>1, <1>4 DEF Tick, Min
  <2>2. active' = active /\ timeSet' = timeSet
    BY DEF Tick, cfgVars
  <2>3. QED
    BY <1>1, <2>1, <2>2 DEF ServeInv, StampsBehind, Unfired, Fired, Served
<1>5. QED
  BY <1>3, <1>4

\* Every step keeps it.
LEMMA ServeStep ==
    ASSUME TypeOK, TypeOK', ServeInv, [Next]_vars
    PROVE  ServeInv'
<1>1. wall' \in Nat
  BY Bounds DEF TypeOK
<1>2. CASE /\ UNCHANGED <<rtcVars, schedVars, active>>
           /\ "sched" \in looked' <=> "sched" \in looked
  BY <1>2 DEF rtcVars, schedVars, ServeInv, StampsBehind, Unfired, Fired, Served
<1>3. ASSUME NEW t \in Times, SetTime(t) PROVE ServeInv'
  BY <1>1, <1>3, FreshServe DEF SetTime
<1>4. ASSUME NEW w, NEW m, Boot(w, m) PROVE ServeInv'
  BY <1>1, <1>4, FreshServe DEF Boot
<1>5. CASE SchedUpdate
  BY <1>5, SchedUpdateServe
<1>6. CASE Tick
  BY <1>6, TickServe
<1>7. CASE NtpUpdate
  <2>1. CASE NtpAnswered
    BY <1>3, <2>1 DEF NtpAnswered
  <2>2. CASE ~NtpAnswered
    BY <1>2, <1>7, <2>2
       DEF NtpUpdate, NtpIdle, NtpFailed, NtpQuiet, NtpLaunch, cfgVars
  <2>3. QED
    BY <2>1, <2>2
<1>8. ASSUME NEW c \in Configs, Save(c) PROVE ServeInv'
  <2>1. UNCHANGED <<rtcVars, fired, looked>> /\ active' = c
    BY <1>8 DEF Save
  <2>2. CASE whole'
    <3>1. whole /\ Schedule(c) = Schedule(active) /\ firings' = firings
      BY <1>8, <2>2 DEF Save
    <3>2. /\ Named(active', wall) = Named(active, wall)
          /\ DueAt(active', wall) = DueAt(active, wall)
      BY <2>1, <3>1, SameSchedule
    <3>3. QED
      BY <2>1, <2>2, <3>1, <3>2
         DEF rtcVars, ServeInv, StampsBehind, Unfired, Fired, Served
  <2>3. CASE ~whole'
    BY <2>1, <2>3 DEF rtcVars, ServeInv, StampsBehind, Unfired, Fired, Served
  <2>4. QED
    BY <2>2, <2>3
<1>9. CASE Console
  BY <1>2, <1>3, <1>8, <1>9 DEF Console, ConsoleQuiet, Time, cfgVars
<1>10. CASE NetUpdate
  BY <1>2, <1>10 DEF NetUpdate, cfgVars
<1>11. CASE Unplug \/ Plug \/ \E f \in Fates \ {NoQuery, "asked"} : Fate(f)
  BY <1>2, <1>11 DEF Unplug, Plug, Fate, cfgVars
<1>12. CASE Reset \/ NewFirmware \/ PowerCut \/ BrownOut
  BY <1>4, <1>12 DEF Reset, NewFirmware, PowerCut, BrownOut
<1>13. CASE UNCHANGED vars
  BY <1>2, <1>13 DEF vars, rtcVars, schedVars
<1>14. QED
  BY <1>5, <1>6, <1>7, <1>9, <1>10, <1>11, <1>12, <1>13 DEF Next, World

\* A minute nobody disturbs is served exactly once if the schedule names it
\* and the clock is set, and not at all otherwise.
THEOREM MinuteServedOnce == Spec => []ServedOnce
<1>1. Init => ServeInv
  BY DEF Init, ServeInv, StampsBehind, Unfired, Fired, Served, NoFirings, None
<1>2. TypeOK /\ TypeOK' /\ ServeInv /\ [Next]_vars => ServeInv'
  BY ServeStep
<1>3. TypeOK /\ ServeInv => ServedOnce
  BY DEF ServeInv, Fired, Served, ServedOnce
<1>4. QED
  BY <1>1, <1>2, <1>3, ClockTypeCorrect, PTL DEF Spec

(***************************************************************************)
(* The socket.                                                             *)
(***************************************************************************)

\* ntp_update() holds one of lwIP's sockets exactly while a query is out, and
\* returns with one only while there are a link and a server to ask.
THEOREM SocketsAreReturned == Spec => []SocketOnlyForQuery
<1>1. Init => SocketOnlyForQuery
  BY DEF Init, SocketOnlyForQuery
<1>2. SocketOnlyForQuery /\ [Next]_vars => SocketOnlyForQuery'
  <2> SUFFICES ASSUME SocketOnlyForQuery, [Next]_vars PROVE SocketOnlyForQuery'
    OBVIOUS
  <2>1. CASE UNCHANGED <<socket, waiting>> /\ at' # "sched"
    BY <2>1 DEF SocketOnlyForQuery
  <2>2. CASE UNCHANGED <<at, socket, waiting, active, net>>
    BY <2>2 DEF SocketOnlyForQuery
  <2>3. CASE NtpUpdate
    BY <2>3 DEF NtpUpdate, NtpIdle, NtpAnswered, NtpFailed, NtpQuiet, NtpLaunch,
                CloseQuery, FailQuery, ntpVars, cfgVars, linkVars, SocketOnlyForQuery
  <2>4. ASSUME NEW w, NEW m, Boot(w, m) PROVE SocketOnlyForQuery'
    BY <2>4 DEF Boot, SocketOnlyForQuery
  <2>5. CASE Reset \/ NewFirmware \/ PowerCut \/ BrownOut
    BY <2>4, <2>5 DEF Reset, NewFirmware, PowerCut, BrownOut
  <2>6. CASE Console \/ NetUpdate \/ SchedUpdate
    BY <2>1, <2>6 DEF Console, ConsoleQuiet, Time, Save, NetUpdate, SchedUpdate, ntpVars
  <2>7. CASE World
    BY <2>2, <2>7 DEF World, Tick, Unplug, Plug, Fate, ntpVars, cfgVars, linkVars
  <2>8. CASE UNCHANGED vars
    BY <2>2, <2>8 DEF vars
  <2>9. QED
    BY <2>3, <2>5, <2>6, <2>7, <2>8 DEF Next
<1>3. QED
  BY <1>1, <1>2, PTL DEF Spec
=============================================================================
