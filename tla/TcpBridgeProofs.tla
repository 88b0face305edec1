-------------------------- MODULE TcpBridgeProofs --------------------------
(***************************************************************************)
(* What is promised of the settings holds for every set of configurations  *)
(* and every number of boots and faults; the gateway on the network adds   *)
(* nothing that the settings alone could not do; and the listener and the  *)
(* tunnel are as promised for every number of slots and clients.           *)
(*                                                                         *)
(* SafeModeEarned is about the boots so far, the code knows only its       *)
(* counter: what the steps preserve is that the counter never runs ahead   *)
(* of the boots that failed.                                               *)
(***************************************************************************)
EXTENDS TcpBridge, TLAPS

\* The types the arguments rest on
SettingsTypes ==
    /\ active \in Cfgs /\ staged \in Cfgs
    /\ stored \in Cfgs \cup {None, Corrupt}
    /\ boots \in 0..CountMax /\ brief \in 0..SafeBoots

\* What a boot starts from
FreshAtBoot ==
    phase = "off" =>
        /\ active = Default /\ staged = Default /\ source = "defaults"
        /\ session = "none" /\ ~reboot /\ ~safe /\ ~healthy

\* The counter against the boots that did not last, the one running included
\* until it is marked healthy
CountsFailures ==
    /\ phase = "off" => boots <= brief \/ brief = SafeBoots
    /\ phase # "off" /\ ~healthy => boots <= brief + 1 \/ brief = SafeBoots
    /\ healthy => boots = 0

SettingsInv ==
    /\ SettingsTypes
    /\ SettingsSound
    /\ FreshAtBoot
    /\ CountsFailures

USE DEF Armed, Holds

-----------------------------------------------------------------------------
(* The settings on their own.                                              *)

\* The assumption, piece by piece
LEMMA Constants ==
    /\ Fits \subseteq Cfgs /\ Default \in Fits /\ Default \in Cfgs
    /\ None \notin Cfgs /\ Corrupt \notin Cfgs
    /\ SafeBoots \in Nat /\ CountMax \in Nat /\ MaxFaults \in Nat
    /\ 0 < SafeBoots /\ SafeBoots <= CountMax
  BY SettingsAssumption DEF SettingsAssumption

LEMMA InitSettingsInv == SettingsInit => SettingsInv
  <1> SUFFICES ASSUME SettingsInit PROVE SettingsInv
    OBVIOUS
  <1>1. SettingsTypes
    BY Constants DEF SettingsInit, SettingsTypes
  <1>2. SettingsSound
    BY Constants DEF SettingsInit, SettingsSound
  <1>3. FreshAtBoot /\ CountsFailures
    BY Constants DEF SettingsInit, FreshAtBoot, CountsFailures
  <1>4. QED
    BY <1>1, <1>2, <1>3 DEF SettingsInv

LEMMA LostKeepsInv ==
    ASSUME SettingsInv, Lost, stored' = stored, boots' \in {boots, 0},
           phase # "off"
    PROVE  SettingsInv'
  <1>1. SettingsTypes'
    BY Constants DEF SettingsInv, SettingsTypes, Lost
  <1>2. SettingsSound' /\ FreshAtBoot'
    BY Constants DEF SettingsInv, SettingsSound, FreshAtBoot, Lost
  <1>3. CountsFailures'
    BY Constants DEF SettingsInv, SettingsTypes, CountsFailures, Lost
  <1>4. QED
    BY <1>1, <1>2, <1>3 DEF SettingsInv

LEMMA CommandKeepsInv == ASSUME SettingsInv, Command PROVE SettingsInv'
  <1>1. SettingsTypes'
    BY Constants
    DEF SettingsInv, SettingsTypes, Command, Hello, Disarm, Discard, Set, LoadDefaults,
        AskReboot, board
  <1>2. SettingsSound'
    BY Constants
    DEF SettingsInv, SettingsSound, Command, Hello, Disarm, Discard, Set, LoadDefaults,
        AskReboot, board
  <1>3. FreshAtBoot' /\ CountsFailures'
    BY DEF SettingsInv, FreshAtBoot, CountsFailures, Command, board
  <1>4. QED
    BY <1>1, <1>2, <1>3 DEF SettingsInv

LEMMA SaveKeepsInv ==
    ASSUME SettingsInv, NEW works \in BOOLEAN, Save(works) PROVE SettingsInv'
  <1>1. SettingsTypes'
    BY Constants
    DEF SettingsInv, SettingsTypes, Save, Commit, Commits, board
  <1>2. SettingsSound'
    BY Constants
    DEF SettingsInv, SettingsTypes, SettingsSound, Save, Commit, Commits, board
  <1>3. FreshAtBoot' /\ CountsFailures'
    BY DEF SettingsInv, FreshAtBoot, CountsFailures, Save, board
  <1>4. QED
    BY <1>1, <1>2, <1>3 DEF SettingsInv

LEMMA BootKeepsInv ==
    ASSUME SettingsInv, NEW hold \in Holds, NEW works \in BOOLEAN, Boot(hold, works)
    PROVE  SettingsInv'
  <1>1. source' = "stored" => /\ stored' = stored /\ stored \in Fits
                              /\ active' = stored
    BY Constants
    DEF SettingsInv, SettingsTypes, SettingsSound, Boot, Loads, ForceDefaults
  <1>2. active' \in Fits /\ staged' = active'
    BY <1>1, Constants DEF Boot
  <1>3. SettingsTypes'
    BY <1>2, Constants
    DEF SettingsInv, SettingsTypes, Boot, Count, SafeMode
  <1>4. SettingsSound'
    BY <1>1, <1>2, Constants DEF SettingsInv, SettingsSound, Boot
  <1>5. FreshAtBoot' /\ CountsFailures'
    BY Constants
    DEF SettingsInv, SettingsTypes, FreshAtBoot, CountsFailures, Boot, Count
  <1>6. QED
    BY <1>3, <1>4, <1>5 DEF SettingsInv

LEMMA SettingsStep == SettingsInv /\ [SettingsNext]_settings => SettingsInv'
  <1> SUFFICES ASSUME SettingsInv, [SettingsNext]_settings
               PROVE  SettingsInv'
    OBVIOUS
  <1>1. CASE Command
    BY <1>1, CommandKeepsInv
  <1>2. CASE \E works \in BOOLEAN : Save(works)
    BY <1>2, SaveKeepsInv
  <1>3. CASE Lapse
    BY <1>3 DEF Lapse, board, SettingsInv, SettingsTypes, SettingsSound, FreshAtBoot,
                CountsFailures
  <1>4. CASE Expire
    BY <1>4 DEF Expire, Disarm, Discard, board, SettingsInv, SettingsTypes, SettingsSound,
                FreshAtBoot, CountsFailures
  <1>5. CASE Rebooted \/ Watchdog
    BY <1>5, LostKeepsInv DEF Rebooted, Watchdog, kept, SettingsInv, SettingsTypes
  <1>6. CASE Reset
    BY <1>6, LostKeepsInv, Constants
    DEF Reset, kept, SettingsInv, SettingsTypes
  <1>7. CASE PowerCut
    <2>1. CASE phase = "off"
      BY <1>7, <2>1, Constants
      DEF PowerCut, ram, SettingsInv, SettingsTypes, SettingsSound, FreshAtBoot,
          CountsFailures
    <2>2. CASE phase # "off"
      BY <1>7, <2>2, LostKeepsInv, Constants
      DEF PowerCut, SettingsInv, SettingsTypes
    <2>3. QED
      BY <2>1, <2>2
  <1>8. CASE Spoil
    BY <1>8, Constants
    DEF Spoil, ram, SettingsInv, SettingsTypes, SettingsSound, FreshAtBoot, CountsFailures
  <1>9. CASE \E hold \in Holds, works \in BOOLEAN : Boot(hold, works)
    BY <1>9, BootKeepsInv
  <1>10. CASE MarkHealthy
    BY <1>10, Constants
    DEF MarkHealthy, SettingsInv, SettingsTypes, SettingsSound, FreshAtBoot, CountsFailures
  <1>11. CASE UNCHANGED settings
    BY <1>11
    DEF settings, ram, kept, SettingsInv, SettingsTypes, SettingsSound, FreshAtBoot,
        CountsFailures
  <1>12. QED
    BY <1>1, <1>2, <1>3, <1>4, <1>5, <1>6, <1>7, <1>8, <1>9, <1>10, <1>11 DEF SettingsNext

\* Whatever the order of commands, expiries, failing SAVEs, resets and boots:
\* the gateway runs on what was validated and reports what is on the flash
\* (gw_config.cpp, gw_console.cpp).
THEOREM SettingsAreSound == SettingsSpec => []SettingsSound
  <1>1. SettingsInv => SettingsSound
    BY DEF SettingsInv
  <1>2. QED
    BY <1>1, InitSettingsInv, SettingsStep, PTL DEF SettingsSpec

LEMMA SafeModeStep ==
    ASSUME SettingsInv, [SettingsNext]_settings, ~safe, safe'
    PROVE  brief = SafeBoots
  <1>1. PICK hold \in Holds, works \in BOOLEAN : Boot(hold, works)
    BY DEF SettingsNext, Command, Save, board, Lapse, Expire, Rebooted, Watchdog, Reset,
           PowerCut, Lost, Spoil, MarkHealthy, settings, ram
  <1>2. phase = "off" /\ boots >= SafeBoots
    BY <1>1 DEF Boot, SafeMode
  <1>3. QED
    BY <1>2, Constants DEF SettingsInv, SettingsTypes, CountsFailures

\* No order of resets, power cuts and boots sends the gateway into safe mode
\* before three boots in a row have failed (gw_status.cpp, main.cpp).
THEOREM SafeModeIsEarned == SettingsSpec => SafeModeEarned
  <1>1. SettingsInv /\ [SettingsNext]_settings
            => [~safe /\ safe' => brief = SafeBoots]_settings
    BY SafeModeStep
  <1>2. QED
    BY <1>1, InitSettingsInv, SettingsStep, PTL DEF SettingsSpec, SafeModeEarned

-----------------------------------------------------------------------------
(* The settings behind the network.                                        *)

LEMMA NextIsSettingsNext == [Next]_vars => [SettingsNext]_settings
  <1>1. ASSUME NEW s \in Slots, Exec(s) PROVE [SettingsNext]_settings
    BY <1>1 DEF Exec, SettingsNext
  <1>2. UsbCommand \/ UsbSave \/ Timing \/ GoDown \/ Dies => SettingsNext
    BY DEF UsbCommand, UsbSave, Timing, GoDown, Dies, SettingsNext
  <1>3. ASSUME NEW hold \in Holds, GwBoot(hold) PROVE SettingsNext
    BY <1>3 DEF GwBoot, SettingsNext
  <1>4. LinkFound \/ LinkLost \/ (\E c \in Conns : Accept(c) \/ Connect(c) \/ Leave(c))
            \/ (\E s \in Slots : Notice(s)) => UNCHANGED settings
    BY DEF LinkFound, LinkLost, Accept, Connect, Leave, Notice
  <1>5. UNCHANGED vars => UNCHANGED settings
    BY DEF vars
  <1>6. QED
    BY <1>1, <1>2, <1>3, <1>4, <1>5 DEF Next

\* The gateway on the network, tunnel and all, does to the settings only what
\* the console and the boots of module Settings do.
THEOREM BridgeImplementsSettings == Spec => SettingsSpec
  <1>1. Init => SettingsInit
    BY DEF Init
  <1>2. QED
    BY <1>1, NextIsSettingsNext, PTL DEF Spec, SettingsSpec

\* So what is promised of the settings is kept with any number of clients.
THEOREM BridgeKeepsSettings == Spec => []SettingsSound /\ SafeModeEarned
  BY BridgeImplementsSettings, SettingsAreSound, SafeModeIsEarned, PTL

-----------------------------------------------------------------------------
(* The listener and the clients.                                           *)

ClientTypes ==
    /\ slot \in [Slots -> Conns \cup {None}]
    /\ peer \in [Conns -> {"none", "on", "left"}]
    /\ waiting \subseteq Conns /\ asked \subseteq Served

\* The two halves of NetFollowsSettings
Listens ==
    /\ listen # None <=> net = "up"
    /\ net = "up" => listen = PortOf[active] /\ port = listen /\ ~safe
Seated ==
    /\ \A c \in Conns : peer[c] # "none" <=> c \in waiting \cup Served
    /\ \A c \in waiting \cup Served : via[c] = listen
    /\ waiting \cap Served = {}
    /\ \A s, t \in Slots : slot[s] = slot[t] /\ slot[s] # None => s = t

\* The network belongs to a running board, and not to one in safe mode.
NetOfRunningBoard ==
    /\ phase # "up" => net = "disabled"
    /\ net \in {"nolink", "up"} => ~safe

ClientInv == ClientTypes /\ Seated /\ PagesAreOwn
BridgeInv == SettingsInv /\ Listens /\ NetOfRunningBoard /\ ClientInv

LEMMA NoneIsNoConn == None \notin Conns /\ \A c \in Cfgs : PortOf[c] # None
  BY BridgeAssumption DEF BridgeAssumption

LEMMA StopAllSeats == ASSUME ClientTypes, StopAll PROVE ClientInv'
  <1>1. Served' = {}
    BY DEF Served, StopAll, Empty
  <1>2. ClientTypes'
    <2>1. asked' = {}
      BY DEF ClientTypes, Served, StopAll, Ended
    <2>2. slot' \in [Slots -> Conns \cup {None}] /\ waiting' = {}
      BY DEF StopAll, Empty
    <2>3. peer' \in [Conns -> {"none", "on", "left"}]
      BY DEF StopAll, Ended
    <2>4. QED
      BY <2>1, <2>2, <2>3 DEF ClientTypes
  <1>3. Seated'
    <2>1. \A c \in Conns : peer'[c] = "none"
      BY DEF StopAll, Ended
    <2>2. \A s \in Slots : slot'[s] = None
      BY DEF StopAll, Empty
    <2>3. waiting' = {}
      BY DEF StopAll
    <2>4. QED
      BY <1>1, <2>1, <2>2, <2>3 DEF Seated
  <1>4. PagesAreOwn'
    BY NoneIsNoConn DEF PagesAreOwn, ClientTypes, Served, StopAll, Empty, Ended
  <1>5. QED
    BY <1>2, <1>3, <1>4 DEF ClientInv

LEMMA SameClients ==
    ASSUME ClientInv, UNCHANGED <<clients, listen, owner>>
    PROVE  ClientInv'
  BY DEF ClientInv, ClientTypes, Seated, Served, PagesAreOwn, MayRead, clients
LEMMA AcceptSeats == ASSUME NEW c \in Conns, ClientInv, Accept(c) PROVE ClientInv'
  <1>1. CASE Free = {} /\ Ended({c}) /\ UNCHANGED slot
    <2>1. ClientTypes' /\ Seated'
      BY <1>1 DEF Accept, Ended, ClientInv, ClientTypes, Seated, Served
    <2>2. PagesAreOwn'
      BY <1>1 DEF Accept, Ended, ClientInv, ClientTypes, Seated, Served, PagesAreOwn, MayRead
    <2>3. QED
      BY <2>1, <2>2 DEF ClientInv
  <1>2. ASSUME NEW s \in Free, slot' = [slot EXCEPT ![s] = c],
               UNCHANGED <<peer, via, asked, outOf>>
        PROVE  ClientInv'
    <2>1. s \in Slots /\ slot[s] = None /\ c \in waiting /\ c \notin Served /\ c # None
      BY NoneIsNoConn DEF Free, Accept, ClientInv, Seated
    <2>2. Served' = Served \cup {c} /\ waiting' = waiting \ {c}
      BY <1>2, <2>1 DEF Served, ClientInv, ClientTypes, Accept
    <2>3. ClientTypes'
      BY <1>2, <2>1, <2>2 DEF ClientInv, ClientTypes
    <2>4. \A t, u \in Slots : slot'[t] = slot'[u] /\ slot'[t] # None => t = u
      BY <1>2, <2>1 DEF ClientInv, ClientTypes, Seated, Served
    <2>5. Seated'
      BY <1>2, <2>1, <2>2, <2>4 DEF ClientInv, Seated, Accept
    <2>6. c \notin asked /\ owner' = owner
      BY <2>1 DEF ClientInv, ClientTypes, Accept
    <2>7. PagesAreOwn'
      BY <1>2, <2>1, <2>6 DEF ClientInv, ClientTypes, PagesAreOwn, MayRead
    <2>8. QED
      BY <2>3, <2>5, <2>7 DEF ClientInv
  <1>3. QED
    BY <1>1, <1>2 DEF Accept

LEMMA NoticeSeats == ASSUME NEW s \in Slots, ClientInv, Notice(s) PROVE ClientInv'
  <1>1. slot[s] \in Conns /\ slot[s] \in Served /\ slot[s] \notin waiting
    BY DEF Notice, ClientInv, ClientTypes, Seated, Served
  <1>2. slot' = [slot EXCEPT ![s] = None] /\ waiting' = waiting /\ listen' = listen
    BY DEF Notice
  <1>3. Served' = Served \ {slot[s]}
    BY <1>1, <1>2 DEF Served, ClientInv, ClientTypes, Seated
  <1>4. ClientTypes'
    BY <1>1, <1>2, <1>3 DEF Notice, Ended, ClientInv, ClientTypes
  <1>5. \A t, u \in Slots : slot'[t] = slot'[u] /\ slot'[t] # None => t = u
    BY <1>2 DEF ClientInv, ClientTypes, Seated
  <1>6. \A c \in Conns : peer'[c] = IF c = slot[s] THEN "none" ELSE peer[c]
    BY DEF Notice, Ended
  <1>7. \A c \in Conns \ {slot[s]} : via'[c] = via[c]
    BY DEF Notice, Ended
  <1>8. waiting \cup Served \subseteq Conns
    BY DEF ClientInv, ClientTypes, Served
  <1>9. Seated'
    BY <1>1, <1>2, <1>3, <1>5, <1>6, <1>7, <1>8 DEF ClientInv, Seated
  <1>10. PagesAreOwn'
    <2>1. ASSUME NEW t \in Slots, slot'[t] \in asked', owner' = t
          PROVE  outOf' = slot'[t]
      <3>1. t # s /\ slot'[t] = slot[t] /\ slot[t] # None
        BY <2>1, <1>2, <1>4, NoneIsNoConn DEF ClientInv, ClientTypes, Served
      <3>2. slot[t] # slot[s]
        BY <3>1 DEF ClientInv, Seated
      <3>3. slot[t] \in asked /\ owner = t
        BY <2>1, <3>1 DEF Notice, Ended
      <3>4. outOf = slot[t]
        BY <3>3 DEF ClientInv, PagesAreOwn, MayRead
      <3>5. QED
        BY <3>1, <3>2, <3>4 DEF Notice, Ended
    <2>2. QED
      BY <2>1 DEF PagesAreOwn, MayRead
  <1>11. QED
    BY <1>4, <1>9, <1>10 DEF ClientInv

LEMMA AnsweredSeats ==
    ASSUME NEW s \in Slots, ClientInv, slot[s] # None, Answered(slot[s]), owner' = s
    PROVE  ClientInv'
  <1>1. ClientTypes' /\ Seated'
    BY DEF Answered, ClientInv, ClientTypes, Seated, Served
  <1>2. PagesAreOwn'
    BY DEF Answered, PagesAreOwn, MayRead
  <1>3. QED
    BY <1>1, <1>2 DEF ClientInv

LEMMA ConnectSeats == ASSUME NEW c \in Conns, ClientInv, Connect(c) PROVE ClientInv'
  <1>1. ClientTypes'
    BY DEF Connect, ClientInv, ClientTypes, Served
  <1>2. c \notin waiting \cup Served /\ waiting' = waiting \cup {c}
    BY DEF Connect, ClientInv, Seated
  <1>3. Served' = Served /\ slot' = slot /\ listen' = listen
    BY DEF Connect, Served
  <1>4. \A d \in Conns : peer'[d] = IF d = c THEN "on" ELSE peer[d]
    BY DEF Connect, ClientInv, ClientTypes
  <1>5. \A d \in Conns : via'[d] = IF d = c THEN listen ELSE via[d]
    BY DEF Connect
  <1>6. waiting \cup Served \subseteq Conns
    BY DEF ClientInv, ClientTypes, Served
  <1>7. Seated'
    <2>1. \A d \in Conns : peer'[d] # "none" <=> d \in waiting' \cup Served'
      BY <1>2, <1>3, <1>4 DEF ClientInv, Seated
    <2>2. \A d \in waiting' \cup Served' : via'[d] = listen'
      BY <1>2, <1>3, <1>5, <1>6 DEF ClientInv, Seated
    <2>3. QED
      BY <2>1, <2>2, <1>2, <1>3 DEF ClientInv, Seated
  <1>8. PagesAreOwn'
    BY DEF Connect, ClientInv, PagesAreOwn, MayRead
  <1>9. QED
    BY <1>1, <1>7, <1>8 DEF ClientInv

LEMMA LeaveSeats == ASSUME NEW c \in Conns, ClientInv, Leave(c) PROVE ClientInv'
  <1>1. ClientTypes' /\ PagesAreOwn'
    BY DEF Leave, ClientInv, ClientTypes, Served, PagesAreOwn, MayRead
  <1>2. Seated'
    BY DEF Leave, ClientInv, ClientTypes, Seated, Served
  <1>3. QED
    BY <1>1, <1>2 DEF ClientInv
\* What the console does between two SAVEs, and what time does, touches
\* neither the configuration in effect nor safe mode.
Quiet == UNCHANGED <<phase, active, safe>>

LEMMA QuietSettings == Command \/ Lapse \/ Expire \/ MarkHealthy \/ Spoil => Quiet
  BY DEF Quiet, Command, Hello, Disarm, Discard, Set, LoadDefaults, AskReboot, board,
         Lapse, Expire, MarkHealthy, Spoil, ram

LEMMA SaveTakesEffect ==
    ASSUME NEW works \in BOOLEAN, Save(works)
    PROVE  /\ phase = "up" /\ phase' = "up" /\ safe' = safe
           /\ active' = IF Commits(works) THEN staged ELSE active
  BY DEF Save, Commit, board

\* The part of the invariant that is not about clients or settings
Network == Listens /\ NetOfRunningBoard

LEMMA QuietNetwork ==
    ASSUME Network, Quiet, UNCHANGED <<net, port, listen>>
    PROVE  Network'
  BY DEF Network, Listens, NetOfRunningBoard, Quiet

LEMMA DownNetwork ==
    ASSUME NetLost, phase' = "off"
    PROVE  Network'
  BY DEF Network, Listens, NetOfRunningBoard, NetLost

LEMMA StartedNetwork ==
    ASSUME NEW cfg \in Cfgs, StartServer(cfg), net' = "up", active' = cfg,
           phase' = "up", ~safe'
    PROVE  Network'
  BY NoneIsNoConn DEF Network, Listens, NetOfRunningBoard, StartServer

LEMMA BridgeStep == BridgeInv /\ [Next]_vars => BridgeInv'
  <1> SUFFICES ASSUME BridgeInv, [Next]_vars
               PROVE  BridgeInv'
    OBVIOUS
  <1> USE DEF BridgeInv
  <1>1. SettingsInv'
    BY NextIsSettingsNext, SettingsStep
  <1>2. Network /\ active \in Cfgs /\ staged \in Cfgs
    BY DEF Network, SettingsInv, SettingsTypes
  <1> SUFFICES Network' /\ ClientInv'
    BY <1>1 DEF Network
  <1>3. CASE LinkFound
    <2>1. StartServer(active) /\ net' = "up" /\ Quiet /\ phase = "up" /\ net = "nolink"
      BY <1>3 DEF LinkFound, Quiet, settings, ram
    <2>2. Network'
      BY <2>1, <1>2, StartedNetwork DEF Quiet, NetOfRunningBoard
    <2>3. ClientInv'
      BY <2>1, StopAllSeats DEF StartServer, ClientInv
    <2>4. QED
      BY <2>2, <2>3
  <1>4. CASE LinkLost
    <2>1. Network'
      BY <1>4 DEF LinkLost, Network, Listens, NetOfRunningBoard, settings, ram
    <2>2. ClientInv'
      BY <1>4, StopAllSeats DEF LinkLost, ClientInv
    <2>3. QED
      BY <2>1, <2>2
  <1>5. CASE \E c \in Conns : Accept(c) \/ Connect(c) \/ Leave(c)
    <2>1. ClientInv'
      BY <1>5, AcceptSeats, ConnectSeats, LeaveSeats
    <2>2. Quiet /\ UNCHANGED <<net, port, listen>>
      BY <1>5 DEF Accept, Connect, Leave, Quiet, settings, ram
    <2>3. QED
      BY <2>1, <2>2, <1>2, QuietNetwork
  <1>6. CASE \E s \in Slots : Notice(s)
    <2>1. ClientInv'
      BY <1>6, NoticeSeats
    <2>2. Quiet /\ UNCHANGED <<net, port, listen>>
      BY <1>6 DEF Notice, Quiet, settings, ram
    <2>3. QED
      BY <2>1, <2>2, <1>2, QuietNetwork
  <1>7. ASSUME NEW s \in Slots, Exec(s) PROVE Network' /\ ClientInv'
    <2>1. owner' = s /\ net' = net /\ net = "up" /\ slot[s] # None
      BY <1>7 DEF Exec
    <2>2. CASE (Command \/ UNCHANGED settings) /\ Answered(slot[s])
      <3>1. ClientInv'
        BY <2>1, <2>2, AnsweredSeats
      <3>2. Quiet /\ UNCHANGED <<net, port, listen>>
        BY <2>1, <2>2, QuietSettings DEF Answered, Quiet, settings, ram
      <3>3. QED
        BY <3>1, <3>2, <1>2, QuietNetwork
    <2>3. ASSUME NEW works \in BOOLEAN, Save(works), Commits(works), PortOf[staged] # port,
                 StartServer(staged)
          PROVE  Network' /\ ClientInv'
      <3>1. Network'
        BY <2>1, <2>3, <1>2, SaveTakesEffect, StartedNetwork DEF NetOfRunningBoard
      <3>2. ClientInv'
        BY <2>3, StopAllSeats DEF StartServer, ClientInv
      <3>3. QED
        BY <3>1, <3>2
    <2>4. ASSUME NEW works \in BOOLEAN, Save(works),
                 ~(Commits(works) /\ PortOf[staged] # port), Answered(slot[s])
          PROVE  Network' /\ ClientInv'
      <3>1. ClientInv'
        BY <2>1, <2>4, AnsweredSeats
      <3>2. Network'
        BY <2>1, <2>4, <1>2, SaveTakesEffect
        DEF Network, Listens, NetOfRunningBoard, Answered
      <3>3. QED
        BY <3>1, <3>2
    <2>5. QED
      BY <1>7, <2>2, <2>3, <2>4 DEF Exec
  <1>8. CASE UsbCommand \/ Timing \/ Dies \/ UNCHANGED vars
    <2>1. Quiet /\ UNCHANGED tcp
      BY <1>8, QuietSettings DEF UsbCommand, Timing, Dies, vars, Quiet, settings, ram
    <2>2. QED
      BY <2>1, <1>2, QuietNetwork, SameClients DEF tcp, clients
  <1>9. CASE UsbSave
    <2>1. PICK works \in BOOLEAN :
              /\ Save(works)
              /\ IF Commits(works) THEN ApplyPort(staged)
                 ELSE UNCHANGED <<port, listen, clients>>
      BY <1>9 DEF UsbSave
    <2>2. net' = net /\ owner' = owner
      BY <1>9 DEF UsbSave
    <2>3. CASE Commits(works) /\ net = "up" /\ PortOf[staged] # port
      <3>1. StartServer(staged)
        BY <2>1, <2>3 DEF ApplyPort
      <3>2. Network'
        BY <3>1, <2>1, <2>2, <2>3, <1>2, SaveTakesEffect, StartedNetwork
        DEF NetOfRunningBoard
      <3>3. ClientInv'
        BY <3>1, StopAllSeats DEF StartServer, ClientInv
      <3>4. QED
        BY <3>2, <3>3
    <2>4. CASE ~(Commits(works) /\ net = "up" /\ PortOf[staged] # port)
      <3>1. UNCHANGED <<port, listen, clients>>
        BY <2>1, <2>4 DEF ApplyPort
      <3>2. Network'
        BY <3>1, <2>1, <2>2, <2>4, <1>2, SaveTakesEffect
        DEF Network, Listens, NetOfRunningBoard
      <3>3. QED
        BY <3>1, <3>2, <2>2, SameClients
    <2>5. QED
      BY <2>3, <2>4
  <1>10. CASE GoDown
    <2>1. NetLost
      BY <1>10 DEF GoDown
    <2>2. phase' = "off"
      BY <1>10 DEF GoDown, Rebooted, Watchdog, Reset, PowerCut, Lost
    <2>3. QED
      BY <2>1, <2>2, DownNetwork, StopAllSeats DEF NetLost, ClientInv
  <1>11. ASSUME NEW hold \in Holds, GwBoot(hold) PROVE Network' /\ ClientInv'
    <2>1. PICK works, found \in BOOLEAN :
              /\ Boot(hold, works)
              /\ IF phase' = "up" THEN NetBegin(active', safe', found)
                 ELSE UNCHANGED <<net, port, listen, clients>>
      BY <1>11 DEF GwBoot
    <2>2. net = "disabled" /\ listen = None /\ owner' = owner
      BY <1>11, <2>1 DEF GwBoot, Boot, NetOfRunningBoard, Listens
    <2>3. active' \in Cfgs
      BY <1>1 DEF SettingsInv, SettingsTypes
    <2>4. CASE phase' = "up" /\ ~safe' /\ active' \in NetOn /\ found
      <3>1. StartServer(active') /\ net' = "up"
        BY <2>1, <2>4 DEF NetBegin
      <3>2. Network'
        BY <3>1, <2>3, <2>4, StartedNetwork
      <3>3. ClientInv'
        BY <3>1, StopAllSeats DEF StartServer, ClientInv
      <3>4. QED
        BY <3>2, <3>3
    <2>5. CASE ~(phase' = "up" /\ ~safe' /\ active' \in NetOn /\ found)
      <3>1. /\ UNCHANGED <<port, listen, clients>>
            /\ net' \in {"safe", "disabled", "nolink"}
            /\ net' = "nolink" => ~safe'
            /\ phase' # "up" => net' = "disabled"
        BY <2>1, <2>2, <2>5 DEF NetBegin
      <3>2. Network'
        BY <3>1, <2>2 DEF Network, Listens, NetOfRunningBoard
      <3>3. QED
        BY <3>1, <3>2, <2>2, SameClients
    <2>6. QED
      BY <2>4, <2>5
  <1>12. QED
    BY <1>3, <1>4, <1>5, <1>6, <1>7, <1>8, <1>9, <1>10, <1>11 DEF Next

LEMMA InitBridgeInv == Init => BridgeInv
  <1> SUFFICES ASSUME Init PROVE BridgeInv
    OBVIOUS
  <1>1. SettingsInv
    BY InitSettingsInv DEF Init
  <1>2. Listens /\ NetOfRunningBoard
    BY DEF Init, Listens, NetOfRunningBoard
  <1>3. Served = {} /\ waiting = {} /\ asked = {}
    BY DEF Init, Served, Empty
  <1>4. ClientTypes
    BY <1>3 DEF Init, ClientTypes, Empty
  <1>5. Seated /\ PagesAreOwn
    BY <1>3 DEF Init, Seated, PagesAreOwn, Empty
  <1>6. QED
    BY <1>1, <1>2, <1>4, <1>5 DEF BridgeInv, ClientInv

\* The listener never strays from the settings in effect, whatever SAVEs, link
\* changes, resets and clients come in whatever order (net_runtime.cpp,
\* tcp_bridge.cpp).
THEOREM NetFollows == Spec => []NetFollowsSettings
  <1>1. BridgeInv => NetFollowsSettings
    BY DEF BridgeInv, Listens, ClientInv, Seated, NetFollowsSettings
  <1>2. QED
    BY <1>1, InitBridgeInv, BridgeStep, PTL DEF Spec

\* However many clients share the one buffer of the tunnel, a client pages
\* through its own answer only (gw_remote.cpp, doConsoleExec, doConsoleRead).
THEOREM PagesStayOwn == Spec => []PagesAreOwn
  <1>1. BridgeInv => PagesAreOwn
    BY DEF BridgeInv, ClientInv
  <1>2. QED
    BY <1>1, InitBridgeInv, BridgeStep, PTL DEF Spec
=============================================================================
