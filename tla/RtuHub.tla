------------------------------- MODULE RtuHub -------------------------------
(***************************************************************************)
(* One Modbus RTU transaction at a time over an RS485 bus whose modules    *)
(* may sit behind a channel-switching hub (src/src/modbus_rtu.cpp).        *)
(*                                                                         *)
(* A transaction is a chain of steps, one per frame that goes out, because *)
(* that is where time passes and the wire decides; nothing else of the     *)
(* gateway runs meanwhile.  The hub and the modules are not part of the    *)
(* repository: they are modelled from what modbus_rtu.cpp says of them.    *)
(* A hub swallows the frame that makes it switch and whatever arrives      *)
(* before it has settled.  A module (libmodbus before 3.5.5) that hears a  *)
(* frame for another unit takes the next frame for that unit's reply and   *)
(* drops it; such a module is "deaf" here.                                 *)
(***************************************************************************)
EXTENDS Integers, FiniteSets

CONSTANTS
    Units,         \* slave ids in use
    Chan,          \* hubChannelOf(): channel of a unit, 0 = not behind the hub
    Dead,          \* units that never answer
    Garbles,       \* the unusable replies a unit may give
    HubConfigs,    \* the hub keys a SAVE can apply
    HubSettle,     \* how long the hub really stays deaf
    RetryBudget,   \* RTU_RETRY_BUDGET_MS
    T1,            \* rs485.t1_ms
    Window,        \* RTU_REPLY_WINDOW_MS
    Wire,          \* longest a frame and its reply are on the wire, t2 included
    Guard,         \* RTU_RESYNC_GUARD_MS
    IdleMax,       \* longest step of idle time
    Wrap,          \* modulus of millis()
    Horizon,       \* bound on the uptime followed
    MaxCalls       \* bound on the transactions followed

ASSUME RtuAssumption ==
    /\ Units # {}
    /\ Chan \in [Units -> Nat]
    /\ Dead \subseteq Units
    /\ Garbles \subseteq {"badcrc", "other"}
    /\ HubConfigs \subseteq [retry : Nat, settle : Nat, gap : Nat, budget : Nat]
    /\ HubSettle \in Nat /\ RetryBudget \in Nat
    /\ T1 \in Nat \ {0} /\ Window \in Nat \ {0} /\ Wire \in Nat
    /\ Guard \in Nat
    /\ IdleMax \in Nat \ {0}
    /\ Wrap \in Nat \ {0} /\ Horizon \in Nat \ {0} /\ MaxCalls \in Nat

VARIABLES
    up,        \* true uptime; the code sees up % Wrap
    hub,       \* _hubRetry, _hubSettleMs, _hubGapMs, _hubBudgetMs (0 = none)
    lastCh,    \* _hubLastCh
    readyAt,   \* _hubReadyAt
    alive,     \* _seenAlive
    healOn,    \* _healOn
    t,         \* the transaction in hand
    cnt,       \* the counters INFO prints
    bus,       \* the hub: channel it is on, and when that channel opens
    deaf       \* modules that will drop the next frame they hear

\* History: never read by an action.
VARIABLES
    calls,     \* transactions begun
    openBy,    \* _hubReadyAt as a true time
    swallowed  \* frames that met a settling hub: phase they were sent in, channel

vars == <<up, hub, lastCh, readyAt, alive, healOn, t, cnt, bus, deaf, calls,
          openBy, swallowed>>

Phases == {"idle", "trigger", "again", "held", "direct", "judge", "resync",
           "retry", "resync2", "report"}
Replies == {"none", "valid", "badcrc", "other"}
Counters == {"cross", "extra", "skip", "resync", "retryOk", "retryFail",
             "badCrc", "badOther", "ok", "timeout"}

Bump(c) == [cnt EXCEPT ![c] = @ + 1]
BumpIf(p, c, k) == [k EXCEPT ![c] = IF p THEN @ + 1 ELSE @]

-----------------------------------------------------------------------------
(* The wire.                                                               *)

\* Modules a frame sent at time s reaches; a frame for another channel than
\* the hub is on makes the hub switch and reaches nobody behind it.
Hearers(ch, s) ==
    {y \in Units : \/ Chan[y] = 0
                   \/ /\ Chan[y] = bus.ch /\ s >= bus.openAt
                      /\ ch \in {0, bus.ch}}

\* What unit u may come back with when it hears a request addressed to it
Answers(u) ==
    IF u \in Dead \/ u \in deaf THEN {"none"}
    ELSE {"none", "valid"} \cup Garbles

\* How long rtu_once() waits for the first byte once it has read the echo of
\* its own frame; without an echo (the trigger frame) it waits T1.
First == IF T1 < Window THEN T1 ELSE Window

\* A frame for channel ch (0 = none) leaves at time s.  Between transactions
\* ("idle") only a caller's own broadcast does.
Fed(ch, s) == IF s < bus.openAt
              THEN swallowed \cup {[phase |-> t.phase, ch |-> ch]}
              ELSE swallowed

\* A request to u leaves at time s and brings reply after d; silence takes
\* the whole first-byte time.
Exchange(u, s, first, reply, d) ==
    LET heard == Hearers(Chan[u], s)
        others == heard \ {u}
    IN  /\ reply \in IF u \in heard THEN Answers(u) ELSE {"none"}
        /\ d \in 1..(first + Wire)
        /\ reply = "none" => d >= first
        /\ up' = s + d
        /\ up' <= Horizon
        /\ bus' = IF Chan[u] \notin {0, bus.ch}
                  THEN [ch |-> Chan[u], openAt |-> s + HubSettle]
                  ELSE bus
        /\ deaf' = IF reply = "none" THEN (deaf \ heard) \cup (others \ deaf)
                   ELSE deaf \ {u}
        /\ swallowed' = Fed(Chan[u], s)

\* A broadcast for the modules of channel ch is held for no settle; it is
\* answered by nobody and leaves its hearers in phase.
BroadcastAt(ch, s) ==
    /\ deaf' = deaf \ Hearers(0, s)
    /\ swallowed' = Fed(ch, s)

-----------------------------------------------------------------------------
(* The settle clock.                                                       *)

Millis == up % Wrap

\* Seeded fault: the difference is not read as a signed number.
WaitUnsigned == (readyAt - Millis) % Wrap

\* (int32_t)(_hubReadyAt - millis()), 0 when negative
Wait == LET ahead == (readyAt - Millis) % Wrap
        IN  IF 2 * ahead < Wrap THEN ahead ELSE 0

\* Seeded fault: the time the transaction has already used is not counted.
FitsFromNow(began) == hub.budget = 0 \/ Wait + T1 <= hub.budget

\* hubHoldAndSend(): does the hold still fit the master's patience
Fits(began) ==
    hub.budget = 0 \/ ((Millis - began) % Wrap) + Wait + T1 <= hub.budget

-----------------------------------------------------------------------------
(* The transaction.                                                        *)

\* rtu_setHub(): at least one attempt
Applied(c) == [c EXCEPT !.retry = IF @ = 0 THEN 1 ELSE @]

Init ==
    /\ up = 1
    /\ \E c \in HubConfigs : hub = Applied(c)
    /\ lastCh = 0
    /\ readyAt = 1 % Wrap              \* rtu_setHub() from gwConfig_begin()
    /\ alive = {}
    /\ healOn = TRUE
    /\ t = [phase |-> "idle", unit |-> CHOOSE u \in Units : TRUE, heal |-> FALSE,
            began |-> 0, tries |-> 0, healable |-> FALSE, reply |-> "none",
            clean |-> FALSE, known |-> FALSE, stalled |-> FALSE]
    /\ cnt = [c \in Counters |-> 0]
    /\ bus \in [ch : {Chan[u] : u \in Units} \cup {0}, openAt : {0}]
    /\ deaf = {}
    /\ calls = 0
    /\ openBy = 1
    /\ swallowed = {}

Begin(u, heal, phase) ==
    t' = [phase |-> phase, unit |-> u, heal |-> heal, began |-> up, tries |-> 0,
          healable |-> FALSE, reply |-> "none", clean |-> phase = "direct",
          known |-> u \in alive, stalled |-> FALSE]

Crossed(u) == Chan[u] # 0 /\ Chan[u] # lastCh

TriggerReadyAt == (Millis + hub.settle + hub.gap) % Wrap

\* rtu_transact() entered; rtu_transact_core() picks its path
Request(u, heal) ==
    /\ t.phase = "idle"
    /\ calls < MaxCalls
    /\ calls' = calls + 1
    /\ lastCh' = IF Chan[u] = 0 THEN lastCh ELSE Chan[u]
    /\ \/ /\ Chan[u] = 0
          /\ Begin(u, heal, "direct")
          /\ UNCHANGED <<readyAt, cnt, openBy>>
       \/ /\ Crossed(u)
          /\ Begin(u, heal, "trigger")
          /\ readyAt' = TriggerReadyAt
          /\ openBy' = up + hub.settle + hub.gap
          /\ cnt' = Bump("cross")
       \/ /\ Chan[u] # 0 /\ ~Crossed(u)
          /\ Wait > 0
          /\ Begin(u, heal, IF Fits(up % Wrap) THEN "held" ELSE "judge")
          /\ cnt' = BumpIf(~Fits(up % Wrap), "skip", cnt)
          /\ UNCHANGED <<readyAt, openBy>>
       \/ /\ Chan[u] # 0 /\ ~Crossed(u)
          /\ Wait = 0
          /\ Begin(u, heal, "direct")
          /\ UNCHANGED <<readyAt, cnt, openBy>>
    /\ UNCHANGED <<hub, up, alive, healOn, bus, deaf, swallowed>>

Stalled(reply) == t.stalled \/ (reply = "none" /\ t.unit \notin deaf)

\* The trigger frame: an answer means the channel was open already.
SendTrigger(reply, d) ==
    /\ t.phase = "trigger"
    /\ Exchange(t.unit, up, T1, reply, d)
    /\ t' = [t EXCEPT !.phase = IF reply = "none" THEN "again" ELSE "judge",
                      !.reply = reply, !.tries = 1, !.stalled = Stalled(reply)]
    /\ readyAt' = IF reply = "none" THEN readyAt ELSE up' % Wrap
    /\ openBy' = IF reply = "none" THEN openBy ELSE up'
    /\ UNCHANGED <<hub, lastCh, alive, healOn, cnt, calls>>

\* The in-line attempts after a lost trigger: hold, then send
SendAgain(reply, d) ==
    /\ t.phase = "again"
    /\ t.tries < hub.retry
    /\ Fits(t.began % Wrap)
    /\ Exchange(t.unit, up + Wait, First, reply, d)
    /\ t' = [t EXCEPT !.phase = IF reply = "none" THEN "again" ELSE "judge",
                      !.reply = reply, !.tries = @ + 1,
                      !.stalled = Stalled(reply)]
    /\ cnt' = Bump("extra")
    /\ UNCHANGED <<hub, lastCh, readyAt, alive, healOn, calls, openBy>>

\* No attempt left, or no room to wait for the next
GiveUpCrossing ==
    /\ t.phase = "again"
    /\ t.tries >= hub.retry \/ ~Fits(t.began % Wrap)
    /\ t' = [t EXCEPT !.phase = "judge", !.reply = "none"]
    /\ cnt' = BumpIf(t.tries < hub.retry, "skip", cnt)
    /\ UNCHANGED <<hub, up, lastCh, readyAt, alive, healOn, bus, deaf, calls,
                   openBy, swallowed>>

\* Seeded fault: the request goes out at once instead of being held.
HoldNot == 0

Hold == Wait

\* A request that met a settling channel: held in silence, then sent once
SendHeld(reply, d) ==
    /\ t.phase = "held"
    /\ Exchange(t.unit, up + Hold, First, reply, d)
    /\ t' = [t EXCEPT !.phase = "judge", !.reply = reply,
                      !.healable = (reply = "none"), !.stalled = Stalled(reply)]
    /\ UNCHANGED <<hub, lastCh, readyAt, alive, healOn, cnt, calls, openBy>>

\* A request on an open channel
SendDirect(reply, d) ==
    /\ t.phase = "direct"
    /\ Exchange(t.unit, up, First, reply, d)
    /\ t' = [t EXCEPT !.phase = "judge", !.reply = reply, !.healable = TRUE,
                      !.stalled = Stalled(reply)]
    /\ UNCHANGED <<hub, lastCh, readyAt, alive, healOn, cnt, calls, openBy>>

\* markAlive() and noteBadReply() on what came back
Noted(reply) ==
    BumpIf(reply = "other", "badOther", BumpIf(reply = "badcrc", "badCrc", cnt))

\* Seeded fault: a unit counts as seen alive once it has been asked.
NowAliveAsked(reply) == alive \cup {t.unit}

NowAlive(reply) == IF reply = "valid" THEN alive \cup {t.unit} ELSE alive

\* Seeded fault: only a garbled reply is healed.
NeedsHealGarbled == t.reply \in {"badcrc", "other"} /\ t.healable /\ healOn /\ t.heal

NeedsHeal == t.reply # "valid" /\ t.healable /\ healOn /\ t.heal

\* rtu_transact() after the core
Judge ==
    /\ t.phase = "judge"
    /\ t' = [t EXCEPT !.phase = IF NeedsHeal THEN "resync" ELSE "report"]
    /\ alive' = NowAlive(t.reply)
    /\ cnt' = Noted(t.reply)
    /\ UNCHANGED <<hub, up, lastCh, readyAt, healOn, bus, deaf, calls, openBy, swallowed>>

\* The patience a healing retry has to respect
Limit == IF hub.budget # 0 THEN hub.budget ELSE RetryBudget

\* (millis() - start) + t1 against the budget, once the re-sync is over
RetryFits ==
    ((up' - t.began) % Wrap) + T1 <= Limit

\* The broadcast, its guard time, and the decision to ask once more
Resync ==
    /\ t.phase = "resync"
    /\ up' = up + Guard
    /\ up' <= Horizon
    /\ BroadcastAt(Chan[t.unit], up)
    /\ t' = IF t.unit \in alive /\ RetryFits
            THEN [t EXCEPT !.phase = "retry"]
            ELSE [t EXCEPT !.phase = "report", !.reply = "none"]
    /\ cnt' = Bump("resync")
    /\ UNCHANGED <<hub, lastCh, readyAt, alive, healOn, bus, calls, openBy>>

RetryCount(reply) ==
    BumpIf(reply # "valid", "retryFail", BumpIf(reply = "valid", "retryOk", Noted(reply)))

SendRetry(reply, d) ==
    /\ t.phase = "retry"
    /\ Exchange(t.unit, up, First, reply, d)
    /\ t' = [t EXCEPT !.phase = IF reply = "valid" THEN "report" ELSE "resync2",
                      !.reply = reply, !.stalled = Stalled(reply)]
    /\ alive' = NowAlive(reply)
    /\ cnt' = RetryCount(reply)
    /\ UNCHANGED <<hub, lastCh, readyAt, healOn, calls, openBy>>

\* The retry put everyone out of phase again.
ResyncAgain ==
    /\ t.phase = "resync2"
    /\ up' = up + Guard
    /\ up' <= Horizon
    /\ BroadcastAt(Chan[t.unit], up)
    /\ t' = [t EXCEPT !.phase = "report"]
    /\ cnt' = Bump("resync")
    /\ UNCHANGED <<hub, lastCh, readyAt, alive, healOn, bus, calls, openBy>>

\* gwStatus_countRtu(rx_len > 0) in the bridge that asked
Report ==
    /\ t.phase = "report"
    /\ t' = [t EXCEPT !.phase = "idle"]
    /\ cnt' = Bump(IF t.reply # "none" THEN "ok" ELSE "timeout")
    /\ UNCHANGED <<hub, up, lastCh, readyAt, alive, healOn, bus, deaf, calls,
                   openBy, swallowed>>

\* A caller's frame to unit 0 goes out by rtu_send(), past hold and crossing
\* alike; the time its bytes take is Idle's.
Broadcast ==
    /\ t.phase = "idle"
    /\ calls < MaxCalls
    /\ calls' = calls + 1
    /\ BroadcastAt(0, up)
    /\ UNCHANGED <<hub, up, lastCh, readyAt, alive, healOn, t, cnt, bus, openBy>>

\* Nobody asks for d.
Idle(d) ==
    /\ t.phase = "idle"
    /\ up + d <= Horizon
    /\ up' = up + d
    /\ UNCHANGED <<hub, lastCh, readyAt, alive, healOn, t, cnt, bus, deaf, calls,
                   openBy, swallowed>>

\* SAVE: rtu_setHub() forgets where the hub was left
SetHub(c) ==
    /\ t.phase = "idle"
    /\ hub' = Applied(c)
    /\ lastCh' = 0
    /\ readyAt' = Millis
    /\ openBy' = up
    /\ UNCHANGED <<up, alive, healOn, t, cnt, bus, deaf, calls, swallowed>>

\* RESYNC 0|1
SetHeal(on) ==
    /\ t.phase = "idle"
    /\ healOn' = on
    /\ UNCHANGED <<hub, up, lastCh, readyAt, alive, t, cnt, bus, deaf, calls,
                   openBy, swallowed>>

Next ==
    \/ \E u \in Units, heal \in BOOLEAN : Request(u, heal)
    \/ \E reply \in Replies, d \in 1..(T1 + Wire) :
           \/ SendTrigger(reply, d)
           \/ SendAgain(reply, d)
           \/ SendHeld(reply, d)
           \/ SendDirect(reply, d)
           \/ SendRetry(reply, d)
    \/ GiveUpCrossing
    \/ Judge
    \/ Resync
    \/ ResyncAgain
    \/ Report
    \/ Broadcast
    \/ \E d \in 1..IdleMax : Idle(d)
    \/ \E c \in HubConfigs : SetHub(c)
    \/ \E on \in BOOLEAN : SetHeal(on)

Spec == Init /\ [][Next]_vars

-----------------------------------------------------------------------------
(* Properties.                                                             *)

\* Type correctness of the transport's state.
TypeOK ==
    /\ up \in Nat
    /\ hub \in [retry : Nat \ {0}, settle : Nat, gap : Nat, budget : Nat]
    /\ lastCh \in Nat
    /\ readyAt \in Nat
    /\ alive \subseteq Units \ Dead
    /\ healOn \in BOOLEAN
    /\ t \in [phase : Phases, unit : Units, heal : BOOLEAN, began : Nat,
              tries : Nat, healable : BOOLEAN, reply : Replies,
              clean : BOOLEAN, known : BOOLEAN, stalled : BOOLEAN]
    /\ cnt \in [Counters -> Nat]
    /\ bus \in [ch : Nat, openAt : Nat]
    /\ deaf \subseteq Units
    /\ calls \in Nat /\ openBy \in Nat
    /\ swallowed \subseteq [phase : Phases, ch : Nat]

\* Of all that is sent to a channel of the hub, requests, in-line attempts, held
\* requests, healing retries and the re-syncs that follow any of them, only the
\* trigger frame of a crossing ever meets a settling hub ("hammering the bus
\* mid-settle made whole rows die"), whatever the order of requests, crossings,
\* broadcasts, retries and SAVEs.  Frames outside the channel map are not held
\* by anything and do meet it: those of a request to a unit that is not behind
\* the hub, its re-sync included, and a caller's broadcast.
NeverFedMidSettle ==
    \A f \in swallowed : f.ch # 0 => f.phase = "trigger"

\* With bus.hub_budget_ms set, an answer never comes later than the master is
\* willing to wait: neither the hold nor the in-line attempts nor the healing
\* retry can stretch it past the budget ("overrunning it desynchronises the
\* bridge").
AnsweredWithinBudget ==
    t.phase = "report" /\ t.reply = "valid" /\ hub.budget # 0 =>
        up - t.began <= hub.budget

\* A request is held only while the hub is really settling from the last
\* crossing, and fails unsent only then (rtu.hub skip: "requests failed WITHOUT
\* touching the bus because the hold did not fit") or, after its trigger frame,
\* when its in-line attempts have used the master's patience up.
HoldOnlyWhileSettling ==
    [][ /\ t.phase # "held" /\ t'.phase = "held" => up < openBy
        /\ cnt'.skip > cnt.skip =>
               \/ up < openBy
               \/ t.phase = "again" /\ up - t.began + T1 > hub.budget ]_vars

\* The healing recovers a module that another caller left out of phase: a
\* healed request on an open channel to a module that has answered before, and
\* that does not stall, is answered if the budget has room for the retry.
HealRecovers ==
    /\ t.phase = "report" /\ t.heal /\ healOn /\ t.clean /\ t.known /\ ~t.stalled
    /\ First + Wire + Guard + T1 <= Limit
    => t.reply # "none"

\* A healed request that went out on an open channel and that nobody answered
\* costs the neighbours nothing: every module that could hear the broadcast is
\* back in phase when the request ends ("send one broadcast read so every module
\* is back in phase"); a hub that was settling when it left had nobody behind it.
UnansweredLeavesInPhase ==
    t.phase = "report" /\ t.heal /\ healOn /\ t.clean /\ t.reply = "none" =>
        \A y \in deaf :
            Chan[y] # 0 /\ (Chan[y] # bus.ch \/ up - Guard < bus.openAt)
=============================================================================
