---------------------------- MODULE RtuHubProofs ----------------------------
(***************************************************************************)
(* Theorems about RtuHub, for every hub wiring, every set of dead modules, *)
(* every timing and any number of transactions, with no bound on the       *)
(* uptime but the one each theorem states.                                 *)
(***************************************************************************)
EXTENDS RtuHub, TLAPS

(***************************************************************************)
(* Type correctness.                                                       *)
(***************************************************************************)

HubType == [retry : Nat \ {0}, settle : Nat, gap : Nat, budget : Nat]
TransType == [phase : Phases, unit : Units, heal : BOOLEAN, began : Nat,
              tries : Nat, healable : BOOLEAN, reply : Replies,
              clean : BOOLEAN, known : BOOLEAN, stalled : BOOLEAN]

\* Whoever answered validly is not dead: what markAlive() is about to record.
AnswererLives == t.phase = "judge" /\ t.reply = "valid" => t.unit \notin Dead

TypeInv == TypeOK /\ AnswererLives

\* A clock value is a number.
LEMMA ModType ==
    ASSUME NEW a \in Int, NEW n \in Nat \ {0}
    PROVE  a % n \in Nat /\ a % n < n
OBVIOUS

\* A remainder is never above the number.
LEMMA ModBelow ==
    ASSUME NEW a \in Nat, NEW n \in Nat \ {0}
    PROVE  a % n <= a
<1>1. CASE a < n
  BY <1>1
<1>2. CASE n <= a
  BY <1>2, ModType
<1>3. QED
  BY <1>1, <1>2

\* What the assumption on the constants says, in the form the proofs use.
LEMMA Constants ==
    /\ T1 \in Nat \ {0} /\ Window \in Nat \ {0} /\ Wire \in Nat /\ Guard \in Nat
    /\ Wrap \in Nat \ {0} /\ HubSettle \in Nat /\ RetryBudget \in Nat
    /\ IdleMax \in Nat \ {0} /\ Horizon \in Nat \ {0} /\ MaxCalls \in Nat
    /\ First \in Nat \ {0} /\ First <= T1 /\ First <= Window
    /\ \A u \in Units : Chan[u] \in Nat
BY RtuAssumption DEF RtuAssumption, First

\* The configuration in force is one a SAVE has applied (rtu_setHub()).
LEMMA AppliedType ==
    ASSUME NEW c \in HubConfigs
    PROVE  /\ Applied(c) \in HubType
           /\ Applied(c).settle = c.settle /\ Applied(c).gap = c.gap
           /\ Applied(c).budget = c.budget
<1>1. c \in [retry : Nat, settle : Nat, gap : Nat, budget : Nat]
  BY RtuAssumption DEF RtuAssumption
<1>2. QED
  BY <1>1 DEF Applied, HubType

\* A counter that is bumped stays a counter.
LEMMA BumpType ==
    ASSUME NEW k \in [Counters -> Nat], NEW c \in Counters, NEW p
    PROVE  BumpIf(p, c, k) \in [Counters -> Nat] /\ [k EXCEPT ![c] = @ + 1] \in [Counters -> Nat]
BY DEF BumpIf

LEMMA WaitType == TypeOK => Wait \in Nat
<1> SUFFICES ASSUME TypeOK PROVE Wait \in Nat
  OBVIOUS
<1>1. up \in Nat /\ readyAt \in Nat /\ Wrap \in Nat \ {0}
  BY Constants DEF TypeOK
<1>2. Millis \in Nat
  BY <1>1, ModType DEF Millis
<1>3. (readyAt - Millis) % Wrap \in Nat
  BY <1>1, <1>2, ModType
<1>4. QED
  BY <1>3 DEF Wait

\* What the history keeps of a frame
Frames == [phase : Phases, ch : Nat]

\* A broadcast takes nobody out of phase that was in it.
LEMMA BroadcastFacts ==
    ASSUME TypeOK, NEW ch \in Nat, NEW s, BroadcastAt(ch, s)
    PROVE  deaf' \subseteq Units /\ swallowed' \subseteq Frames
<1>1. t.phase \in Phases /\ deaf \subseteq Units /\ swallowed \subseteq Frames
  BY DEF TypeOK, Frames
<1>2. [phase |-> t.phase, ch |-> ch] \in Frames
  BY <1>1 DEF Frames
<1>3. QED
  BY <1>1, <1>2 DEF BroadcastAt, Fed

\* What one exchange on the wire leaves behind (rtu_once()).
LEMMA ExchangeFacts ==
    ASSUME TypeOK, NEW s \in Nat, NEW first \in Nat \ {0}, NEW reply, NEW d,
           Exchange(t.unit, s, first, reply, d)
    PROVE  /\ up' \in Nat /\ s < up' /\ up' <= s + first + Wire /\ up' <= Horizon
           /\ reply = "none" => s + first <= up'
           /\ bus' \in [ch : Nat, openAt : Nat]
           /\ deaf' \subseteq Units
           /\ swallowed' \subseteq Frames
           /\ reply \in Replies
           /\ reply # "none" => t.unit \notin Dead
<1>1. /\ t \in TransType /\ bus \in [ch : Nat, openAt : Nat] /\ deaf \subseteq Units
      /\ swallowed \subseteq Frames
  BY DEF TypeOK, TransType, Frames
<1>2. t.unit \in Units /\ t.phase \in Phases /\ Chan[t.unit] \in Nat
  BY <1>1, Constants DEF TransType
<1>3. d \in Nat /\ up' = s + d /\ 0 < d /\ d <= first + Wire /\ up' <= Horizon
  BY Constants DEF Exchange
<1>4. bus' \in [ch : Nat, openAt : Nat]
  BY <1>1, <1>2, Constants DEF Exchange
<1>5. deaf' \subseteq Units /\ swallowed' \subseteq Frames
  <2>1. Fed(Chan[t.unit], s) \subseteq Frames
    BY <1>1, <1>2 DEF Fed, Frames
  <2>2. QED
    BY <1>1, <1>2, <2>1 DEF Exchange, Hearers
<1>6. reply \in Replies /\ (reply # "none" => t.unit \notin Dead)
  BY RtuAssumption DEF Exchange, Answers, Replies, RtuAssumption
<1>7. reply = "none" => s + first <= up'
  BY <1>3 DEF Exchange
<1>8. QED
  BY <1>3, <1>4, <1>5, <1>6, <1>7, Constants

\* The counters and the units seen alive, after a reply.
LEMMA NotedType ==
    ASSUME TypeOK, NEW reply
    PROVE  /\ Noted(reply) \in [Counters -> Nat]
           /\ RetryCount(reply) \in [Counters -> Nat]
<1>1. cnt \in [Counters -> Nat]
  BY DEF TypeOK
<1>2. {"badCrc", "badOther", "retryOk", "retryFail"} \subseteq Counters
  BY DEF Counters
<1>3. Noted(reply) \in [Counters -> Nat]
  BY <1>1, <1>2, BumpType DEF Noted
<1>4. QED
  BY <1>2, <1>3, BumpType DEF RetryCount

LEMMA InitType == Init => TypeInv
<1> SUFFICES ASSUME Init PROVE TypeInv
  OBVIOUS
<1>1. hub \in HubType
  BY AppliedType DEF Init
<1>2. (CHOOSE u \in Units : TRUE) \in Units
  BY RtuAssumption DEF RtuAssumption
<1>3. t \in TransType /\ t.phase = "idle"
  BY <1>2 DEF Init, TransType, Phases, Replies
<1>4. readyAt \in Nat
  BY ModType, Constants DEF Init
<1>5. bus \in [ch : Nat, openAt : Nat]
  BY Constants DEF Init
<1>6. cnt \in [Counters -> Nat]
  BY DEF Init
<1>7. QED
  BY <1>1, <1>3, <1>4, <1>5, <1>6 DEF Init, TypeInv, TypeOK, AnswererLives, HubType, TransType

\* A request that begins (rtu_transact_core() up to its first frame).
LEMMA RequestType ==
    ASSUME TypeInv, NEW u \in Units, NEW heal \in BOOLEAN, Request(u, heal)
    PROVE  TypeInv'
<1>1. TypeOK /\ up \in Nat /\ cnt \in [Counters -> Nat] /\ Chan[u] \in Nat
  BY Constants DEF TypeInv, TypeOK
<1>2. \E phase \in {"direct", "trigger", "held", "judge"} : Begin(u, heal, phase)
  BY DEF Request
<1>3. t' \in TransType /\ t'.reply = "none"
  BY <1>1, <1>2 DEF Begin, TransType, Phases, Replies
<1>4. cnt' \in [Counters -> Nat]
  BY <1>1, BumpType DEF Request, Bump, Counters
<1>5. readyAt' \in Nat /\ openBy' \in Nat
  <2>1. hub.settle \in Nat /\ hub.gap \in Nat /\ Millis \in Nat
    BY <1>1, ModType, Constants DEF TypeOK, Millis
  <2>2. TriggerReadyAt \in Nat
    BY <2>1, ModType, Constants DEF TriggerReadyAt
  <2>3. QED
    BY <1>1, <2>1, <2>2 DEF Request, TypeOK
<1>6. lastCh' \in Nat /\ calls' \in Nat
  BY <1>1 DEF Request, TypeOK
<1>7. QED
  BY <1>1, <1>3, <1>4, <1>5, <1>6 DEF Request, TypeInv, TypeOK, AnswererLives, TransType

\* The frame of any phase and its reply (rtu_once() and what follows it).
LEMMA FrameType ==
    ASSUME TypeInv, NEW reply \in Replies, NEW d \in 1..(T1 + Wire),
           \/ SendTrigger(reply, d) \/ SendAgain(reply, d) \/ SendHeld(reply, d)
           \/ SendDirect(reply, d) \/ SendRetry(reply, d)
    PROVE  TypeInv'
<1>1. /\ TypeOK /\ up \in Nat /\ cnt \in [Counters -> Nat] /\ Wait \in Nat
      /\ t \in TransType /\ up + Wait \in Nat
  BY WaitType DEF TypeInv, TypeOK, TransType
<1>2. \E s \in Nat, first \in Nat \ {0} : Exchange(t.unit, s, first, reply, d)
  BY <1>1, Constants DEF SendTrigger, SendAgain, SendHeld, SendDirect, SendRetry, Hold
<1>3. /\ up' \in Nat
      /\ bus' \in [ch : Nat, openAt : Nat]
      /\ deaf' \subseteq Units /\ swallowed' \subseteq Frames
      /\ reply # "none" => t.unit \notin Dead
  BY <1>1, <1>2, ExchangeFacts
<1>4. t' \in TransType
  <2>1. Stalled(reply) \in BOOLEAN /\ (reply = "none") \in BOOLEAN
    BY DEF Stalled
  <2>2. CASE SendTrigger(reply, d)
    BY <1>1, <2>1, <2>2 DEF SendTrigger, TransType, Phases
  <2>3. CASE SendAgain(reply, d)
    <3>1. t.tries + 1 \in Nat
      BY <1>1 DEF TransType
    <3>2. t' = [t EXCEPT !.phase = IF reply = "none" THEN "again" ELSE "judge",
                         !.reply = reply, !.tries = t.tries + 1,
                         !.stalled = Stalled(reply)]
      BY <2>3 DEF SendAgain
    <3>3. QED
      BY <1>1, <2>1, <3>1, <3>2 DEF TransType, Phases
  <2>4. CASE SendHeld(reply, d)
    BY <1>1, <2>1, <2>4 DEF SendHeld, TransType, Phases
  <2>5. CASE SendDirect(reply, d)
    BY <1>1, <2>1, <2>5 DEF SendDirect, TransType, Phases
  <2>6. CASE SendRetry(reply, d)
    BY <1>1, <2>1, <2>6 DEF SendRetry, TransType, Phases
  <2>7. QED
    BY <2>2, <2>3, <2>4, <2>5, <2>6
<1>5. t'.unit = t.unit /\ t'.reply = reply
  BY <1>1 DEF SendTrigger, SendAgain, SendHeld, SendDirect, SendRetry, TransType
<1>6. cnt' \in [Counters -> Nat]
  BY <1>1, BumpType, NotedType
     DEF SendTrigger, SendAgain, SendHeld, SendDirect, SendRetry, Bump, Counters
<1>7. alive' \subseteq Units \ Dead
  BY <1>1, <1>3
     DEF SendTrigger, SendAgain, SendHeld, SendDirect, SendRetry, NowAlive, TypeOK, TransType
<1>8. readyAt' \in Nat /\ openBy' \in Nat
  BY <1>1, <1>3, ModType, Constants
     DEF SendTrigger, SendAgain, SendHeld, SendDirect, SendRetry, TypeOK
<1>9. UNCHANGED <<hub, lastCh, healOn, calls>>
  BY DEF SendTrigger, SendAgain, SendHeld, SendDirect, SendRetry
<1>10. QED
  BY <1>1, <1>3, <1>4, <1>5, <1>6, <1>7, <1>8, <1>9
     DEF TypeInv, TypeOK, AnswererLives, TransType, HubType, Frames

\* The two broadcasts (rtu_resync()).
LEMMA ResyncType ==
    ASSUME TypeInv, Resync \/ ResyncAgain
    PROVE  TypeInv'
<1>1. /\ TypeOK /\ up \in Nat /\ t \in TransType /\ cnt \in [Counters -> Nat]
      /\ t.unit \in Units
  BY DEF TypeInv, TypeOK, TransType
<1>2. up' \in Nat /\ deaf' \subseteq Units /\ swallowed' \subseteq Frames
  <2>1. Chan[t.unit] \in Nat
    BY <1>1, Constants
  <2>2. BroadcastAt(Chan[t.unit], up) /\ up' = up + Guard
    BY DEF Resync, ResyncAgain
  <2>3. QED
    BY <1>1, <2>1, <2>2, BroadcastFacts, Constants
<1>3. t' \in TransType /\ t'.phase # "judge"
  BY <1>1 DEF Resync, ResyncAgain, TransType, Phases, Replies
<1>4. cnt' \in [Counters -> Nat]
  BY <1>1, BumpType DEF Resync, ResyncAgain, Bump, Counters
<1>5. QED
  BY <1>1, <1>2, <1>3, <1>4
     DEF Resync, ResyncAgain, TypeInv, TypeOK, AnswererLives, TransType, Frames

\* The ends of a transaction and of its parts.
LEMMA VerdictType ==
    ASSUME TypeInv, GiveUpCrossing \/ Judge \/ Report
    PROVE  TypeInv'
<1>1. TypeOK /\ t \in TransType /\ cnt \in [Counters -> Nat]
  BY DEF TypeInv, TypeOK, TransType
<1>2. t' \in TransType /\ (t'.phase = "judge" => t'.reply = "none")
  BY <1>1 DEF GiveUpCrossing, Judge, Report, TransType, Phases, Replies
<1>3. cnt' \in [Counters -> Nat]
  BY <1>1, BumpType, NotedType DEF GiveUpCrossing, Judge, Report, Bump, Counters
<1>4. alive' \subseteq Units \ Dead
  BY <1>1 DEF GiveUpCrossing, Judge, Report, NowAlive, TypeInv, TypeOK, AnswererLives, TransType
<1>5. QED
  BY <1>1, <1>2, <1>3, <1>4
     DEF GiveUpCrossing, Judge, Report, TypeInv, TypeOK, AnswererLives, TransType

\* What happens between transactions.
LEMMA BetweenType ==
    ASSUME TypeInv, \/ Broadcast
                    \/ \E d \in 1..IdleMax : Idle(d)
                    \/ \E c \in HubConfigs : SetHub(c)
                    \/ \E on \in BOOLEAN : SetHeal(on)
    PROVE  TypeInv'
<1>1. TypeOK /\ up \in Nat /\ t' = t
  BY DEF TypeInv, TypeOK, Broadcast, Idle, SetHub, SetHeal
<1>2. up' \in Nat /\ hub' \in HubType
  BY <1>1, Constants, AppliedType DEF Broadcast, Idle, SetHub, SetHeal, TypeOK, HubType
<1>3. readyAt' \in Nat /\ openBy' \in Nat /\ lastCh' \in Nat
  BY <1>1, ModType, Constants DEF Broadcast, Idle, SetHub, SetHeal, TypeOK, Millis
<1>4. deaf' \subseteq Units /\ swallowed' \subseteq Frames /\ calls' \in Nat
  BY <1>1, BroadcastFacts DEF Broadcast, Idle, SetHub, SetHeal, TypeOK, Frames
<1>5. QED
  BY <1>1, <1>2, <1>3, <1>4
     DEF Broadcast, Idle, SetHub, SetHeal, TypeInv, TypeOK, AnswererLives, HubType, Frames

LEMMA TypeStep == TypeInv /\ [Next]_vars => TypeInv'
<1> SUFFICES ASSUME TypeInv, [Next]_vars PROVE TypeInv'
  OBVIOUS
<1>1. CASE UNCHANGED vars
  BY <1>1 DEF vars, TypeInv, TypeOK, AnswererLives
<1>2. CASE Next
  BY <1>2, RequestType, FrameType, ResyncType, VerdictType, BetweenType DEF Next
<1>3. QED
  BY <1>1, <1>2

LEMMA TypeInvariant == Spec => []TypeInv
BY InitType, TypeStep, PTL DEF Spec

\* Every state of the transport is well formed, and only units that really
\* answered count as alive (markAlive()), for any wiring and any timing.
THEOREM HubTypeCorrect == Spec => []TypeOK
<1>1. TypeInv => TypeOK
  BY DEF TypeInv
<1>2. QED
  BY <1>1, TypeInvariant, PTL

(***************************************************************************)
(* The settle clock.  _hubReadyAt is kept in millis(), which wraps; what   *)
(* the code needs of it is that a frame is never sent before the channel   *)
(* is open.  That takes a configuration that covers what the hub needs     *)
(* (bus.hub_settle_ms is measured on the bench) and stays below half the   *)
(* range of millis().                                                      *)
(***************************************************************************)

SettleCovers ==
    \A c \in HubConfigs :
        HubSettle <= c.settle + c.gap /\ 2 * (c.settle + c.gap) < Wrap

\* Phases of a transaction that found, or left, its channel open.
OpenPhases == {"direct", "resync", "retry", "resync2"}

\* The clock agrees with the true time at which the channel opens; the hub
\* really is where the gateway believes it left it, and is never deaf longer
\* than the gateway will wait.
SettleInv ==
    /\ \E c \in HubConfigs : hub = Applied(c)
    /\ readyAt = openBy % Wrap
    /\ openBy <= up + hub.settle + hub.gap
    /\ bus.openAt <= up + HubSettle
    /\ bus.ch = 0 => bus.openAt = 0
    /\ t.phase # "idle" => Chan[t.unit] \in {0, lastCh}
    /\ t.phase \in {"trigger", "again", "held"} => Chan[t.unit] # 0
    /\ t.phase = "trigger" => openBy = up + hub.settle + hub.gap
    /\ t.healable => t.phase \notin {"trigger", "again", "held"}
    /\ lastCh # 0 /\ t.phase # "trigger" => lastCh = bus.ch /\ bus.openAt <= openBy
    /\ Chan[t.unit] # 0 /\ (t.phase \in OpenPhases \/ (t.phase = "judge" /\ t.healable))
           => openBy <= up
    /\ NeverFedMidSettle

\* A quotient and a remainder below the divisor are the quotient and remainder.
LEMMA ModUnique ==
    ASSUME NEW n \in Nat \ {0}, NEW k \in Int, NEW r \in 0..(n - 1)
    PROVE  (n * k + r) % n = r
<1> DEFINE x == n * k + r
           j == x \div n
           q == x % n
<1>1. x \in Int /\ j \in Int /\ q \in 0..(n - 1) /\ x = n * j + q
  <2>1. x \in Int
    OBVIOUS
  <2>2. QED
    BY <2>1
<1>2. n * k \in Int /\ n * j \in Int /\ n * k + r = n * j + q
  BY <1>1
<1> HIDE DEF x, j, q
<1>3. k = j
  <2>1. CASE k < j
    <3>1. n * (k + 1) <= n * j /\ n * (k + 1) = n * k + n
      BY <1>1, <2>1
    <3>2. QED
      BY <3>1, <1>1, <1>2
  <2>2. CASE j < k
    <3>1. n * (j + 1) <= n * k /\ n * (j + 1) = n * j + n
      BY <1>1, <2>2
    <3>2. QED
      BY <3>1, <1>1, <1>2
  <2>3. QED
    BY <2>1, <2>2, <1>1
<1>4. QED
  BY <1>1, <1>2, <1>3 DEF q, x

\* Multiples of the modulus do not count.
LEMMA ModMultiple ==
    ASSUME NEW n \in Nat \ {0}, NEW k \in Int, NEW a \in Int
    PROVE  (n * k + a) % n = a % n
<1> DEFINE q == a \div n
           r == a % n
<1>1. q \in Int /\ r \in 0..(n - 1) /\ a = n * q + r
  OBVIOUS
<1> HIDE DEF q, r
<1>2. n * k + a = n * (k + q) + r
  BY <1>1
<1>3. (n * (k + q) + r) % n = r
  BY <1>1, ModUnique
<1>4. QED
  BY <1>2, <1>3 DEF r

\* The distance of two clock values, read modulo the wrap, is the distance of
\* the true times when that is short enough.
LEMMA ModDistance ==
    ASSUME NEW n \in Nat \ {0}, NEW a \in Nat, NEW b \in Nat
    PROVE  /\ ((a % n) - (b % n)) % n = (a - b) % n
           /\ b <= a /\ a - b < n => ((a % n) - (b % n)) % n = a - b
<1> DEFINE qa == a \div n
           qb == b \div n
           ra == a % n
           rb == b % n
<1>1. /\ qa \in Nat /\ ra \in Nat /\ a = n * qa + ra
      /\ qb \in Nat /\ rb \in Nat /\ b = n * qb + rb
  OBVIOUS
<1> HIDE DEF qa, qb, ra, rb
<1>2. PICK k \in Int, c \in Int : k = qb - qa /\ c = a - b
  BY <1>1
<1>3. (ra - rb) % n = (a - b) % n
  <2>1. ra - rb = n * k + c
    BY <1>1, <1>2
  <2>2. (n * k + c) % n = c % n
    BY ModMultiple
  <2>3. QED
    BY <1>2, <2>1, <2>2
<1>4. b <= a /\ a - b < n => (a - b) % n = a - b
  OBVIOUS
<1>5. QED
  BY <1>3, <1>4 DEF ra, rb

\* Adding before or after the wrap makes no difference modulo it.
LEMMA ModPlus ==
    ASSUME NEW n \in Nat \ {0}, NEW a \in Nat, NEW b \in Nat
    PROVE  ((a % n) + b) % n = (a + b) % n
<1> DEFINE q == a \div n
           r == a % n
<1>1. q \in Nat /\ r \in Nat /\ a = n * q + r
  OBVIOUS
<1> HIDE DEF q, r
<1>2. PICK c \in Int : c = r + b
  BY <1>1
<1>3. a + b = n * q + c
  BY <1>1, <1>2
<1>4. (n * q + c) % n = c % n
  <2>1. q \in Int
    BY <1>1
  <2>2. QED
    BY <2>1, ModMultiple
<1>5. QED
  BY <1>2, <1>3, <1>4 DEF r

\* hubHoldAndSend() waits at least until the channel is open.
LEMMA WaitCovers ==
    ASSUME SettleCovers, TypeOK, SettleInv
    PROVE  /\ openBy <= up + Wait
           /\ openBy > up => Wait = openBy - up
<1>1. /\ up \in Nat /\ openBy \in Nat /\ Wrap \in Nat \ {0} /\ Wait \in Nat
      /\ readyAt = openBy % Wrap
  BY Constants, WaitType DEF TypeOK, SettleInv
<1>2. PICK c \in HubConfigs : hub = Applied(c)
  BY DEF SettleInv
<1>3. /\ hub.settle \in Nat /\ hub.gap \in Nat /\ 2 * (hub.settle + hub.gap) < Wrap
      /\ openBy <= up + hub.settle + hub.gap
  BY <1>2, AppliedType DEF SettleCovers, SettleInv, TypeOK
<1>4. CASE openBy > up
  <2>1. up <= openBy /\ openBy - up < Wrap /\ 2 * (openBy - up) < Wrap
    BY <1>1, <1>3, <1>4
  <2>2. (readyAt - Millis) % Wrap = openBy - up
    BY <1>1, <2>1, ModDistance DEF Millis
  <2>3. QED
    BY <1>1, <1>4, <2>1, <2>2 DEF Wait
<1>5. QED
  BY <1>1, <1>4

LEMMA InitSettle == SettleCovers /\ Init => SettleInv
<1> SUFFICES ASSUME Init PROVE SettleInv
  OBVIOUS
<1>1. PICK c \in HubConfigs : hub = Applied(c)
  BY DEF Init
<1>2. hub.settle \in Nat /\ hub.gap \in Nat
  BY <1>1, AppliedType DEF HubType
<1>3. 1 <= 1 + hub.settle + hub.gap
  BY <1>2
<1>4. QED
  BY <1>1, <1>3, Constants DEF Init, SettleInv, NeverFedMidSettle, OpenPhases

\* The deadline of a crossing is set in the clock's own terms.
LEMMA TriggerReady ==
    ASSUME TypeOK
    PROVE  TriggerReadyAt = (up + hub.settle + hub.gap) % Wrap
<1>1. /\ Wrap \in Nat \ {0} /\ up \in Nat /\ hub.settle \in Nat /\ hub.gap \in Nat
      /\ hub.settle + hub.gap \in Nat
  BY Constants DEF TypeOK
<1>2. ((up % Wrap) + (hub.settle + hub.gap)) % Wrap = (up + (hub.settle + hub.gap)) % Wrap
  BY <1>1, ModPlus
<1>3. up % Wrap \in Nat
  BY <1>1, ModType
<1>4. /\ (up % Wrap) + (hub.settle + hub.gap) = (up % Wrap) + hub.settle + hub.gap
      /\ up + (hub.settle + hub.gap) = up + hub.settle + hub.gap
  BY <1>1, <1>3
<1>5. QED
  BY <1>2, <1>4 DEF TriggerReadyAt, Millis

\* A request decides by the clock which way its first frame goes.
LEMMA RequestSettle ==
    ASSUME SettleCovers, TypeInv, SettleInv,
           NEW u \in Units, NEW heal \in BOOLEAN, Request(u, heal)
    PROVE  SettleInv'
<1>1. /\ TypeOK /\ up \in Nat /\ openBy \in Nat /\ Chan[u] \in Nat /\ lastCh \in Nat
      /\ Wait \in Nat /\ t.phase = "idle" /\ hub.settle \in Nat /\ hub.gap \in Nat
  BY Constants, WaitType DEF TypeInv, TypeOK, Request
<1>2. UNCHANGED <<hub, up, bus, swallowed>>
  BY DEF Request
<1>3. /\ \E c \in HubConfigs : hub' = Applied(c)
      /\ bus'.openAt <= up' + HubSettle /\ (bus'.ch = 0 => bus'.openAt = 0)
      /\ NeverFedMidSettle'
  BY <1>2 DEF SettleInv, NeverFedMidSettle
<1>4. CASE Chan[u] = 0 /\ Begin(u, heal, "direct") /\ UNCHANGED <<readyAt, openBy>>
  <2>1. t'.unit = u /\ t'.phase = "direct" /\ lastCh' = lastCh
    BY <1>4 DEF Begin, Request
  <2>2. QED
    BY <1>1, <1>2, <1>3, <1>4, <2>1 DEF SettleInv, OpenPhases
<1>5. CASE Crossed(u) /\ Begin(u, heal, "trigger") /\ readyAt' = TriggerReadyAt
           /\ openBy' = up + hub.settle + hub.gap
  <2>1. t'.unit = u /\ t'.phase = "trigger" /\ Chan[u] # 0 /\ lastCh' = Chan[u]
    BY <1>5 DEF Begin, Request, Crossed
  <2>2. readyAt' = openBy' % Wrap
    BY <1>1, <1>5, TriggerReady
  <2>3. ~t'.healable
    BY <1>5 DEF Begin
  <2>4. /\ hub'.settle = hub.settle /\ hub'.gap = hub.gap /\ up' = up
        /\ openBy' <= up' + hub'.settle + hub'.gap
    BY <1>1, <1>2, <1>5
  <2>5. QED
    BY <1>1, <1>2, <1>3, <1>5, <2>1, <2>2, <2>3, <2>4 DEF SettleInv, OpenPhases
<1>6. CASE /\ Chan[u] # 0 /\ ~Crossed(u) /\ UNCHANGED <<readyAt, openBy>>
           /\ \/ Begin(u, heal, "held") \/ Begin(u, heal, "judge")
              \/ Begin(u, heal, "direct") /\ Wait = 0
  <2>1. /\ t'.unit = u /\ t'.phase \in {"held", "judge", "direct"} /\ ~t'.healable
        /\ t'.phase = "direct" => Wait = 0
        /\ lastCh = Chan[u] /\ lastCh' = lastCh
    BY <1>6 DEF Begin, Request, Crossed
  <2>2. t'.phase = "direct" => openBy <= up
    BY <1>1, <2>1, WaitCovers
  <2>3. QED
    BY <1>1, <1>2, <1>3, <1>6, <2>1, <2>2 DEF SettleInv, OpenPhases
<1>7. QED
  BY <1>4, <1>5, <1>6 DEF Request

\* A trigger frame moves the hub; an answer to it proves the channel open.
LEMMA TriggerSettle ==
    ASSUME SettleCovers, TypeInv, SettleInv,
           NEW reply \in Replies, NEW d \in 1..(T1 + Wire), SendTrigger(reply, d)
    PROVE  SettleInv'
<1> DEFINE u == t.unit
<1>1. /\ TypeOK /\ up \in Nat /\ openBy \in Nat /\ bus \in [ch : Nat, openAt : Nat]
      /\ u \in Units /\ Chan[u] \in Nat \ {0} /\ Chan[u] = lastCh
      /\ hub.settle \in Nat /\ hub.gap \in Nat
      /\ openBy = up + hub.settle + hub.gap /\ t.phase = "trigger"
      /\ t \in TransType
  BY Constants DEF TypeInv, TypeOK, SendTrigger, SettleInv, TransType
<1>2. /\ Exchange(u, up, T1, reply, d) /\ UNCHANGED <<hub, lastCh>>
      /\ up' \in Nat /\ up < up'
  BY <1>1, ExchangeFacts, Constants DEF SendTrigger
<1>3. /\ t'.unit = u /\ t'.phase \in {"again", "judge"} /\ t'.healable = t.healable
      /\ t'.phase = "again" <=> reply = "none"
  BY <1>1 DEF SendTrigger, TransType
<1>4. HubSettle <= hub.settle + hub.gap
  BY <1>1, AppliedType DEF SettleInv, SettleCovers
<1>5. bus'.ch = lastCh /\ bus'.openAt <= up' + HubSettle
  BY <1>1, <1>2, Constants DEF Exchange, SettleInv
<1>6. reply # "none" => bus.openAt <= up /\ bus' = bus
  BY <1>1, <1>2 DEF Exchange, Hearers
<1>7. bus'.openAt <= up + HubSettle
  BY <1>1, <1>2, Constants DEF Exchange, SettleInv
<1>8. /\ readyAt' = openBy' % Wrap /\ openBy' \in Nat
      /\ openBy' <= up' + hub.settle + hub.gap
      /\ bus'.openAt <= openBy'
  <2>1. CASE reply = "none"
    <3>1. readyAt' = readyAt /\ openBy' = openBy
      BY <2>1 DEF SendTrigger
    <3>2. readyAt = openBy % Wrap
      BY DEF SettleInv
    <3>3. bus'.openAt <= openBy /\ openBy <= up' + hub.settle + hub.gap
      <4>1. bus'.openAt \in Nat
        BY <1>1, <1>2, ExchangeFacts, Constants
      <4>2. QED
        BY <1>1, <1>2, <1>4, <1>7, <4>1, Constants
    <3>4. QED
      BY <1>1, <3>1, <3>2, <3>3
  <2>2. CASE reply # "none"
    BY <1>1, <1>2, <1>6, <2>2, Constants DEF SendTrigger
  <2>3. QED
    BY <2>1, <2>2
<1>9. NeverFedMidSettle' /\ (bus'.ch = 0 => bus'.openAt = 0)
  BY <1>1, <1>2, <1>5 DEF Exchange, Fed, SettleInv, NeverFedMidSettle
<1>10. ~t'.healable
  BY <1>1, <1>3 DEF SettleInv
<1>11. \E c \in HubConfigs : hub' = Applied(c)
  BY <1>2 DEF SettleInv
<1>12. QED
  BY <1>1, <1>2, <1>3, <1>5, <1>8, <1>9, <1>10, <1>11 DEF SettleInv, OpenPhases

\* A frame that finds its channel open, or that is for none, moves nothing and
\* feeds no settling hub on a channel's account.
LEMMA OpenExchange ==
    ASSUME TypeOK, NeverFedMidSettle,
           NEW s \in Nat, NEW first \in Nat \ {0}, NEW reply, NEW d,
           Exchange(t.unit, s, first, reply, d),
           Chan[t.unit] # 0 => Chan[t.unit] = bus.ch /\ bus.openAt <= s
    PROVE  bus' = bus /\ NeverFedMidSettle'
<1>1. bus \in [ch : Nat, openAt : Nat] /\ t.unit \in Units /\ Chan[t.unit] \in Nat
  BY Constants DEF TypeOK
<1>2. bus' = bus
  BY DEF Exchange
<1>3. Chan[t.unit] # 0 => ~(s < bus.openAt)
  BY <1>1
<1>4. swallowed' = Fed(Chan[t.unit], s)
  BY DEF Exchange
<1>5. \A f \in swallowed' : f \in swallowed \/ f.ch = 0
  BY <1>3, <1>4 DEF Fed
<1>6. QED
  BY <1>2, <1>5 DEF NeverFedMidSettle

\* So it is with a broadcast that finds the channel it heals open.
LEMMA OpenBroadcast ==
    ASSUME TypeOK, NeverFedMidSettle, NEW ch \in Nat, BroadcastAt(ch, up),
           ch # 0 => bus.openAt <= up
    PROVE  NeverFedMidSettle'
<1>1. bus.openAt \in Nat /\ up \in Nat
  BY DEF TypeOK
<1>2. \A f \in swallowed' : f \in swallowed \/ f.ch = 0
  BY <1>1 DEF BroadcastAt, Fed
<1>3. QED
  BY <1>2 DEF NeverFedMidSettle

\* Every other frame goes out on an open channel, whatever the order of
\* requests, crossings and SAVEs.
LEMMA SettledFrame ==
    ASSUME SettleCovers, TypeInv, SettleInv,
           NEW reply \in Replies, NEW d \in 1..(T1 + Wire),
           \/ SendAgain(reply, d) \/ SendHeld(reply, d)
           \/ SendDirect(reply, d) \/ SendRetry(reply, d)
    PROVE  /\ bus' = bus /\ NeverFedMidSettle'
           /\ up' \in Nat /\ up < up' /\ openBy' = openBy /\ readyAt' = readyAt
           /\ Chan[t.unit] # 0 => Chan[t.unit] = bus.ch /\ bus.openAt <= up'
           /\ Chan[t.unit] # 0 => openBy <= up'
<1>1. /\ TypeOK /\ up \in Nat /\ openBy \in Nat /\ bus \in [ch : Nat, openAt : Nat]
      /\ t.unit \in Units /\ Chan[t.unit] \in Nat /\ Wait \in Nat /\ t.phase \in Phases
  BY Constants, WaitType DEF TypeInv, TypeOK
<1>2. PICK s \in {up, up + Wait} :
        /\ Exchange(t.unit, s, First, reply, d)
        /\ t.phase \in {"again", "held"} => s = up + Wait
  BY <1>1 DEF SendAgain, SendHeld, SendDirect, SendRetry, Hold
<1>3. t.phase \in {"again", "held", "direct", "retry"}
  BY DEF SendAgain, SendHeld, SendDirect, SendRetry
<1>4. s \in Nat /\ up <= s
  BY <1>1, <1>2
<1>5. Chan[t.unit] # 0 => openBy <= s
  <2>1. CASE t.phase \in {"again", "held"}
    BY <1>2, <2>1, WaitCovers, <1>1
  <2>2. CASE t.phase \in {"direct", "retry"}
    BY <1>1, <1>4, <2>2 DEF SettleInv, OpenPhases
  <2>3. QED
    BY <1>3, <2>1, <2>2
<1>6. Chan[t.unit] # 0 => Chan[t.unit] = bus.ch /\ bus.openAt <= openBy
  BY <1>1, <1>3 DEF SettleInv
<1>7. bus' = bus /\ NeverFedMidSettle'
  <2>1. Chan[t.unit] # 0 => Chan[t.unit] = bus.ch /\ bus.openAt <= s
    BY <1>1, <1>4, <1>5, <1>6
  <2>2. NeverFedMidSettle
    BY DEF SettleInv
  <2>3. QED
    BY <1>1, <1>2, <1>4, <2>1, <2>2, OpenExchange, Constants
<1>8. up' \in Nat /\ s < up'
  BY <1>1, <1>2, <1>4, ExchangeFacts, Constants
<1>9. openBy' = openBy /\ readyAt' = readyAt
  BY DEF SendAgain, SendHeld, SendDirect, SendRetry
<1>10. QED
  BY <1>1, <1>4, <1>5, <1>6, <1>7, <1>8, <1>9

LEMMA FrameSettle ==
    ASSUME SettleCovers, TypeInv, SettleInv,
           NEW reply \in Replies, NEW d \in 1..(T1 + Wire),
           \/ SendAgain(reply, d) \/ SendHeld(reply, d)
           \/ SendDirect(reply, d) \/ SendRetry(reply, d)
    PROVE  SettleInv'
<1>1. /\ up \in Nat /\ openBy \in Nat /\ t \in TransType /\ t.healable \in BOOLEAN
      /\ hub.settle \in Nat /\ hub.gap \in Nat /\ bus \in [ch : Nat, openAt : Nat]
      /\ bus' = bus /\ NeverFedMidSettle' /\ up' \in Nat /\ up < up'
      /\ openBy' = openBy /\ readyAt' = readyAt
      /\ Chan[t.unit] # 0 => openBy <= up'
  BY SettledFrame DEF TypeInv, TypeOK, TransType
<1>2. /\ UNCHANGED <<hub, lastCh>>
      /\ t.phase \in {"again", "held", "direct", "retry"}
      /\ t'.unit = t.unit
      /\ t'.phase \in {"again", "judge", "report", "resync2"}
      /\ t'.phase = "again" => t.phase = "again" /\ t'.healable = t.healable
  BY <1>1 DEF SendAgain, SendHeld, SendDirect, SendRetry, TransType
<1>3. bus.openAt <= up' + HubSettle
  BY <1>1, Constants DEF SettleInv
<1>4. openBy <= up' + hub.settle + hub.gap
  BY <1>1 DEF SettleInv
<1>5. QED
  BY <1>1, <1>2, <1>3, <1>4 DEF SettleInv, OpenPhases

\* The steps that send no request, and what happens between transactions.
LEMMA QuietSettle ==
    ASSUME SettleCovers, TypeInv, SettleInv,
           \/ GiveUpCrossing \/ Judge \/ Report \/ Resync \/ ResyncAgain \/ Broadcast
           \/ \E d \in 1..IdleMax : Idle(d)
           \/ \E on \in BOOLEAN : SetHeal(on)
    PROVE  SettleInv'
<1>1. /\ up \in Nat /\ openBy \in Nat /\ t \in TransType /\ t.healable \in BOOLEAN
      /\ hub.settle \in Nat /\ hub.gap \in Nat /\ bus \in [ch : Nat, openAt : Nat]
  BY DEF TypeInv, TypeOK, TransType
<1>2. UNCHANGED <<hub, lastCh, readyAt, openBy, bus>> /\ up' \in Nat /\ up <= up'
  BY <1>1, Constants
     DEF GiveUpCrossing, Judge, Report, Resync, ResyncAgain, Broadcast, Idle, SetHeal
<1>3. /\ t'.unit = t.unit /\ t'.healable = t.healable
      /\ t'.phase # "trigger" /\ t'.phase # "direct" /\ (t'.phase \in {"again", "held"} => t' = t)
      /\ t'.phase \in OpenPhases => t.phase \in OpenPhases \/ (t.phase = "judge" /\ t.healable)
      /\ t'.phase = "judge" => ~t'.healable
      /\ t.phase = "idle" => t'.phase = "idle"
      /\ t.phase # "trigger"
  BY <1>1 DEF GiveUpCrossing, Judge, Report, Resync, ResyncAgain, Broadcast, Idle, SetHeal,
              TransType, OpenPhases, NeedsHeal, SettleInv
<1>4. bus.openAt <= up' + HubSettle
  BY <1>1, <1>2, Constants DEF SettleInv
<1>5. openBy <= up' + hub.settle + hub.gap
  BY <1>1, <1>2 DEF SettleInv
<1>6. Chan[t.unit] # 0 /\ t'.phase \in OpenPhases => openBy <= up'
  BY <1>1, <1>2, <1>3 DEF SettleInv
<1>7. NeverFedMidSettle'
  <2>1. CASE Resync \/ ResyncAgain
    <3>1. /\ TypeOK /\ t.unit \in Units /\ Chan[t.unit] \in Nat /\ t.phase \in OpenPhases
          /\ t.phase \notin {"idle", "trigger"}
          /\ BroadcastAt(Chan[t.unit], up)
      BY <1>1, <2>1, Constants DEF TypeInv, TransType, Resync, ResyncAgain, OpenPhases
    <3>2. Chan[t.unit] # 0 => lastCh # 0 /\ bus.openAt <= openBy /\ openBy <= up
      BY <3>1 DEF SettleInv
    <3>3. Chan[t.unit] # 0 => bus.openAt <= up
      BY <1>1, <3>2
    <3>4. QED
      BY <3>1, <3>3, OpenBroadcast DEF SettleInv
  <2>2. CASE Broadcast
    BY <2>2, OpenBroadcast DEF Broadcast, SettleInv, TypeInv
  <2>3. CASE \/ GiveUpCrossing \/ Judge \/ Report
             \/ \E d \in 1..IdleMax : Idle(d)
             \/ \E on \in BOOLEAN : SetHeal(on)
    <3>1. swallowed' = swallowed
      BY <2>3 DEF GiveUpCrossing, Judge, Report, Idle, SetHeal
    <3>2. QED
      BY <3>1 DEF SettleInv, NeverFedMidSettle
  <2>4. QED
    BY <2>1, <2>2, <2>3
<1>8. QED
  BY <1>1, <1>2, <1>3, <1>4, <1>5, <1>6, <1>7 DEF SettleInv

\* A SAVE forgets where the hub was left, and so treats the next frame behind
\* it as a trigger.
LEMMA SetHubSettle ==
    ASSUME SettleCovers, TypeInv, SettleInv, NEW c \in HubConfigs, SetHub(c)
    PROVE  SettleInv'
<1>1. /\ up \in Nat /\ t.phase = "idle" /\ bus \in [ch : Nat, openAt : Nat]
      /\ hub' = Applied(c) /\ hub'.settle \in Nat /\ hub'.gap \in Nat
  BY AppliedType DEF TypeInv, TypeOK, SetHub, HubType
<1>2. /\ lastCh' = 0 /\ readyAt' = up % Wrap /\ openBy' = up
      /\ UNCHANGED <<up, t, bus, swallowed>>
  BY DEF SetHub, Millis
<1>3. openBy' <= up' + hub'.settle + hub'.gap
  BY <1>1, <1>2
<1>4. QED
  BY <1>1, <1>2, <1>3 DEF SettleInv, OpenPhases, NeverFedMidSettle

LEMMA SettleStep == SettleCovers /\ TypeInv /\ SettleInv /\ [Next]_vars => SettleInv'
<1> SUFFICES ASSUME SettleCovers, TypeInv, SettleInv, [Next]_vars PROVE SettleInv'
  OBVIOUS
<1>1. CASE UNCHANGED vars
  BY <1>1 DEF vars, SettleInv, OpenPhases, NeverFedMidSettle
<1>2. CASE Next
  BY <1>2, RequestSettle, TriggerSettle, FrameSettle, QuietSettle, SetHubSettle DEF Next
<1>3. QED
  BY <1>1, <1>2

LEMMA SettleInvariant ==
    ASSUME SettleCovers
    PROVE  Spec => []SettleInv
<1>1. Init => SettleInv
  BY InitSettle
<1>2. TypeInv /\ SettleInv /\ [Next]_vars => SettleInv'
  BY SettleStep
<1>3. QED
  BY <1>1, <1>2, TypeInvariant, PTL DEF Spec

\* With a configured settle time that covers the hub's own, only the trigger
\* frame of a crossing, of all that is sent to a channel of the hub, ever meets
\* a settling hub, whatever the order of requests, crossings, broadcasts,
\* retries and SAVEs, and across the wrap of millis().
THEOREM HubNeverFedMidSettle ==
    ASSUME SettleCovers
    PROVE  Spec => []NeverFedMidSettle
<1>1. SettleInv => NeverFedMidSettle
  BY DEF SettleInv
<1>2. QED
  BY <1>1, SettleInvariant, PTL

(***************************************************************************)
(* The master's patience.  A reply window that fits in rs485.t1_ms is what *)
(* modbus_rtu.cpp takes for granted when it counts t1 for a whole exchange *)
(* (hubHoldAndSend(), rtu_transact()); a budget below one exchange cannot  *)
(* be kept by anybody.                                                     *)
(***************************************************************************)

PatientEnough ==
    /\ First + Wire <= T1
    /\ \A c \in HubConfigs :
           c.budget # 0 => T1 + Wire <= c.budget /\ c.budget + Guard < Wrap

\* What a transaction may have used of the budget, phase by phase.
BudgetInv ==
    /\ \E c \in HubConfigs : hub = Applied(c)
    /\ t.began <= up
    /\ hub.budget # 0 =>
           /\ t.phase \in {"trigger", "held", "direct"} => up = t.began
           /\ t.phase = "held" => Wait + T1 <= hub.budget
           /\ t.phase \in {"again", "judge", "resync"} => up - t.began <= hub.budget
           /\ t.phase = "retry" => up - t.began + T1 <= hub.budget
    /\ t.phase = "resync2" => t.reply # "valid"
    /\ AnsweredWithinBudget

\* A budget is never smaller than one exchange, nor so large that it wraps.
LEMMA BudgetBounds ==
    ASSUME PatientEnough, TypeOK, BudgetInv, hub.budget # 0
    PROVE  T1 + Wire <= hub.budget /\ hub.budget + Guard < Wrap /\ First + Wire <= T1
BY AppliedType DEF PatientEnough, BudgetInv

\* hubHoldAndSend() counts the time since the transaction began.
LEMMA FitsMeans ==
    ASSUME TypeOK, NEW began \in Nat, began <= up, up - began < Wrap,
           hub.budget # 0, Fits(began % Wrap)
    PROVE  up - began + Wait + T1 <= hub.budget
<1>1. /\ up \in Nat /\ Wait \in Nat /\ T1 \in Nat /\ hub.budget \in Nat /\ Wrap \in Nat \ {0}
  BY Constants, WaitType DEF TypeOK
<1>2. (Millis - (began % Wrap)) % Wrap = up - began
  BY <1>1, ModDistance DEF Millis
<1>3. QED
  BY <1>1, <1>2 DEF Fits

LEMMA RequestBudget ==
    ASSUME PatientEnough, TypeInv, BudgetInv,
           NEW u \in Units, NEW heal \in BOOLEAN, Request(u, heal)
    PROVE  BudgetInv'
<1>1. /\ TypeOK /\ up \in Nat /\ hub.budget \in Nat /\ Wait \in Nat /\ readyAt \in Nat
      /\ Wrap \in Nat \ {0} /\ T1 \in Nat
  BY Constants, WaitType DEF TypeInv, TypeOK
<1>2. UNCHANGED <<hub, up>>
  BY DEF Request
<1>3. /\ t'.began = up /\ t'.reply = "none"
      /\ t'.phase \in {"direct", "trigger", "held", "judge"}
  BY DEF Request, Begin
<1>4. hub.budget # 0 /\ t'.phase = "held" => Wait + T1 <= hub.budget /\ readyAt' = readyAt
  <2> SUFFICES ASSUME hub.budget # 0, t'.phase = "held"
               PROVE  Wait + T1 <= hub.budget /\ readyAt' = readyAt
    OBVIOUS
  <2>1. Fits(up % Wrap) /\ readyAt' = readyAt
    BY DEF Request, Begin
  <2>2. up - up + Wait + T1 <= hub.budget
    BY <1>1, <2>1, FitsMeans
  <2>3. QED
    BY <1>1, <2>1, <2>2
<1>5. hub.budget # 0 /\ t'.phase = "held" => Wait' + T1 <= hub'.budget
  BY <1>2, <1>4 DEF Wait, Millis
<1>6. QED
  BY <1>1, <1>2, <1>3, <1>5 DEF BudgetInv, AnsweredWithinBudget

\* Every frame that is sent has its whole exchange inside the budget.
LEMMA FrameBudget ==
    ASSUME PatientEnough, TypeInv, BudgetInv,
           NEW reply \in Replies, NEW d \in 1..(T1 + Wire),
           \/ SendTrigger(reply, d) \/ SendAgain(reply, d) \/ SendHeld(reply, d)
           \/ SendDirect(reply, d) \/ SendRetry(reply, d)
    PROVE  BudgetInv'
<1>1. /\ TypeOK /\ up \in Nat /\ hub.budget \in Nat /\ Wait \in Nat /\ Wrap \in Nat \ {0}
      /\ T1 \in Nat \ {0} /\ Wire \in Nat /\ First \in Nat \ {0} /\ Guard \in Nat
      /\ t \in TransType /\ t.began \in Nat /\ t.began <= up
  BY Constants, WaitType DEF TypeInv, TypeOK, TransType, BudgetInv
<1>2. /\ hub' = hub /\ t'.began = t.began
      /\ t'.phase \in {"again", "judge", "report", "resync2"}
      /\ t'.phase = "resync2" => t'.reply # "valid"
  BY <1>1 DEF SendTrigger, SendAgain, SendHeld, SendDirect, SendRetry, TransType
<1>3. up' \in Nat /\ up < up'
  <2>1. up + Wait \in Nat
    BY <1>1
  <2>2. QED
    BY <1>1, <2>1, ExchangeFacts
       DEF SendTrigger, SendAgain, SendHeld, SendDirect, SendRetry, Hold
<1>4. hub.budget # 0 => up' - t.began <= hub.budget
  <2> SUFFICES ASSUME hub.budget # 0 PROVE up' - t.began <= hub.budget
    OBVIOUS
  <2>1. T1 + Wire <= hub.budget /\ hub.budget + Guard < Wrap /\ First + Wire <= T1
    BY <1>1, BudgetBounds
  <2>2. CASE SendTrigger(reply, d)
    <3>1. up' <= up + T1 + Wire /\ up = t.began
      BY <1>1, <2>2, ExchangeFacts DEF SendTrigger, BudgetInv
    <3>2. QED
      BY <1>1, <1>3, <2>1, <3>1
  <2>3. CASE SendAgain(reply, d)
    <3>1. up - t.began <= hub.budget /\ Fits(t.began % Wrap)
      BY <2>3 DEF SendAgain, BudgetInv
    <3>2. up - t.began < Wrap
      BY <1>1, <2>1, <3>1
    <3>3. up - t.began + Wait + T1 <= hub.budget
      BY <1>1, <3>1, <3>2, FitsMeans
    <3>4. up + Wait \in Nat
      BY <1>1
    <3>5. up' <= up + Wait + First + Wire
      BY <1>1, <2>3, <3>4, ExchangeFacts DEF SendAgain
    <3>6. QED
      BY <1>1, <1>3, <2>1, <3>3, <3>5
  <2>4. CASE SendHeld(reply, d)
    <3>1. up = t.began /\ Wait + T1 <= hub.budget
      BY <2>4 DEF SendHeld, BudgetInv
    <3>2. up + Wait \in Nat
      BY <1>1
    <3>3. up' <= up + Wait + First + Wire
      BY <1>1, <2>4, <3>2, ExchangeFacts DEF SendHeld, Hold
    <3>4. QED
      BY <1>1, <1>3, <2>1, <3>1, <3>3
  <2>5. CASE SendDirect(reply, d)
    <3>1. up' <= up + First + Wire /\ up = t.began
      BY <1>1, <2>5, ExchangeFacts DEF SendDirect, BudgetInv
    <3>2. QED
      BY <1>1, <1>3, <2>1, <3>1
  <2>6. CASE SendRetry(reply, d)
    <3>1. up' <= up + First + Wire /\ up - t.began + T1 <= hub.budget
      BY <1>1, <2>6, ExchangeFacts DEF SendRetry, BudgetInv
    <3>2. QED
      BY <1>1, <1>3, <2>1, <3>1
  <2>7. QED
    BY <2>2, <2>3, <2>4, <2>5, <2>6
<1>5. QED
  BY <1>1, <1>2, <1>3, <1>4 DEF BudgetInv, AnsweredWithinBudget

\* The broadcast is paid from the budget too, and the retry waits for what is
\* left of it.
LEMMA ResyncBudget ==
    ASSUME PatientEnough, TypeInv, BudgetInv, Resync \/ ResyncAgain
    PROVE  BudgetInv'
<1>1. /\ TypeOK /\ up \in Nat /\ hub.budget \in Nat /\ Wrap \in Nat \ {0}
      /\ T1 \in Nat \ {0} /\ Wire \in Nat /\ Guard \in Nat
      /\ t \in TransType /\ t.began \in Nat /\ t.began <= up
  BY Constants DEF TypeInv, TypeOK, TransType, BudgetInv
<1>2. hub' = hub /\ up' = up + Guard /\ t'.began = t.began
  BY <1>1 DEF Resync, ResyncAgain, TransType
<1>3. CASE Resync
  <2>1. /\ t'.phase = "retry" \/ (t'.phase = "report" /\ t'.reply = "none")
        /\ t'.phase = "retry" => RetryFits
        /\ t.phase = "resync"
    BY <1>1, <1>3 DEF Resync, TransType
  <2>2. ASSUME hub.budget # 0, t'.phase = "retry"
        PROVE  up' - t.began + T1 <= hub.budget
    <3>1. hub.budget + Guard < Wrap /\ up - t.began <= hub.budget
      BY <1>1, <2>1, <2>2, BudgetBounds DEF BudgetInv
    <3>2. up' - t.began \in 0..(Wrap - 1)
      BY <1>1, <1>2, <3>1
    <3>3. (up' - t.began) % Wrap = up' - t.began
      BY <1>1, <3>2
    <3>4. QED
      BY <2>1, <2>2, <3>3 DEF RetryFits, Limit
  <2>3. QED
    BY <1>1, <1>2, <2>1, <2>2 DEF BudgetInv, AnsweredWithinBudget
<1>4. CASE ResyncAgain
  <2>1. t.phase = "resync2" /\ t'.phase = "report" /\ t'.reply = t.reply
    BY <1>1, <1>4 DEF ResyncAgain, TransType
  <2>2. t.phase = "resync2" => t.reply # "valid"
    BY DEF BudgetInv
  <2>3. QED
    BY <1>1, <1>2, <2>1, <2>2 DEF BudgetInv, AnsweredWithinBudget
<1>5. QED
  BY <1>3, <1>4

\* The steps that take no time, and what happens between transactions.
LEMMA QuietBudget ==
    ASSUME PatientEnough, TypeInv, BudgetInv,
           \/ GiveUpCrossing \/ Judge \/ Report \/ Broadcast
           \/ \E d \in 1..IdleMax : Idle(d)
           \/ \E c \in HubConfigs : SetHub(c)
           \/ \E on \in BOOLEAN : SetHeal(on)
    PROVE  BudgetInv'
<1>1. up \in Nat /\ t \in TransType /\ t.began \in Nat /\ t.began <= up /\ hub.budget \in Nat
  BY DEF TypeInv, TypeOK, TransType, BudgetInv
<1>2. CASE GiveUpCrossing \/ Judge \/ Report
  <2>1. /\ UNCHANGED <<hub, up>> /\ t'.began = t.began
        /\ \/ t.phase = "again" /\ t'.phase = "judge"
           \/ t.phase = "judge" /\ t'.phase \in {"resync", "report"} /\ t'.reply = t.reply
           \/ t'.phase = "idle"
    BY <1>1, <1>2 DEF GiveUpCrossing, Judge, Report, TransType
  <2>2. QED
    BY <1>1, <2>1 DEF BudgetInv, AnsweredWithinBudget
<1>3. CASE \/ Broadcast
           \/ \E d \in 1..IdleMax : Idle(d)
           \/ \E c \in HubConfigs : SetHub(c)
           \/ \E on \in BOOLEAN : SetHeal(on)
  <2>1. /\ t' = t /\ t.phase = "idle" /\ up' \in Nat /\ up <= up'
        /\ \E c \in HubConfigs : hub' = Applied(c)
    BY <1>1, <1>3, Constants DEF Broadcast, Idle, SetHub, SetHeal, BudgetInv
  <2>2. QED
    BY <1>1, <2>1 DEF BudgetInv, AnsweredWithinBudget
<1>4. QED
  BY <1>2, <1>3

LEMMA BudgetInvariant ==
    ASSUME PatientEnough
    PROVE  Spec => []BudgetInv
<1>1. Init => BudgetInv
  BY DEF Init, BudgetInv, AnsweredWithinBudget
<1>2. TypeInv /\ BudgetInv /\ [Next]_vars => BudgetInv'
  <2> SUFFICES ASSUME TypeInv, BudgetInv, [Next]_vars PROVE BudgetInv'
    OBVIOUS
  <2>1. CASE UNCHANGED vars
    BY <2>1 DEF vars, BudgetInv, AnsweredWithinBudget, Wait, Millis
  <2>2. CASE Next
    BY <2>2, RequestBudget, FrameBudget, ResyncBudget, QuietBudget DEF Next
  <2>3. QED
    BY <2>1, <2>2
<1>3. QED
  BY <1>1, <1>2, TypeInvariant, PTL DEF Spec

\* An answer never comes later than the master is willing to wait, whichever
\* of the hold, the in-line attempts and the healing retry brought it, if a
\* reply fits in rs485.t1_ms and the budget is no smaller than one exchange.
THEOREM AnswersKeepTheBudget ==
    ASSUME PatientEnough
    PROVE  Spec => []AnsweredWithinBudget
<1>1. BudgetInv => AnsweredWithinBudget
  BY DEF BudgetInv
<1>2. QED
  BY <1>1, BudgetInvariant, PTL

(***************************************************************************)
(* Holding.  While half the range of millis() has not passed since the     *)
(* last crossing, the settle clock is right about what has gone by.        *)
(***************************************************************************)

ShortUptime == 2 * Horizon <= Wrap

ReadyInv ==
    /\ readyAt = openBy % Wrap
    /\ up <= Horizon
    /\ t.began <= up

LEMMA ReadyStep == TypeInv /\ ReadyInv /\ [Next]_vars => ReadyInv'
<1> SUFFICES ASSUME TypeInv, ReadyInv, [Next]_vars PROVE ReadyInv'
  OBVIOUS
<1>1. /\ TypeOK /\ up \in Nat /\ t \in TransType /\ t.began \in Nat /\ Wait \in Nat
      /\ up + Wait \in Nat /\ Guard \in Nat
  BY Constants, WaitType DEF TypeInv, TypeOK, TransType
<1>2. CASE UNCHANGED vars
  BY <1>2 DEF vars, ReadyInv
<1>3. ASSUME NEW u \in Units, NEW heal \in BOOLEAN, Request(u, heal) PROVE ReadyInv'
  <2>1. up' = up /\ t'.began = up
    BY <1>3 DEF Request, Begin
  <2>2. \/ UNCHANGED <<readyAt, openBy>>
        \/ readyAt' = TriggerReadyAt /\ openBy' = up + hub.settle + hub.gap
    BY <1>3 DEF Request
  <2>3. QED
    BY <1>1, <2>1, <2>2, TriggerReady DEF ReadyInv
<1>4. ASSUME NEW reply \in Replies, NEW d \in 1..(T1 + Wire),
             \/ SendTrigger(reply, d) \/ SendAgain(reply, d) \/ SendHeld(reply, d)
             \/ SendDirect(reply, d) \/ SendRetry(reply, d)
      PROVE  ReadyInv'
  <2>1. up' \in Nat /\ up < up' /\ up' <= Horizon
    BY <1>1, <1>4, ExchangeFacts, Constants
       DEF SendTrigger, SendAgain, SendHeld, SendDirect, SendRetry, Hold
  <2>2. t'.began = t.began
    BY <1>1, <1>4 DEF SendTrigger, SendAgain, SendHeld, SendDirect, SendRetry, TransType
  <2>3. \/ UNCHANGED <<readyAt, openBy>>
        \/ readyAt' = up' % Wrap /\ openBy' = up'
    BY <1>4 DEF SendTrigger, SendAgain, SendHeld, SendDirect, SendRetry
  <2>4. QED
    BY <1>1, <2>1, <2>2, <2>3 DEF ReadyInv
<1>5. CASE \/ GiveUpCrossing \/ Judge \/ Report \/ Resync \/ ResyncAgain \/ Broadcast
           \/ \E d \in 1..IdleMax : Idle(d)
           \/ \E on \in BOOLEAN : SetHeal(on)
  <2>1. /\ UNCHANGED <<readyAt, openBy>> /\ t'.began = t.began
        /\ up' \in Nat /\ up <= up' /\ (up' = up \/ up' <= Horizon)
    <3>1. CASE GiveUpCrossing \/ Judge \/ Report \/ Broadcast
      <4>1. UNCHANGED <<up, readyAt, openBy>> /\ t'.began = t.began
        BY <1>1, <3>1 DEF GiveUpCrossing, Judge, Report, Broadcast, TransType
      <4>2. QED
        BY <1>1, <4>1
    <3>2. CASE Resync \/ ResyncAgain
      <4>1. /\ UNCHANGED <<readyAt, openBy>> /\ t'.began = t.began
            /\ up' = up + Guard /\ up' <= Horizon
        BY <1>1, <3>2 DEF Resync, ResyncAgain, TransType
      <4>2. QED
        BY <1>1, <4>1
    <3>3. CASE \/ \E d \in 1..IdleMax : Idle(d)
               \/ \E on \in BOOLEAN : SetHeal(on)
      BY <1>1, <3>3, Constants DEF Idle, SetHeal
    <3>4. QED
      BY <1>5, <3>1, <3>2, <3>3
  <2>2. QED
    BY <1>1, <2>1 DEF ReadyInv
<1>6. ASSUME NEW c \in HubConfigs, SetHub(c) PROVE ReadyInv'
  BY <1>6 DEF SetHub, ReadyInv, Millis
<1>7. CASE Next
  <2>1. \/ \E u \in Units, heal \in BOOLEAN : Request(u, heal)
        \/ \E reply \in Replies, d \in 1..(T1 + Wire) :
               \/ SendTrigger(reply, d) \/ SendAgain(reply, d) \/ SendHeld(reply, d)
               \/ SendDirect(reply, d) \/ SendRetry(reply, d)
        \/ \/ GiveUpCrossing \/ Judge \/ Report \/ Resync \/ ResyncAgain \/ Broadcast
           \/ \E d \in 1..IdleMax : Idle(d)
           \/ \E on \in BOOLEAN : SetHeal(on)
        \/ \E c \in HubConfigs : SetHub(c)
    BY <1>7 DEF Next
  <2>2. QED
    BY <2>1, <1>3, <1>4, <1>5, <1>6
<1>8. QED
  BY <1>2, <1>7

LEMMA ReadyInvariant == Spec => []ReadyInv
<1>1. Init => ReadyInv
  BY Constants DEF Init, ReadyInv
<1>2. QED
  BY <1>1, ReadyStep, TypeInvariant, PTL DEF Spec

\* Once the channel is open nothing is left to wait for.
LEMMA NoWaitOnceOpen ==
    ASSUME ShortUptime, TypeOK, ReadyInv, openBy <= up
    PROVE  Wait = 0
<1>1. /\ up \in Nat /\ openBy \in Nat /\ Wrap \in Nat \ {0} /\ 2 * up <= Wrap
      /\ readyAt = openBy % Wrap
  BY Constants DEF TypeOK, ReadyInv, ShortUptime
<1>2. (readyAt - Millis) % Wrap = (openBy - up) % Wrap
  BY <1>1, ModDistance DEF Millis
<1>3. CASE openBy = up
  <2>1. (openBy - up) % Wrap = 0
    BY <1>1, <1>3
  <2>2. QED
    BY <1>1, <1>2, <2>1 DEF Wait
<1>4. CASE openBy < up
  <2>1. (openBy - up) % Wrap = Wrap - (up - openBy)
    BY <1>1, <1>4
  <2>2. ~(2 * (Wrap - (up - openBy)) < Wrap)
    BY <1>1, <1>4
  <2>3. QED
    BY <1>2, <2>1, <2>2 DEF Wait
<1>5. QED
  BY <1>1, <1>3, <1>4

\* In the first 24.8 days of uptime (half the range of millis()) a request is
\* held only while the hub is settling, and fails unsent only then or when its
\* own attempts have used the budget up.
THEOREM HeldOnlyWhileSettling ==
    ASSUME ShortUptime
    PROVE  Spec => HoldOnlyWhileSettling
<1> DEFINE Right == /\ t.phase # "held" /\ t'.phase = "held" => up < openBy
                    /\ cnt'.skip > cnt.skip =>
                           \/ up < openBy
                           \/ t.phase = "again" /\ up - t.began + T1 > hub.budget
<1>1. TypeInv /\ ReadyInv /\ [Next]_vars => [Right]_vars
  <2> SUFFICES ASSUME TypeInv, ReadyInv, Next PROVE Right
    OBVIOUS
  <2>1. /\ TypeOK /\ up \in Nat /\ openBy \in Nat /\ Wait \in Nat /\ t \in TransType
        /\ t.began \in Nat /\ t.began <= up /\ up <= Horizon /\ hub.budget \in Nat
        /\ T1 \in Nat /\ Wrap \in Nat \ {0} /\ Horizon \in Nat /\ cnt \in [Counters -> Nat]
        /\ "skip" \in Counters
    BY Constants, WaitType DEF TypeInv, TypeOK, TransType, ReadyInv, Counters
  <2>2. Wait > 0 => up < openBy
    BY <2>1, NoWaitOnceOpen
  <2>3. ASSUME NEW u \in Units, NEW heal \in BOOLEAN, Request(u, heal) PROVE Right
    <3>1. \/ cnt' = Bump("cross") /\ t'.phase = "trigger"
          \/ cnt' = cnt /\ t'.phase = "direct"
          \/ Wait > 0
      BY <2>3 DEF Request, Begin
    <3>2. Bump("cross").skip = cnt.skip
      BY <2>1 DEF Bump, Counters
    <3>3. QED
      BY <2>1, <2>2, <3>1, <3>2
  <2>4. CASE GiveUpCrossing
    <3>1. t'.phase = "judge"
      BY <2>1, <2>4 DEF GiveUpCrossing, TransType
    <3>2. ASSUME cnt'.skip > cnt.skip, ~(up < openBy)
          PROVE  t.phase = "again" /\ up - t.began + T1 > hub.budget
      <4>1. t.phase = "again" /\ ~Fits(t.began % Wrap)
        <5>1. ~(t.tries < hub.retry) => cnt'.skip = cnt.skip
          BY <2>1, <2>4 DEF GiveUpCrossing, BumpIf
        <5>2. t.tries < hub.retry
          BY <2>1, <3>2, <5>1
        <5>3. t.tries \in Nat /\ hub.retry \in Nat
          BY <2>1 DEF TypeOK, TransType
        <5>4. QED
          BY <2>4, <5>2, <5>3 DEF GiveUpCrossing
      <4>2. Wait = 0
        BY <2>1, <2>2, <3>2
      <4>3. (Millis - (t.began % Wrap)) % Wrap = up - t.began
        <5>1. up - t.began < Wrap
          BY <2>1 DEF ShortUptime
        <5>2. QED
          BY <2>1, <5>1, ModDistance DEF Millis
      <4>4. QED
        BY <2>1, <4>1, <4>2, <4>3 DEF Fits
    <3>3. QED
      BY <3>1, <3>2
  <2>5. CASE \/ \E reply \in Replies, d \in 1..(T1 + Wire) :
                    \/ SendTrigger(reply, d) \/ SendAgain(reply, d) \/ SendHeld(reply, d)
                    \/ SendDirect(reply, d) \/ SendRetry(reply, d)
             \/ Judge \/ Report \/ Resync \/ ResyncAgain \/ Broadcast
             \/ \E d \in 1..IdleMax : Idle(d)
             \/ \E c \in HubConfigs : SetHub(c)
             \/ \E on \in BOOLEAN : SetHeal(on)
    <3>1. t'.phase = "held" => t.phase = "held"
      <4>1. ASSUME NEW reply \in Replies, NEW d \in 1..(T1 + Wire),
                   \/ SendTrigger(reply, d) \/ SendAgain(reply, d) \/ SendHeld(reply, d)
                   \/ SendDirect(reply, d) \/ SendRetry(reply, d)
            PROVE  t'.phase # "held"
        BY <2>1, <4>1 DEF SendTrigger, SendAgain, SendHeld, SendDirect, SendRetry, TransType
      <4>2. CASE Judge \/ Report \/ Resync \/ ResyncAgain
        BY <2>1, <4>2 DEF Judge, Report, Resync, ResyncAgain, TransType
      <4>3. CASE \/ Broadcast
                 \/ \E d \in 1..IdleMax : Idle(d)
                 \/ \E c \in HubConfigs : SetHub(c)
                 \/ \E on \in BOOLEAN : SetHeal(on)
        BY <4>3 DEF Broadcast, Idle, SetHub, SetHeal
      <4>4. QED
        BY <2>5, <4>1, <4>2, <4>3
    <3>2. cnt'.skip = cnt.skip
      <4>1. ASSUME NEW reply \in Replies, NEW d \in 1..(T1 + Wire),
                   \/ SendTrigger(reply, d) \/ SendAgain(reply, d) \/ SendHeld(reply, d)
                   \/ SendDirect(reply, d) \/ SendRetry(reply, d)
            PROVE  cnt'.skip = cnt.skip
        BY <2>1, <4>1
           DEF SendTrigger, SendAgain, SendHeld, SendDirect, SendRetry, Noted, RetryCount,
               Bump, BumpIf, Counters
      <4>2. CASE Judge \/ Report \/ Resync \/ ResyncAgain
        BY <2>1, <4>2 DEF Judge, Report, Resync, ResyncAgain, Noted, Bump, BumpIf, Counters
      <4>3. CASE \/ Broadcast
                 \/ \E d \in 1..IdleMax : Idle(d)
                 \/ \E c \in HubConfigs : SetHub(c)
                 \/ \E on \in BOOLEAN : SetHeal(on)
        BY <4>3 DEF Broadcast, Idle, SetHub, SetHeal
      <4>4. QED
        BY <2>5, <4>1, <4>2, <4>3
    <3>3. cnt.skip \in Nat
      BY <2>1
    <3>4. QED
      BY <3>1, <3>2, <3>3
  <2>6. QED
    BY <2>3, <2>4, <2>5 DEF Next
<1>2. QED
  BY <1>1, TypeInvariant, ReadyInvariant, PTL DEF Spec, HoldOnlyWhileSettling

(***************************************************************************)
(* Healing.                                                                *)
(***************************************************************************)

\* What is known of a healed transaction on its way to the report, whatever
\* the wiring and the timing.
HealInv ==
    /\ t.known => t.unit \in alive
    /\ t.clean => t.phase \notin {"trigger", "again", "held"}
    /\ t.phase = "direct" => up = t.began
    /\ t.phase = "judge" /\ t.clean => t.healable
    /\ t.phase \in {"judge", "resync"} /\ t.clean => up - t.began <= First + Wire
    /\ UnansweredLeavesInPhase

\* A module nobody can reach a broadcast with is on a channel that is not open.
LEMMA BroadcastReaches ==
    ASSUME TypeOK, NEW ch, BroadcastAt(ch, up), NEW y \in deaf'
    PROVE  y \in deaf /\ Chan[y] # 0 /\ (Chan[y] # bus.ch \/ up < bus.openAt)
<1>1. /\ up \in Nat /\ bus \in [ch : Nat, openAt : Nat] /\ y \in deaf /\ y \in Units
      /\ y \notin Hearers(0, up)
  BY DEF TypeOK, BroadcastAt
<1>2. QED
  BY <1>1 DEF Hearers

LEMMA HealStep == TypeInv /\ HealInv /\ [Next]_vars => HealInv'
<1> SUFFICES ASSUME TypeInv, HealInv, [Next]_vars PROVE HealInv'
  OBVIOUS
<1>1. /\ TypeOK /\ up \in Nat /\ t \in TransType /\ t.began \in Nat /\ alive \subseteq Units
      /\ First \in Nat \ {0} /\ Wire \in Nat /\ Guard \in Nat /\ deaf \subseteq Units
      /\ Wait \in Nat /\ up + Wait \in Nat
  BY Constants, WaitType DEF TypeInv, TypeOK, TransType
<1>2. CASE UNCHANGED vars
  BY <1>2 DEF vars, HealInv, UnansweredLeavesInPhase
<1>3. ASSUME NEW u \in Units, NEW heal \in BOOLEAN, Request(u, heal) PROVE HealInv'
  <2>1. /\ t'.unit = u /\ t'.began = up /\ up' = up /\ alive' = alive
        /\ t'.known = (u \in alive) /\ t'.clean = (t'.phase = "direct")
        /\ t'.phase \in {"direct", "trigger", "held", "judge"}
    BY <1>3 DEF Request, Begin
  <2>2. QED
    BY <1>1, <2>1 DEF HealInv, UnansweredLeavesInPhase
<1>4. ASSUME NEW reply \in Replies, NEW d \in 1..(T1 + Wire),
             \/ SendTrigger(reply, d) \/ SendAgain(reply, d) \/ SendHeld(reply, d)
             \/ SendDirect(reply, d) \/ SendRetry(reply, d)
      PROVE  HealInv'
  <2>1. /\ t'.unit = t.unit /\ t'.began = t.began /\ t'.clean = t.clean
        /\ t'.known = t.known /\ t'.heal = t.heal /\ t'.reply = reply
        /\ \/ t.phase \in {"trigger", "again", "held"} /\ t'.phase \in {"again", "judge"}
           \/ SendDirect(reply, d) /\ t'.phase = "judge" /\ t'.healable
           \/ t.phase = "retry" /\ t'.phase = "report" /\ reply = "valid"
           \/ t.phase = "retry" /\ t'.phase = "resync2"
    <3>1. CASE SendTrigger(reply, d) \/ SendAgain(reply, d) \/ SendHeld(reply, d)
      BY <1>1, <3>1 DEF SendTrigger, SendAgain, SendHeld, TransType
    <3>2. CASE SendDirect(reply, d)
      BY <1>1, <3>2 DEF SendDirect, TransType
    <3>3. CASE SendRetry(reply, d)
      BY <1>1, <3>3 DEF SendRetry, TransType
    <3>4. QED
      BY <1>4, <3>1, <3>2, <3>3
  <2>2. alive \subseteq alive'
    BY <1>4 DEF SendTrigger, SendAgain, SendHeld, SendDirect, SendRetry, NowAlive
  <2>3. SendDirect(reply, d) => up' - t.began <= First + Wire
    <3>1. SendDirect(reply, d) => up' <= up + First + Wire /\ up' \in Nat /\ up = t.began
      BY <1>1, ExchangeFacts DEF SendDirect, HealInv
    <3>2. QED
      BY <1>1, <3>1
  <2>4. QED
    BY <1>1, <2>1, <2>2, <2>3 DEF HealInv, UnansweredLeavesInPhase
<1>5. CASE GiveUpCrossing \/ Report
  <2>1. /\ UNCHANGED <<up, alive>> /\ t'.unit = t.unit /\ t'.began = t.began
        /\ t'.clean = t.clean /\ t'.known = t.known
        /\ \/ t.phase = "again" /\ t'.phase = "judge"
           \/ t'.phase = "idle"
    BY <1>1, <1>5 DEF GiveUpCrossing, Report, TransType
  <2>2. QED
    BY <1>1, <2>1 DEF HealInv, UnansweredLeavesInPhase
<1>6. CASE Judge
  <2>1. /\ up' = up /\ healOn' = healOn /\ alive \subseteq alive'
        /\ t'.unit = t.unit /\ t'.began = t.began /\ t'.heal = t.heal
        /\ t'.clean = t.clean /\ t'.known = t.known /\ t'.reply = t.reply
        /\ t.phase = "judge" /\ t'.phase = IF NeedsHeal THEN "resync" ELSE "report"
    BY <1>1, <1>6 DEF Judge, TransType, NowAlive
  <2>2. t'.phase = "report" /\ t.heal /\ healOn /\ t.clean => t.reply = "valid"
    BY <1>1, <2>1 DEF HealInv, NeedsHeal
  <2>3. QED
    BY <1>1, <2>1, <2>2 DEF HealInv, UnansweredLeavesInPhase
<1>7. CASE Resync \/ ResyncAgain
  <2>1. /\ BroadcastAt(Chan[t.unit], up) /\ up' = up + Guard /\ bus' = bus /\ alive' = alive
        /\ t'.unit = t.unit /\ t'.known = t.known
        /\ t'.phase \in {"retry", "report"}
    BY <1>1, <1>7 DEF Resync, ResyncAgain, TransType
  <2>2. UnansweredLeavesInPhase'
    <3>1. up' - Guard = up
      BY <1>1, <2>1
    <3>2. \A y \in deaf' : Chan[y] # 0 /\ (Chan[y] # bus.ch \/ up < bus.openAt)
      BY <1>1, <2>1, BroadcastReaches
    <3>3. QED
      BY <2>1, <3>1, <3>2 DEF UnansweredLeavesInPhase
  <2>3. QED
    BY <1>1, <2>1, <2>2 DEF HealInv
<1>8. CASE \/ Broadcast
           \/ \E d \in 1..IdleMax : Idle(d)
           \/ \E c \in HubConfigs : SetHub(c)
           \/ \E on \in BOOLEAN : SetHeal(on)
  <2>1. t' = t /\ t.phase = "idle" /\ alive' = alive
    BY <1>8 DEF Broadcast, Idle, SetHub, SetHeal
  <2>2. QED
    BY <2>1 DEF HealInv, UnansweredLeavesInPhase
<1>9. CASE Next
  BY <1>9, <1>3, <1>4, <1>5, <1>6, <1>7, <1>8 DEF Next
<1>10. QED
  BY <1>2, <1>9

LEMMA HealInvariant == Spec => []HealInv
<1>1. Init => HealInv
  BY DEF Init, HealInv, UnansweredLeavesInPhase
<1>2. QED
  BY <1>1, HealStep, TypeInvariant, PTL DEF Spec

\* A healed request on an open channel that nobody answered leaves every module
\* its last broadcast could reach in phase, whatever happened on the bus before.
THEOREM UnansweredCostsNothing == Spec => []UnansweredLeavesInPhase
<1>1. HealInv => UnansweredLeavesInPhase
  BY DEF HealInv
<1>2. QED
  BY <1>1, HealInvariant, PTL

\* The module that is asked again has heard the broadcast; from then on only a
\* stall of its own can keep it silent.
RecoverInv ==
    /\ t.phase = "retry" => t.unit \notin deaf
    /\ t.phase = "resync2" /\ t.reply = "none" => t.stalled
    /\ HealRecovers

LEMMA RecoverStep ==
    ASSUME TypeInv, SettleInv, ReadyInv, HealInv, RecoverInv, [Next]_vars
    PROVE  RecoverInv'
<1>1. /\ TypeOK /\ up \in Nat /\ openBy \in Nat /\ t \in TransType /\ t.began \in Nat
      /\ t.unit \in Units /\ Chan[t.unit] \in Nat /\ hub.budget \in Nat /\ RetryBudget \in Nat
      /\ First \in Nat \ {0} /\ Wire \in Nat /\ Guard \in Nat /\ T1 \in Nat /\ Wrap \in Nat \ {0}
      /\ deaf \subseteq Units /\ bus \in [ch : Nat, openAt : Nat]
  BY Constants DEF TypeInv, TypeOK, TransType
<1>2. CASE UNCHANGED vars
  BY <1>2 DEF vars, RecoverInv, HealRecovers, Limit
<1>3. ASSUME NEW u \in Units, NEW heal \in BOOLEAN, Request(u, heal) PROVE RecoverInv'
  BY <1>3 DEF Request, Begin, RecoverInv, HealRecovers
<1>4. ASSUME NEW reply \in Replies, NEW d \in 1..(T1 + Wire),
             \/ SendTrigger(reply, d) \/ SendAgain(reply, d) \/ SendHeld(reply, d)
             \/ SendDirect(reply, d)
      PROVE  RecoverInv'
  <2>1. t'.phase \in {"again", "judge"}
    BY <1>1, <1>4 DEF SendTrigger, SendAgain, SendHeld, SendDirect, TransType
  <2>2. QED
    BY <2>1 DEF RecoverInv, HealRecovers
<1>5. ASSUME NEW reply \in Replies, NEW d \in 1..(T1 + Wire), SendRetry(reply, d)
      PROVE  RecoverInv'
  <2>1. /\ t'.reply = reply /\ t'.stalled = Stalled(reply) /\ t.unit \notin deaf
        /\ t'.phase = IF reply = "valid" THEN "report" ELSE "resync2"
    BY <1>1, <1>5 DEF SendRetry, TransType, RecoverInv
  <2>2. reply = "none" => t'.stalled
    BY <2>1 DEF Stalled
  <2>3. QED
    BY <2>1, <2>2 DEF RecoverInv, HealRecovers
<1>6. CASE GiveUpCrossing \/ Report
  <2>1. t'.phase \in {"judge", "idle"}
    BY <1>1, <1>6 DEF GiveUpCrossing, Report, TransType
  <2>2. QED
    BY <2>1 DEF RecoverInv, HealRecovers
<1>7. CASE Judge
  <2>1. /\ healOn' = healOn /\ t'.heal = t.heal /\ t'.clean = t.clean /\ t'.reply = t.reply
        /\ t.phase = "judge" /\ t'.phase = IF NeedsHeal THEN "resync" ELSE "report"
    BY <1>1, <1>7 DEF Judge, TransType
  <2>2. t'.phase = "report" /\ t.heal /\ healOn /\ t.clean => t.reply = "valid"
    BY <1>1, <2>1 DEF HealInv, NeedsHeal
  <2>3. QED
    BY <2>1, <2>2 DEF RecoverInv, HealRecovers
<1>8. CASE Resync
  <2>1. /\ BroadcastAt(Chan[t.unit], up) /\ up' = up + Guard
        /\ t.phase = "resync" /\ t'.unit = t.unit /\ t'.known = t.known /\ t'.clean = t.clean
        /\ hub' = hub
        /\ \/ t'.phase = "retry"
           \/ t'.phase = "report" /\ ~(t.unit \in alive /\ RetryFits)
    BY <1>1, <1>8 DEF Resync, TransType
  <2>2. t'.unit \notin deaf'
    <3>1. Chan[t.unit] # 0 => Chan[t.unit] = bus.ch /\ bus.openAt <= up
      BY <1>1, <2>1 DEF SettleInv, OpenPhases
    <3>2. QED
      BY <1>1, <2>1, <3>1, BroadcastReaches
  <2>3. ASSUME t'.phase = "report", t.known, t.clean, First + Wire + Guard + T1 <= Limit
        PROVE  FALSE
    <3>1. t.unit \in alive /\ up - t.began <= First + Wire
      BY <1>1, <2>1, <2>3 DEF HealInv
    <3>2. (up' - t.began) % Wrap <= up' - t.began
      <4>1. up' - t.began \in Nat
        BY <1>1, <2>1 DEF ReadyInv
      <4>2. QED
        BY <4>1, <1>1, ModBelow
    <3>3. Limit \in Nat /\ (up' - t.began) % Wrap \in Nat
      BY <1>1, <2>1, ModType DEF Limit
    <3>4. RetryFits
      BY <1>1, <2>1, <2>3, <3>1, <3>2, <3>3 DEF RetryFits
    <3>5. QED
      BY <2>1, <2>3, <3>1, <3>4
  <2>4. QED
    BY <2>1, <2>2, <2>3 DEF RecoverInv, HealRecovers, Limit
<1>9. CASE ResyncAgain
  <2>1. /\ t.phase = "resync2" /\ t'.phase = "report" /\ t'.reply = t.reply
        /\ t'.stalled = t.stalled
    BY <1>1, <1>9 DEF ResyncAgain, TransType
  <2>2. QED
    BY <2>1 DEF RecoverInv, HealRecovers
<1>10. CASE \/ Broadcast
            \/ \E d \in 1..IdleMax : Idle(d)
            \/ \E c \in HubConfigs : SetHub(c)
            \/ \E on \in BOOLEAN : SetHeal(on)
  <2>1. t' = t /\ t.phase = "idle"
    BY <1>10 DEF Broadcast, Idle, SetHub, SetHeal
  <2>2. QED
    BY <2>1 DEF RecoverInv, HealRecovers
<1>11. CASE Next
  BY <1>11, <1>3, <1>4, <1>5, <1>6, <1>7, <1>8, <1>9, <1>10 DEF Next
<1>12. QED
  BY <1>2, <1>11

\* The healing recovers a module that another caller left out of phase: asked
\* on an open channel, a module that has answered before and does not stall is
\* answered whenever the patience in force has room for the retry.
THEOREM HealingRecovers ==
    ASSUME SettleCovers
    PROVE  Spec => []HealRecovers
<1>1. Init => RecoverInv
  BY DEF Init, RecoverInv, HealRecovers
<1>2. TypeInv /\ SettleInv /\ ReadyInv /\ HealInv /\ RecoverInv /\ [Next]_vars => RecoverInv'
  BY RecoverStep
<1>3. RecoverInv => HealRecovers
  BY DEF RecoverInv
<1>4. QED
  BY <1>1, <1>2, <1>3, TypeInvariant, SettleInvariant, ReadyInvariant, HealInvariant, PTL DEF Spec
=============================================================================
