------------------------------- MODULE Clock -------------------------------
(***************************************************************************)
(* The wall clock, what it drives and what sets it: the scheduled reset    *)
(* (src/src/sched.cpp), the SNTP client (src/src/ntp.cpp), the link it     *)
(* waits for (src/src/net_runtime.cpp) and the marker in the backup domain *)
(* that says the RTC means something (src/src/gw_status.cpp).              *)
(*                                                                         *)
(* Time is counted in minutes, the resolution of a schedule.  A pass of    *)
(* loop() is four steps here, one per handler that matters, with the world *)
(* free to move between any two of them; a minute does not end before a    *)
(* pass has looked at it, because the watchdog (30 s at most) ends a loop  *)
(* that hangs for longer.  The 250 ms and 500 ms gates of the two polls    *)
(* are kept as: the first look of a minute is never gated, a later one may *)
(* be.  An NTP query is answered or given up within 2 s, so before the     *)
(* minute is over.                                                         *)
(***************************************************************************)
EXTENDS Integers

CONSTANTS
    Slots,       \* schedule slots (GW_SCHED_SLOTS)
    DayLength,   \* minutes of a day
    Week,        \* days of a week
    Year,        \* days of a year
    Floor,       \* CLOCK_FLOOR_EPOCH
    Ceiling,     \* CLOCK_CEIL_EPOCH
    Top,         \* the last reading the RTC is followed to
    Times,       \* the readings the TIME verb or an NTP server hands over
    Configs,     \* the configurations a SAVE can apply
    Retry,       \* NTP_RETRY_MS, in minutes
    Resync,      \* NTP_RESYNC_MS, in minutes
    Mishaps      \* bound on SAVEs, TIMEs, resets, cuts and failures together

ASSUME ClockAssumption ==
    /\ DayLength \in Nat \ {0} /\ Week \in Nat \ {0} /\ Year \in Nat \ {0}
    /\ Floor \in Nat /\ Ceiling \in Nat /\ Top \in Nat
    /\ 0 < Floor /\ Floor < Ceiling /\ Ceiling <= Top
    /\ Top < Year * DayLength
    /\ Times \subseteq 1..Top
    /\ \A c \in Configs :
          /\ c.armed \subseteq Slots
          /\ c.hhmm \in [Slots -> 0..(DayLength - 1)]
          /\ c.days \subseteq 0..(Week - 1)
          /\ c.enabled \in BOOLEAN /\ c.server \in BOOLEAN /\ c.net \in BOOLEAN
          /\ c.server => c.net          \* gwConfig_validateStaged()
    /\ Retry \in Nat \ {0} /\ Resync \in Nat /\ Retry <= Resync
    /\ Mishaps \in Nat

\* defaults(): nothing scheduled, no server; the LAN itself is on
Defaults == [days |-> {}, server |-> FALSE, enabled |-> FALSE, armed |-> {},
             hhmm |-> [s \in Slots |-> 0], net |-> TRUE]
AllConfigs == Configs \cup {Defaults}

VARIABLES
    at,        \* the handler of loop() that runs next
    looked,    \* the polls that have looked at the present minute
    wall,      \* what time() reads, in minutes
    sane,      \* observer: the RTC has been given wall time and kept it
    flashed,   \* observer: new firmware has come since the clock was set
    mark,      \* BKP_REG_CLOCK
    timeSet,   \* _timeSet
    fired,     \* _firedStamp
    lastFire,  \* _lastFire
    whole,     \* observer: nothing has touched clock or schedule this minute
    firings,   \* observer: firings since the minute began or was disturbed
    active,    \* the configuration in force
    stored,    \* the configuration in the store
    net,       \* NetState
    cable,     \* Ethernet.linkStatus()
    ntp,       \* NtpState
    socket,    \* _udp
    waiting,   \* _waiting
    due,       \* minutes until _nextAttemptMs
    query,     \* what has become of the query that is out
    mishaps    \* what is left of the bound

vars == <<at, looked, wall, sane, flashed, mark, timeSet, fired, lastFire,
          whole, firings, active, stored, net, cable, ntp, socket, waiting, due, query, mishaps>>
rtcVars == <<wall, sane, flashed, mark, timeSet>>
schedVars == <<fired, lastFire, whole, firings>>
cfgVars == <<active, stored>>
linkVars == <<net, cable>>
ntpVars == <<ntp, socket, waiting, due, query>>

None == -1                            \* 0xFFFFFFFF, and "has not fired"
Handlers == {"console", "net", "ntp", "sched"}
NetStates == {"disabled", "safe", "nolink", "up"}
NtpStates == {"off", "waiting_link", "syncing", "ok", "failed"}
NoQuery == "none"
Fates == {NoQuery, "asked", "answered", "refused", "lost"}
NoFirings == [s \in Slots |-> None]

Min(a, b) == IF a < b THEN a ELSE b
Mishap == mishaps > 0 /\ mishaps' = mishaps - 1
-----------------------------------------------------------------------------
(* The schedule *)

Day(w) == w \div DayLength
MinuteOfDay(w) == w % DayLength
\* Seeded fault: the stamp of a firing without its day
StampOfMinute(w) == MinuteOfDay(w)
Stamp(w) == (Day(w) % Year) * DayLength + MinuteOfDay(w)

Today(c, w) == c.days = {} \/ Day(w) % Week \in c.days
Named(c, w) == {s \in c.armed : c.hhmm[s] = MinuteOfDay(w)}
DueAt(c, w) == c.enabled /\ Today(c, w) /\ Named(c, w) # {}
Schedule(c) == [days |-> c.days, enabled |-> c.enabled, armed |-> c.armed,
                hhmm |-> c.hhmm]

\* Seeded fault: the marker in the backup domain is forgotten
SetTimeUnmarked(t) ==
    /\ wall' = t /\ sane' = TRUE /\ flashed' = FALSE /\ timeSet' = TRUE
    /\ fired' = NoFirings /\ whole' = FALSE /\ firings' = 0
    /\ UNCHANGED <<mark, lastFire>>

\* sched_setTime(): the clock moves, is believed, and forgets what it fired
SetTime(t) ==
    /\ wall' = t
    /\ sane' = TRUE /\ flashed' = FALSE
    /\ timeSet' = TRUE
    /\ mark' = TRUE
    /\ fired' = NoFirings
    /\ whole' = FALSE /\ firings' = 0
    /\ UNCHANGED lastFire

\* The slots that name this minute and have not been served in it
Unserved == {s \in Named(active, wall) : fired[s] # Stamp(wall)}

\* sched_update()
SchedUpdate ==
    /\ at = "sched"
    /\ at' = "console"
    /\ looked' = looked \cup {"sched"}
    /\ \/ /\ "sched" \in looked                       \* within the 250 ms
          /\ UNCHANGED schedVars
       \/ /\ LET serve == IF timeSet /\ DueAt(active, wall) THEN Unserved ELSE {}
             IN  /\ fired' = [s \in Slots |->
                                 IF s \in serve THEN Stamp(wall) ELSE fired[s]]
                 /\ lastFire' = IF serve # {} THEN wall ELSE lastFire
                 /\ firings' = IF serve # {} THEN Min(firings + 1, 2) ELSE firings
          /\ UNCHANGED whole
    /\ UNCHANGED <<rtcVars, cfgVars, linkVars, ntpVars, mishaps>>
-----------------------------------------------------------------------------
(* The link and the SNTP client *)

\* netRuntime_update(); startServer() kicks the SNTP client
NetUpdate ==
    /\ at = "net"
    /\ at' = "ntp"
    /\ looked' = looked \cup {"net"}
    /\ \/ /\ "net" \in looked \/ net \in {"disabled", "safe"}  \* within the 500 ms
          /\ UNCHANGED <<net, due>>
       \/ /\ net = "nolink" /\ cable
          /\ net' = "up" /\ due' = 0
       \/ /\ net = "up" /\ ~cable
          /\ net' = "nolink" /\ UNCHANGED due
       \/ /\ net \in {"up", "nolink"} /\ cable = (net = "up")
          /\ UNCHANGED <<net, due>>
    /\ UNCHANGED <<rtcVars, schedVars, cfgVars, cable, ntp, socket, waiting,
                   query, mishaps>>

CloseQuery == socket' = FALSE /\ waiting' = FALSE /\ query' = NoQuery
FailQuery == CloseQuery /\ ntp' = "failed" /\ due' = Retry

\* Seeded fault: a server taken out while it is asked leaves the socket open
NtpIdleOpen ==
    /\ ~active.server \/ net # "up"
    /\ IF waiting /\ active.server THEN CloseQuery
                                  ELSE UNCHANGED <<socket, waiting, query>>
    /\ ntp' = IF ~active.server THEN "off" ELSE "waiting_link"
    /\ UNCHANGED <<due, rtcVars, schedVars, mishaps>>

\* net.ntp is 0, or there is no link to ask over
NtpIdle ==
    /\ ~active.server \/ net # "up"
    /\ IF waiting THEN CloseQuery ELSE UNCHANGED <<socket, waiting, query>>
    /\ ntp' = IF ~active.server THEN "off" ELSE "waiting_link"
    /\ UNCHANGED <<due, rtcVars, schedVars, mishaps>>

NtpAnswered ==
    /\ waiting /\ query = "answered"
    /\ CloseQuery
    /\ \E t \in Times : SetTime(t)
    /\ ntp' = "ok"
    /\ due' = Resync
    /\ UNCHANGED mishaps

\* Seeded fault: no deadline, so an answer that is lost is waited for
NtpFailedNoDeadline ==
    /\ waiting /\ query \in {"refused", "lost"}
    /\ IF query = "refused" THEN FailQuery ELSE UNCHANGED ntpVars
    /\ UNCHANGED <<rtcVars, schedVars, mishaps>>

\* An answer that is no wall time, or none before the deadline
NtpFailed ==
    /\ waiting /\ query \in {"refused", "lost"}
    /\ FailQuery
    /\ UNCHANGED <<rtcVars, schedVars, mishaps>>

NtpQuiet ==
    /\ IF waiting THEN query = "asked" ELSE due > 0
    /\ UNCHANGED <<ntpVars, rtcVars, schedVars, mishaps>>

\* A query goes out, or the socket or the send is refused
NtpLaunch ==
    /\ ~waiting /\ due = 0
    /\ \/ /\ socket' = TRUE /\ waiting' = TRUE /\ query' = "asked"
          /\ ntp' = "syncing"
          /\ UNCHANGED <<due, mishaps>>
       \/ Mishap /\ FailQuery
    /\ UNCHANGED <<rtcVars, schedVars>>

\* ntp_update()
NtpUpdate ==
    /\ at = "ntp"
    /\ at' = "sched"
    /\ \/ NtpIdle
       \/ /\ active.server /\ net = "up"
          /\ NtpAnswered \/ NtpFailed \/ NtpQuiet \/ NtpLaunch
    /\ UNCHANGED <<looked, cfgVars, linkVars>>
-----------------------------------------------------------------------------
(* The console *)

ConsoleQuiet ==
    /\ at = "console"
    /\ at' = "net"
    /\ UNCHANGED <<looked, rtcVars, schedVars, cfgVars, linkVars, ntpVars, mishaps>>

\* doTime()
Time(t) ==
    /\ at = "console"
    /\ at' = "net"
    /\ Mishap
    /\ SetTime(t)
    /\ UNCHANGED <<looked, cfgVars, linkVars, ntpVars>>

\* SAVE: gwConfig_commit() and gwConfig_applyLive(), which also kicks SNTP
Save(c) ==
    /\ at = "console"
    /\ at' = "net"
    /\ Mishap
    /\ active' = c /\ stored' = c
    /\ due' = 0
    /\ whole' = (whole /\ Schedule(c) = Schedule(active))
    /\ firings' = IF whole' THEN firings ELSE 0
    /\ UNCHANGED <<looked, rtcVars, fired, lastFire, linkVars, ntp, socket,
                   waiting, query>>
-----------------------------------------------------------------------------
(* Boots *)

Trusted == Floor..(Ceiling - 1)
\* Seeded fault: no ceiling, so a register full of ones is believed
BelievedAboveFloor(w, m) == m /\ w >= Floor
Believed(w, m) == m /\ w \in Trusted

\* setup() with the RTC reading w, the marker m: gwConfig_begin() with the
\* stored configuration or the defaults, sched_begin(), netRuntime_begin()
Boot(w, m) ==
    /\ wall' = w
    /\ timeSet' = Believed(w, m)
    /\ mark' = Believed(w, m)
    /\ fired' = NoFirings /\ lastFire' = None
    /\ whole' = FALSE /\ firings' = 0
    /\ at' = "console" /\ looked' = {}
    /\ ntp' = "off" /\ socket' = FALSE /\ waiting' = FALSE /\ query' = NoQuery
    /\ due' = 0
    /\ \E c \in {stored, Defaults}, safe \in BOOLEAN :
          /\ safe => c = Defaults
          /\ active' = c
          /\ net' \in IF safe THEN {"safe"}
                      ELSE IF ~c.net THEN {"disabled"}
                      ELSE IF cable THEN {"up", "nolink"}    \* or DHCP failed
                      ELSE {"nolink"}
    /\ UNCHANGED <<stored, cable>>

\* A watchdog or software reset: the backup domain does not notice
Reset == Mishap /\ Boot(wall, mark) /\ UNCHANGED <<sane, flashed>>
\* APPLY of new gateway firmware: its length takes the marker's register, and
\* the reset comes within the same second
NewFirmware == Mishap /\ Boot(wall, FALSE) /\ flashed' = TRUE /\ UNCHANGED sane
\* The power goes: the RTC starts again from nothing
PowerCut == Mishap /\ Boot(0, FALSE) /\ sane' = FALSE /\ UNCHANGED flashed
\* The backup domain browns out: its registers stay, the RTC reads nonsense
BrownOut ==
    /\ Mishap
    /\ \E w \in {0, Top} : Boot(w, mark)
    /\ sane' = FALSE /\ UNCHANGED flashed
-----------------------------------------------------------------------------
(* The world *)

\* The next minute
Tick ==
    /\ looked = {"net", "sched"}
    /\ query # "asked"
    /\ wall' = Min(wall + 1, Top)
    /\ looked' = {}
    /\ whole' = (IF wall < Top THEN TRUE ELSE whole)
    /\ firings' = IF wall < Top THEN 0 ELSE firings
    /\ due' = IF due > 0 THEN due - 1 ELSE 0
    /\ UNCHANGED <<at, sane, flashed, mark, timeSet, fired, lastFire, cfgVars,
                   linkVars, ntp, socket, waiting, query, mishaps>>

Fate(f) ==
    /\ query = "asked"
    /\ query' = f
    /\ IF f = "answered" THEN UNCHANGED mishaps ELSE Mishap
    /\ UNCHANGED <<at, looked, rtcVars, schedVars, cfgVars, linkVars, ntp,
                   socket, waiting, due>>

Unplug ==
    /\ cable /\ cable' = FALSE
    /\ Mishap
    /\ UNCHANGED <<at, looked, rtcVars, schedVars, cfgVars, net, ntpVars>>

Plug ==
    /\ ~cable /\ cable' = TRUE
    /\ UNCHANGED <<at, looked, rtcVars, schedVars, cfgVars, net, ntpVars, mishaps>>
-----------------------------------------------------------------------------
Init ==
    /\ at = "console" /\ looked = {}
    /\ wall = 0 /\ sane = FALSE /\ flashed = FALSE
    /\ mark = FALSE /\ timeSet = FALSE
    /\ fired = NoFirings /\ lastFire = None /\ whole = FALSE /\ firings = 0
    /\ active \in AllConfigs /\ stored = active
    /\ cable \in BOOLEAN
    /\ net \in IF ~active.net THEN {"disabled"}
               ELSE IF cable THEN {"up", "nolink"} ELSE {"nolink"}
    /\ ntp = "off" /\ socket = FALSE /\ waiting = FALSE /\ due = 0
    /\ query = NoQuery
    /\ mishaps = Mishaps

Console == ConsoleQuiet \/ (\E t \in Times : Time(t)) \/ (\E c \in Configs : Save(c))
World == Tick \/ Unplug \/ Plug \/ \E f \in Fates \ {NoQuery, "asked"} : Fate(f)

Next ==
    \/ Console
    \/ NetUpdate
    \/ NtpUpdate
    \/ SchedUpdate
    \/ Reset
    \/ NewFirmware
    \/ PowerCut
    \/ BrownOut
    \/ World

Spec == Init /\ [][Next]_vars

\* loop() goes round, time passes, a cable that was pulled is put back, and a
\* server that is asked answers unless that answer is one of the Mishaps
Fairness ==
    /\ WF_vars(ConsoleQuiet) /\ WF_vars(NetUpdate)
    /\ WF_vars(NtpUpdate) /\ WF_vars(SchedUpdate)
    /\ WF_vars(Tick) /\ WF_vars(Plug) /\ WF_vars(Fate("answered"))
FairSpec == Spec /\ Fairness
-----------------------------------------------------------------------------
(* Properties *)

\* Every variable holds a value of its kind; a query is out exactly while
\* ntp_update() waits for its answer (sched.cpp, ntp.cpp, static state).
TypeOK ==
    /\ at \in Handlers /\ looked \subseteq {"net", "sched"}
    /\ wall \in 0..Top
    /\ sane \in BOOLEAN /\ flashed \in BOOLEAN
    /\ mark \in BOOLEAN /\ timeSet \in BOOLEAN
    /\ fired \in [Slots -> {None} \cup 0..Top]
    /\ lastFire \in {None} \cup 0..Top
    /\ whole \in BOOLEAN /\ firings \in 0..2
    /\ active \in AllConfigs /\ stored \in AllConfigs
    /\ net \in NetStates /\ cable \in BOOLEAN
    /\ ntp \in NtpStates
    /\ socket \in BOOLEAN /\ waiting = (query # NoQuery)
    /\ due \in 0..Resync
    /\ query \in Fates
    /\ mishaps \in 0..Mishaps

\* The clock is believed only while the RTC carries wall time somebody gave
\* it: whatever order of resets, power cuts and brown-outs came before, the
\* marker in the backup domain never makes sched_begin() believe a reading
\* that means nothing.
TrustedClockIsReal == timeSet => sane

\* The other way round: a reset does not cost the schedule a working clock.
\* While the RTC carries wall time within sched_begin()'s range, nothing but the
\* installation of new firmware makes the gateway forget that it does.
WorkingClockKept ==
    [][timeSet /\ wall \in Trusted /\ sane' /\ ~flashed' => timeSet']_vars

\* A minute in which nobody moves the clock, restarts the gateway or edits the
\* schedule is served exactly once if the schedule names it, and not at all
\* otherwise: two slots on one minute are one power cut, a SAVE of other keys
\* is no second one, and yesterday's firing does not stand for today's.
ServedOnce ==
    whole /\ "sched" \in looked =>
        firings = IF timeSet /\ DueAt(active, wall) THEN 1 ELSE 0

\* sched.cpp:54-56 of a clock that has just moved: it must not re-fire a minute
\* it already served.
Fires == at = "sched" /\ at' = "console" /\ fired' # fired /\ lastFire' = wall
NoRefire == [][Fires => lastFire # wall]_vars

\* The SNTP socket, one of lwIP's four, is held only while a query is out and
\* can still be answered: ntp_update() never returns with a socket it does not
\* wait on, or with one while the link is down or the server was taken out.
SocketOnlyForQuery ==
    /\ socket = waiting
    /\ at = "sched" /\ socket => active.server /\ net = "up"

\* A gateway with a server configured and the LAN in use gets its clock back
\* after a power cut with nobody's help, whatever was lost on the way.
ClockRecovers ==
    (active.server /\ net \in {"up", "nolink"})
        ~> (timeSet \/ ~active.server \/ net \in {"safe", "disabled"})
=============================================================================
