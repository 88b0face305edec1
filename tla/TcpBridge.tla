----------------------------- MODULE TcpBridge -----------------------------
(***************************************************************************)
(* The gateway on the network, with its settings: the listener that        *)
(* follows link and port (src/src/net_runtime.cpp), the client slots       *)
(* (src/src/tcp_bridge.cpp), and the console tunnelled through them, one   *)
(* buffer of answers for all (src/src/gw_remote.cpp, EXEC and READ).  The  *)
(* console on the USB port runs the same commands.                         *)
(*                                                                         *)
(* tcpBridge_update() is cut into its parts, accept and one request of a   *)
(* slot: a pass that does several is as many steps.  Requests for the bus  *)
(* change nothing here (module RtuHub), nor do READ and what the tunnel    *)
(* refuses.                                                                *)
(***************************************************************************)
EXTENDS Settings

CONSTANTS
    Slots,       \* TCP_CLIENT_SLOTS
    Conns,       \* connections; one that has ended may come again
    PortOf,      \* net.port of a configuration
    NetOn,       \* configurations with net.enabled
    ConsoleOn    \* ... and with net.console

ASSUME BridgeAssumption ==
    /\ Slots \subseteq Nat /\ Slots # {} /\ Conns \subseteq Nat
    /\ None \notin Slots \cup Conns
    /\ \A c \in Cfgs : PortOf[c] # None
    /\ NetOn \subseteq Cfgs /\ ConsoleOn \subseteq Cfgs

VARIABLES
    net,       \* _state of net_runtime
    port,      \* _listenPort
    listen,    \* the port the server listens on
    waiting,   \* connections it has not handed over yet
    slot,      \* _client: the connection in each slot
    peer,      \* the other end of each connection
    owner      \* _ownerSlot

\* History
VARIABLES
    via,       \* the port each connection came in by
    asked,     \* connections that have run an EXEC
    outOf      \* the connection, while there, whose EXEC filled the buffer

clients == <<waiting, slot, peer, via, asked, outOf>>
tcp == <<net, port, listen, waiting, slot, peer, owner, via, asked, outOf>>
vars == <<settings, tcp>>

Empty == [s \in Slots |-> None]
Served == {slot[s] : s \in Slots} \ {None}
NoPort == [c \in Conns |-> None]

-----------------------------------------------------------------------------
(* The listener.                                                           *)

\* These connections are over, for whatever reason.
Ended(set) ==
    /\ peer' = [c \in Conns |-> IF c \in set THEN "none" ELSE peer[c]]
    /\ via' = [c \in Conns |-> IF c \in set THEN None ELSE via[c]]
    /\ asked' = asked \ set
    /\ outOf' = IF outOf \in set THEN None ELSE outOf

\* tcpBridge_stop(): every client and whoever waits
StopAll ==
    /\ slot' = Empty
    /\ waiting' = {}
    /\ Ended(Conns)

\* Seeded fault: the port in use when the link went is taken up again.
StartServerAgain(cfg) ==
    /\ port' = IF port = None THEN PortOf[cfg] ELSE port
    /\ listen' = port'
    /\ StopAll

\* startServer(): on the port of the configuration in effect
StartServer(cfg) ==
    /\ port' = PortOf[cfg]
    /\ listen' = PortOf[cfg]
    /\ StopAll

\* netRuntime_applyPort(), by the SAVE of a configuration
ApplyPort(cfg) ==
    IF net = "up" /\ PortOf[cfg] # port
    THEN StartServer(cfg)
    ELSE UNCHANGED <<port, listen, clients>>

\* netRuntime_begin(), with the link found within net.link_timeout_ms or not
NetBegin(cfg, inSafeMode, found) ==
    IF inSafeMode \/ cfg \notin NetOn
    THEN /\ net' = IF inSafeMode THEN "safe" ELSE "disabled"
         /\ UNCHANGED <<port, listen, clients>>
    ELSE IF found
    THEN net' = "up" /\ StartServer(cfg)
    ELSE /\ net' = "nolink"
         /\ UNCHANGED <<port, listen, clients>>

\* netRuntime_update(), every LINK_POLL_MS: the link has come, or gone
LinkFound ==
    /\ phase = "up" /\ net = "nolink"
    /\ net' = "up"
    /\ StartServer(active)
    /\ UNCHANGED <<settings, owner>>

LinkLost ==
    /\ phase = "up" /\ net = "up"
    /\ net' = "nolink"
    /\ listen' = None
    /\ StopAll
    /\ UNCHANGED <<settings, port, owner>>

-----------------------------------------------------------------------------
(* The slots.                                                              *)

Free == {s \in Slots : slot[s] = None}

\* tcpBridge_update(): the first free slot, or none
Accept(c) ==
    /\ phase = "up" /\ net = "up"
    /\ c \in waiting
    /\ waiting' = waiting \ {c}
    /\ \/ Free = {} /\ Ended({c}) /\ UNCHANGED slot
       \/ /\ \E s \in Free :
                 (\A t \in Free : s <= t) /\ slot' = [slot EXCEPT ![s] = c]
          /\ UNCHANGED <<peer, via, asked, outOf>>
    /\ UNCHANGED <<settings, net, port, listen, owner>>

\* serveSlot(): the client has closed
Notice(s) ==
    /\ phase = "up" /\ net = "up"
    /\ slot[s] # None /\ peer[slot[s]] = "left"
    /\ slot' = [slot EXCEPT ![s] = None]
    /\ Ended({slot[s]})
    /\ UNCHANGED <<settings, net, port, listen, waiting, owner>>

Answered(c) ==
    /\ asked' = asked \cup {c}
    /\ outOf' = c
    /\ UNCHANGED <<port, listen, waiting, slot, peer, via>>

\* serveSlot(), doConsoleExec(): a console line of this slot, to whose answer
\* the buffer now belongs; a SAVE may stop the slot itself.
Exec(s) ==
    /\ phase = "up" /\ net = "up"
    /\ slot[s] # None /\ peer[slot[s]] = "on"
    /\ active \in ConsoleOn
    /\ owner' = s
    /\ \/ /\ Command \/ UNCHANGED settings
          /\ Answered(slot[s])
       \/ \E works \in BOOLEAN :
             /\ Save(works)
             /\ IF Commits(works) /\ PortOf[staged] # port
                THEN StartServer(staged)
                ELSE Answered(slot[s])
    /\ UNCHANGED net

\* Seeded fault: pages go to whoever asks while an answer is there.
MayReadAny(s) == owner # None
\* doConsoleRead()
MayRead(s) == owner = s

-----------------------------------------------------------------------------
(* The USB port's console, the boot, and the world.                        *)

UsbCommand == Command /\ UNCHANGED tcp

UsbSave ==
    /\ \E works \in BOOLEAN :
           /\ Save(works)
           /\ IF Commits(works) THEN ApplyPort(staged)
              ELSE UNCHANGED <<port, listen, clients>>
    /\ UNCHANGED <<net, owner>>

Timing == (Lapse \/ Expire \/ MarkHealthy) /\ UNCHANGED tcp

NetLost ==
    /\ net' = "disabled" /\ port' = None /\ listen' = None
    /\ StopAll
    /\ owner' = None

GoDown == (Rebooted \/ Watchdog \/ Reset \/ PowerCut) /\ NetLost
Dies == Spoil /\ UNCHANGED tcp

\* setup(): a boot that hangs does so before the network, or takes it along.
GwBoot(hold) ==
    /\ \E works, found \in BOOLEAN :
           /\ Boot(hold, works)
           /\ IF phase' = "up" THEN NetBegin(active', safe', found)
              ELSE UNCHANGED <<net, port, listen, clients>>
    /\ UNCHANGED owner

\* A new connection is the first that is over.
Connect(c) ==
    /\ listen # None
    /\ peer[c] = "none"
    /\ \A d \in Conns : peer[d] = "none" => c <= d
    /\ peer' = [peer EXCEPT ![c] = "on"]
    /\ via' = [d \in Conns |-> IF d = c THEN listen ELSE via[d]]
    /\ waiting' = waiting \cup {c}
    /\ UNCHANGED <<settings, net, port, listen, slot, owner, asked, outOf>>

\* One that leaves while it still waits is handed over all the same, and is
\* noticed like one that leaves right after.
Leave(c) ==
    /\ c \in Served /\ peer[c] = "on"
    /\ peer' = [peer EXCEPT ![c] = "left"]
    /\ UNCHANGED <<settings, net, port, listen, waiting, slot, owner, via, asked, outOf>>

Init ==
    /\ SettingsInit
    /\ net = "disabled"
    /\ port = None /\ listen = None
    /\ waiting = {} /\ slot = Empty
    /\ peer = [c \in Conns |-> "none"] /\ via = NoPort
    /\ owner = None /\ asked = {} /\ outOf = None

Next ==
    \/ LinkFound
    \/ LinkLost
    \/ \E c \in Conns : Accept(c)
    \/ \E s \in Slots : Notice(s)
    \/ \E s \in Slots : Exec(s)
    \/ UsbCommand
    \/ UsbSave
    \/ Timing
    \/ GoDown
    \/ Dies
    \/ \E hold \in Holds : GwBoot(hold)
    \/ \E c \in Conns : Connect(c)
    \/ \E c \in Conns : Leave(c)

Spec == Init /\ [][Next]_vars

\* A boot nobody interferes with goes on, and the watchdog is in hardware.
Fairness ==
    /\ WF_vars(GwBoot("no"))
    /\ WF_vars(Watchdog /\ NetLost)
FairSpec == Spec /\ Fairness

-----------------------------------------------------------------------------
(* Properties.                                                             *)

\* Whatever SAVEs, links and resets follow each other: the gateway listens
\* exactly while its network is up, on the port of the settings in effect, and
\* never in safe mode; nobody is connected by another port, held in two slots
\* or kept waiting and served at once.
NetFollowsSettings ==
    /\ listen # None <=> net = "up"
    /\ net = "up" => listen = PortOf[active] /\ port = listen /\ ~safe
    /\ \A c \in Conns : peer[c] # "none" <=> c \in waiting \cup Served
    /\ \A c \in waiting \cup Served : via[c] = listen
    /\ waiting \cap Served = {}
    /\ \A s, t \in Slots : slot[s] = slot[t] /\ slot[s] # None => s = t

\* A client that has run a command and pages through the answer gets the answer
\* to its own last command, or is refused, whatever the other clients run
\* between two pages.
PagesAreOwn ==
    \A s \in Slots : slot[s] \in asked /\ MayRead(s) => outOf = slot[s]
=============================================================================
