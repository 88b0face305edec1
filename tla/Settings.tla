------------------------------ MODULE Settings ------------------------------
(***************************************************************************)
(* The settings of the gateway, from the console that stages them to the   *)
(* boot that lives with them: src/src/gw_config.cpp (active and staged),   *)
(* gw_store.cpp (the stored record), the session and the write verbs of    *)
(* gw_console.cpp, the boot counter of gw_status.cpp and setup() in        *)
(* main.cpp.                                                               *)
(*                                                                         *)
(* A configuration is a whole set of values; the model tells apart only    *)
(* which of them gwConfig_validateStaged() accepts and which keep the next *)
(* boot from ever reaching ten seconds of loop().  The 120 s of a session  *)
(* and the 300 ms before a reboot may pass between any two steps.          *)
(***************************************************************************)
EXTENDS Naturals

CONSTANTS
    Cfgs,        \* configurations
    Default,     \* the compiled one
    Fits,        \* those gwConfig_validateStaged() accepts
    Hangs,       \* those a boot hangs on
    SafeBoots,   \* SAFE_MODE_BOOTS (3)
    CountMax,    \* where the boot counter stops (255)
    MaxFaults,   \* bound on power cuts, store failures and button holds
    None, Corrupt    \* no record in the store; one that does not load

ASSUME SettingsAssumption ==
    /\ Fits \subseteq Cfgs /\ Hangs \subseteq Cfgs
    /\ Default \in Fits \ Hangs
    /\ {None, Corrupt} \cap Cfgs = {} /\ None # Corrupt
    /\ {SafeBoots, CountMax} \subseteq Nat \ {0} /\ SafeBoots <= CountMax
    /\ MaxFaults \in Nat

VARIABLES
    phase,     \* the board: off (held in reset), hung in its boot, or up
    active,    \* _active
    staged,    \* _staged
    source,    \* _source
    session,   \* _armedUntil: 0 (none), in the future, or gone by unnoticed
    reboot,    \* _rebootAt: a REBOOT has been answered
    safe,      \* _safeMode
    healthy,   \* _healthyMarked
    stored,    \* the record on the flash
    boots      \* the boot counter in the backup domain

\* History: read by no guard but the bound.
VARIABLES
    leftover,  \* edits of a session that is over are staged
    brief,     \* boots in a row that did not last until marked healthy
    faults     \* faults so far

ram == <<active, staged, source, session, reboot, safe, healthy>>
kept == <<stored, boots>>
settings == <<phase, ram, kept, leftover, brief, faults>>

-----------------------------------------------------------------------------
(* The console's session and its write verbs.                              *)

Armed == session = "live"

\* gwConfig_discard()
Discard ==
    /\ staged' = active
    /\ leftover' = FALSE

\* arm(): also over a session that has gone by
Hello ==
    /\ session' = "live"
    /\ UNCHANGED <<active, staged, source, reboot, stored, leftover, faults>>

\* disarm()
Disarm ==
    /\ session' = "none"
    /\ Discard
    /\ UNCHANGED <<active, source, reboot, stored, faults>>

\* SET: a line that fails at its n-th key has staged the n - 1 before it, so
\* that any configuration may come out, acceptable or not.
Set ==
    /\ staged' \in Cfgs
    /\ leftover' = (leftover /\ staged' # active)
    /\ UNCHANGED <<active, source, session, reboot, stored, faults>>

\* DEFAULTS
LoadDefaults ==
    /\ staged' = Default
    /\ leftover' = FALSE
    /\ UNCHANGED <<active, source, session, reboot, stored, faults>>

\* Seeded fault: what was staged takes effect before it is stored.
CommitEager(works) ==
    \/ /\ staged \in Fits
       /\ active' = staged /\ source' = "stored" /\ leftover' = FALSE
       /\ stored' = IF works THEN staged ELSE stored
    \/ /\ staged \notin Fits
       /\ UNCHANGED <<active, source, stored, leftover>>

\* gwConfig_commit(): validated, stored, and only then in effect
Commits(works) == staged \in Fits /\ works
Commit(works) ==
    \/ /\ Commits(works)
       /\ stored' = staged
       /\ active' = staged /\ source' = "stored" /\ leftover' = FALSE
    \/ /\ ~Commits(works)
       /\ UNCHANGED <<active, source, stored, leftover>>

\* REBOOT
AskReboot ==
    /\ reboot' = TRUE
    /\ UNCHANGED <<active, staged, source, session, stored, leftover, faults>>

board == <<phase, safe, healthy, boots, brief>>

\* dispatch() of any verb but SAVE.  What only asks, or finds the session
\* locked, changes nothing here.
Command ==
    /\ phase = "up"
    /\ \/ Hello
       \/ Disarm        \* BYE
       \/ Armed /\ Set
       \/ Armed /\ LoadDefaults
       \/ /\ Armed /\ Discard
          /\ UNCHANGED <<active, source, session, reboot, stored, faults>>
       \/ Armed /\ AskReboot
    /\ UNCHANGED board

\* dispatch() of SAVE, with the flash working or not
Save(works) ==
    /\ phase = "up" /\ Armed
    /\ works \/ faults < MaxFaults
    /\ faults' = IF works THEN faults ELSE faults + 1
    /\ Commit(works)
    /\ UNCHANGED <<staged, session, reboot>>
    /\ UNCHANGED board

\* 120 s without a command
Lapse ==
    /\ phase = "up" /\ session = "live"
    /\ session' = "lapsed"
    /\ leftover' = (staged # active)
    /\ UNCHANGED <<active, staged, source, reboot, stored, faults>>
    /\ UNCHANGED board

\* gwConsole_update() notices
Expire ==
    /\ phase = "up" /\ session = "lapsed"
    /\ Disarm
    /\ UNCHANGED board

-----------------------------------------------------------------------------
(* Resets and boots.                                                       *)

\* What was in RAM is gone.
Lost ==
    /\ phase' = "off"
    /\ active' = Default /\ staged' = Default /\ source' = "defaults"
    /\ session' = "none" /\ reboot' = FALSE
    /\ safe' = FALSE /\ healthy' = FALSE
    /\ leftover' = FALSE
    /\ brief' = IF healthy \/ brief = SafeBoots THEN brief ELSE brief + 1

\* gwConsole_update(), 300 ms after a REBOOT
Rebooted ==
    /\ phase = "up" /\ reboot
    /\ Lost
    /\ UNCHANGED <<kept, faults>>

\* The watchdog ends a boot that hangs.
Watchdog ==
    /\ phase = "hung"
    /\ Lost
    /\ UNCHANGED <<kept, faults>>

\* A reset of any other cause, at any time
Reset ==
    /\ phase # "off" /\ faults < MaxFaults
    /\ Lost
    /\ faults' = faults + 1
    /\ UNCHANGED kept

\* The backup domain is lost with the power, and overwritten by a firmware
\* update; the board starts to count again.
PowerCut ==
    /\ faults < MaxFaults
    /\ IF phase = "off" THEN UNCHANGED <<phase, ram, leftover, brief>> ELSE Lost
    /\ boots' = 0
    /\ faults' = faults + 1
    /\ UNCHANGED stored

\* The record does not load any more: worn flash, or a firmware of another
\* GW_BLOB_SCHEMA.
Spoil ==
    /\ phase = "off" /\ stored \in Cfgs /\ faults < MaxFaults
    /\ stored' = Corrupt
    /\ faults' = faults + 1
    /\ UNCHANGED <<phase, ram, boots, leftover, brief>>

\* sampleBootButton(): held for 3 s, for 10 s, or not
Holds == {"no", "defaults", "erase"}

Count == IF boots < CountMax THEN boots + 1 ELSE boots
SafeMode == boots >= SafeBoots

\* Seeded fault: safe mode is reported but does not force the defaults.
ForcedByButton(hold) == hold # "no"
ForceDefaults(hold) == hold # "no" \/ SafeMode

\* gwStore_load()
Loads(works) ==
    CASE ~works            -> "unavailable"
      [] stored = None     -> "defaults"
      [] stored = Corrupt  -> "corrupt"
      [] stored \in Cfgs   -> "stored"

\* setup(): the counter, the button, the store, gwConfig_begin(); and what
\* becomes of it, for a configuration may hang the rest of the boot.
Boot(hold, works) ==
    /\ phase = "off"
    /\ (hold # "no" \/ ~works) => faults < MaxFaults
    /\ faults' = IF hold # "no" \/ ~works THEN faults + 1 ELSE faults
    /\ boots' = Count
    /\ safe' = SafeMode
    /\ stored' = IF hold = "erase" /\ works THEN None ELSE stored
    /\ source' = IF ForceDefaults(hold) THEN "defaults" ELSE Loads(works)
    /\ active' = IF source' = "stored" THEN stored ELSE Default
    /\ staged' = active'
    /\ phase' = IF active' \in Hangs THEN "hung" ELSE "up"
    /\ UNCHANGED <<session, reboot, healthy, leftover, brief>>

\* Seeded fault: ten seconds of loop() leave the counter as it is.
MarkHealthyOnly ==
    /\ phase = "up" /\ ~healthy
    /\ healthy' = TRUE
    /\ brief' = 0
    /\ UNCHANGED <<phase, active, staged, source, session, reboot, safe, kept,
                   leftover, faults>>

\* loop(), ten seconds on: gwStatus_markHealthy()
MarkHealthy ==
    /\ phase = "up" /\ ~healthy
    /\ healthy' = TRUE
    /\ boots' = 0
    /\ brief' = 0
    /\ UNCHANGED <<phase, active, staged, source, session, reboot, safe, stored,
                   leftover, faults>>

\* A board as it leaves the factory, or set up on site
SettingsInit ==
    /\ phase = "off"
    /\ active = Default /\ staged = Default /\ source = "defaults"
    /\ session = "none" /\ reboot = FALSE
    /\ safe = FALSE /\ healthy = FALSE
    /\ stored \in {None} \cup Fits
    /\ boots = 0
    /\ leftover = FALSE /\ brief = 0 /\ faults = 0

SettingsNext ==
    \/ Command
    \/ \E works \in BOOLEAN : Save(works)
    \/ Lapse
    \/ Expire
    \/ Rebooted
    \/ Watchdog
    \/ Reset
    \/ PowerCut
    \/ Spoil
    \/ \E hold \in Holds, works \in BOOLEAN : Boot(hold, works)
    \/ MarkHealthy

SettingsSpec == SettingsInit /\ [][SettingsNext]_settings

\* A boot nobody interferes with goes on, and the watchdog is in hardware.
BootsOn == \E works \in BOOLEAN : Boot("no", works)
FairSettings == SettingsSpec /\ WF_settings(BootsOn) /\ WF_settings(Watchdog)

-----------------------------------------------------------------------------
(* Properties.                                                             *)

\* The gateway runs on, and would boot with, only what was validated; what it
\* calls stored is what is on the flash, whichever step of a SAVE fails; and
\* nothing is staged while no session is open.
SettingsSound ==
    /\ active \in Fits
    /\ stored \in Cfgs => stored \in Fits
    /\ source = "stored" => active = stored
    /\ session = "none" => staged = active

\* Safe mode, which costs the cabinet its network and its settings, comes only
\* after three boots in a row of which none lasted the ten seconds.
SafeModeEarned == [][~safe /\ safe' => brief = SafeBoots]_settings

\* "A stored value that hangs the board heals itself without tooling": the
\* gateway comes up again whatever is stored.
BoardComesBack == phase # "up" ~> phase = "up"

\* "Never leave staged edits behind": a SAVE stores no edit of a session that
\* was over before.
NoLeftovers == [][stored' # stored => ~leftover]_settings
=============================================================================
