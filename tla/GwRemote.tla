------------------------------ MODULE GwRemote ------------------------------
(***************************************************************************)
(* The requests a client sends to the gateway itself (src/src/             *)
(* gw_remote.cpp) as far as they touch the flash: the staging of the       *)
(* gateway's own firmware (0x10-0x14), the depot of module images          *)
(* (0x20-0x24), the FAT volume both share with the records of the module   *)
(* update runner, the deferred work of gwRemote_update() and the reset     *)
(* that installs.                                                          *)
(*                                                                         *)
(* An image is the number of its pieces and whether they are the right     *)
(* ones: a CRC over bytes read back tells exactly that.  A request that is *)
(* refused changes nothing and is left out, as is every time stamp: a      *)
(* timeout may strike whenever its own condition holds.                    *)
(***************************************************************************)
EXTENDS Naturals

CONSTANTS
    NSlots,     \* DP_SLOTS
    Names,      \* the names clients give to module images
    FwSize,     \* pieces of a firmware image
    DpSize,     \* pieces of a module image
    MaxData,    \* pieces one DATA request may carry
    Mishaps     \* bound on failed writes, flash errors, resets and power cuts

ASSUME GwRemoteAssumption ==
    /\ NSlots \in Nat \ {0}
    /\ FwSize \in Nat \ {0} /\ DpSize \in Nat \ {0} /\ MaxData \in Nat \ {0}
    /\ Names # {}
    /\ Mishaps \in Nat

Slots == 1..NSlots

VARIABLES
    armed,      \* gwConsole_armed()
    running,    \* otaRunner_running(), and with it _fsHold
    stage,      \* _fwState, _fwReceived
    upload,     \* _dpWriting and what belongs to it
    mounted,    \* _fwFs
    disk,       \* the FAT volume on the flash
    regs,       \* RTC backup DR0 (install UPDATE.BIN) and DR3 (its length)
    resetDue,   \* _resetAt
    firmware,   \* what the internal flash holds
    mishaps     \* mishaps left

\* History: FW_BEGINs and settings of the clock since the last APPLY, while
\* the registers say install
VARIABLE touched

vars == <<armed, running, stage, upload, mounted, disk, regs, resetDue,
          firmware, mishaps, touched>>

StageStates == {"idle", "receiving", "staged", "error"}
SlotStates == {"empty", "incomplete", "complete"}
AnyName == CHOOSE n \in Names : TRUE

-----------------------------------------------------------------------------
(* The flash *)

\* What dpReadHdr() finds in a slot, and whether the bytes behind the header
\* are the announced ones
EmptySlot == [state |-> "empty", name |-> AnyName, whole |-> FALSE]
NoUpdate == [whole |-> FALSE, there |-> FALSE, len |-> 0]
\* fwMount(): a volume that cannot be mounted is formatted
Formatted ==
    [sound |-> TRUE, update |-> NoUpdate, files |-> [s \in Slots |-> EmptySlot]]
Remounted == IF mounted \/ disk.sound THEN disk ELSE Formatted

\* doFwApply(): the length and CRC of what is on the flash
\* Seeded fault: the length alone is checked
VerifiedLength(u) == u.len = FwSize
Verified(u) == u.len = FwSize /\ u.whole

\* doFwData(), doDepotData(): the offset follows on and the data still fits
InSequence(off, n, received, size) == off = received /\ received + n <= size

\* doDepotBegin(): the slot that has the name, or else an empty one, or else
\* one whose upload never finished; the first of them, or 0
Lowest(set) == CHOOSE s \in set : \A t \in set : s <= t
Having(files, state) == {s \in Slots : files[s].state = state}
Called(files, name) ==
    {s \in Slots : files[s].state # "empty" /\ files[s].name = name}
FirstOf(a, b, c) ==
    IF a # {} THEN Lowest(a)
    ELSE IF b # {} THEN Lowest(b)
    ELSE IF c # {} THEN Lowest(c) ELSE 0
\* Seeded fault: a free slot is taken before the name's own
SlotForEmptyFirst(files, name) ==
    FirstOf(Having(files, "empty"), Called(files, name), Having(files, "incomplete"))
\* Seeded fault: with no slot to spare the first one is taken
SlotForAny(files, name) ==
    FirstOf(Called(files, name), Having(files, "empty"), Slots)
SlotFor(files, name) ==
    FirstOf(Called(files, name), Having(files, "empty"), Having(files, "incomplete"))

-----------------------------------------------------------------------------
(* The state behind the requests *)

\* dpClose(); _dpSlot and the rest mean nothing while _dpWriting is false
NoUpload == [received |-> 0, writing |-> FALSE, slot |-> 1, right |-> TRUE,
             kept |-> TRUE]
Staging(st, received) == [received |-> received, st |-> st]

\* fwReset(): unmounting closes both uploads
FwReset(to) ==
    /\ stage' = Staging(to, 0)
    /\ upload' = NoUpload
    /\ mounted' = FALSE

Spend == mishaps > 0 /\ mishaps' = mishaps - 1
SpendUnless(well) == IF well THEN UNCHANGED mishaps ELSE Spend

\* A request that reaches what the registers point at
Touching(what) == touched' = IF regs.update THEN touched \cup {what} ELSE touched

Init ==
    /\ armed = FALSE
    /\ running = FALSE
    /\ stage = Staging("idle", 0)
    /\ upload = NoUpload
    /\ mounted = FALSE
    /\ disk = Formatted
    /\ regs = [update |-> FALSE, length |-> FALSE]
    /\ resetDue = FALSE
    /\ firmware = "whole"
    /\ mishaps = Mishaps
    /\ touched = {}

-----------------------------------------------------------------------------
(* The session: HELLO arms it, BYE or two quiet minutes end it *)

Hello ==
    /\ armed' = TRUE
    /\ UNCHANGED <<running, stage, upload, mounted, disk, regs, resetDue,
                   firmware, mishaps, touched>>

Disarm ==
    /\ armed' = FALSE
    /\ UNCHANGED <<running, stage, upload, mounted, disk, regs, resetDue,
                   firmware, mishaps, touched>>

\* sched_setTime(), for the TIME verb or an NTP answer: the clock's marker goes
\* to the register that an update has its length in
SetClock ==
    /\ regs' = [regs EXCEPT !.length = FALSE]
    /\ Touching("clock")
    /\ UNCHANGED <<armed, running, stage, upload, mounted, disk, resetDue,
                   firmware, mishaps>>

-----------------------------------------------------------------------------
(* FW_BEGIN, FW_DATA, FW_APPLY, FW_ABORT *)

FwBegin ==
    LET volume == IF disk.sound THEN disk ELSE Formatted IN
    /\ armed /\ ~running
    /\ \/ /\ stage' = Staging("receiving", 0)
          /\ upload' = NoUpload
          /\ mounted' = TRUE
          /\ disk' = [volume EXCEPT
                !.update = [whole |-> TRUE, there |-> TRUE, len |-> 0]]
          /\ Touching("begin")
          /\ UNCHANGED mishaps
       \/ \* no volume, or no file on it
          /\ FwReset("idle")
          /\ disk' \in {disk, [volume EXCEPT !.update = NoUpdate]}
          /\ Spend /\ UNCHANGED touched
    /\ UNCHANGED <<armed, running, regs, resetDue, firmware>>

Longer(u, n, well) == [u EXCEPT !.len = @ + n, !.whole = @ /\ well]

\* n pieces from off on, the announced ones or not, on the flash as sent or not
FwData(off, n, right, kept) ==
    /\ stage.st = "receiving"
    /\ InSequence(off, n, stage.received, FwSize)
    /\ disk' = [disk EXCEPT !.update = Longer(@, n, right /\ kept)]
    /\ stage' = Staging(IF stage.received + n = FwSize THEN "staged" ELSE "receiving",
                        stage.received + n)
    /\ SpendUnless(kept)
    /\ UNCHANGED <<armed, running, upload, mounted, regs, resetDue, firmware, touched>>

FwDataFails ==
    /\ stage.st = "receiving"
    /\ FwReset("error")
    /\ disk' = [disk EXCEPT !.update.whole = FALSE]
    /\ Spend
    /\ UNCHANGED <<armed, running, regs, resetDue, firmware, touched>>

MayApply == armed /\ ~running /\ stage.st = "staged"

FwApply ==
    /\ MayApply
    /\ Verified(disk.update)
    /\ regs' = [update |-> TRUE, length |-> TRUE]
    /\ resetDue' = TRUE
    /\ touched' = {}
    /\ UNCHANGED <<armed, running, stage, upload, mounted, disk, firmware, mishaps>>

\* The flash holds something else, or is not read right
FwApplyMismatch ==
    /\ MayApply
    /\ SpendUnless(~Verified(disk.update))
    /\ FwReset("error")
    /\ UNCHANGED <<armed, running, disk, regs, resetDue, firmware, touched>>

\* The registers stay as they are, also after an APPLY
FwAbort ==
    /\ FwReset("idle")
    /\ UNCHANGED <<armed, running, disk, regs, resetDue, firmware, mishaps, touched>>

-----------------------------------------------------------------------------
(* DEPOT_BEGIN, DEPOT_DATA, DEPOT_DELETE, DEPOT_LIST and DEPOT_READ *)

StageBusy == stage.st = "receiving"

\* The upload in progress is closed whatever becomes of the new one
DepotBegin(name) ==
    LET slot == SlotFor(Remounted.files, name) IN
    /\ armed /\ ~StageBusy
    /\ mounted' = TRUE
    /\ \/ /\ slot = 0                       \* full
          /\ disk' = Remounted
          /\ upload' = NoUpload
          /\ UNCHANGED mishaps
       \/ /\ slot # 0
          /\ disk' = [Remounted EXCEPT !.files[slot] =
                        [state |-> "incomplete", name |-> name, whole |-> FALSE]]
          /\ upload' = [NoUpload EXCEPT !.writing = TRUE, !.slot = slot]
          /\ UNCHANGED mishaps
       \/ /\ slot # 0                       \* no file, or no header in it
          /\ disk' \in {Remounted, [Remounted EXCEPT !.files[slot] = EmptySlot]}
          /\ upload' = NoUpload
          /\ Spend
    /\ UNCHANGED <<armed, running, stage, regs, resetDue, firmware, touched>>

\* dpFinish(): the CRC of what was sent and of what is on the flash
Checked(u) == u.right /\ u.kept

\* dpFinish(): what becomes of the slot if the file can be read and written
Finished(u, file) ==
    IF Checked(u)
    THEN [file EXCEPT !.state = "complete", !.whole = u.right /\ u.kept]
    ELSE EmptySlot

DepotData(off, n, right, kept, finished) ==
    LET now == [upload EXCEPT !.received = @ + n, !.right = @ /\ right,
                              !.kept = @ /\ kept]
        full == now.received = DpSize IN
    /\ upload.writing
    /\ InSequence(off, n, upload.received, DpSize)
    /\ \/ /\ ~full
          /\ upload' = now
          /\ UNCHANGED disk
       \/ /\ full
          /\ upload' = NoUpload
          /\ disk' = IF finished
                     THEN [disk EXCEPT !.files[upload.slot] = Finished(now, @)]
                     ELSE disk
    /\ SpendUnless(kept /\ finished)
    /\ UNCHANGED <<armed, running, stage, mounted, regs, resetDue, firmware, touched>>

DepotDataFails ==
    /\ upload.writing
    /\ upload' = NoUpload
    /\ Spend
    /\ UNCHANGED <<armed, running, stage, mounted, disk, regs, resetDue, firmware, touched>>

\* An upload into the slot is closed even if the file then cannot be removed
DepotDelete(s, removed) ==
    /\ armed
    /\ mounted' = TRUE
    /\ upload' = IF upload.writing /\ upload.slot = s THEN NoUpload ELSE upload
    /\ disk' = IF removed THEN [Remounted EXCEPT !.files[s] = EmptySlot]
               ELSE Remounted
    /\ SpendUnless(removed)
    /\ UNCHANGED <<armed, running, stage, regs, resetDue, firmware, touched>>

\* LIST and READ only mount the volume
DepotLook ==
    /\ mounted' = TRUE
    /\ disk' = Remounted
    /\ UNCHANGED <<armed, running, stage, upload, regs, resetDue, firmware, mishaps, touched>>

-----------------------------------------------------------------------------
(* The module update runner *)

OtaStart(s) ==
    LET file == Remounted.files[s] IN
    /\ armed /\ ~running
    /\ stage.st # "receiving"                \* gwRemote_fwBusy()
    /\ file.state = "complete" /\ file.whole \* the CRC is taken again
    /\ ~(upload.writing /\ upload.slot = s)
    /\ running' = TRUE
    /\ mounted' = TRUE
    /\ disk' = Remounted
    /\ UNCHANGED <<armed, stage, upload, regs, resetDue, firmware, mishaps, touched>>

\* writeRecord(), the last one or not
OtaRecord(last) ==
    /\ running
    /\ mounted' = TRUE
    /\ disk' = Remounted
    /\ running' = ~last
    /\ UNCHANGED <<armed, stage, upload, regs, resetDue, firmware, mishaps, touched>>

-----------------------------------------------------------------------------
(* gwRemote_update(), and what a boot finds *)

\* The volume may be let go
\* Seeded fault: a staged image does not count as a need
UnneededIfStill(st, u) == st # "receiving" /\ ~u.writing /\ ~running
Unneeded(st, u) == st = "idle" /\ ~u.writing /\ ~running

\* late: which of the three timeouts have passed
Update(late) ==
    LET stalled == stage.st = "receiving" /\ "stage" \in late
        left == IF stalled \/ "depot" \in late THEN NoUpload ELSE upload IN
    /\ stage' = IF stalled THEN Staging("idle", 0) ELSE stage
    /\ upload' = left
    /\ mounted' = (/\ mounted /\ ~stalled
                   /\ ~("volume" \in late /\ Unneeded(stage'.st, left)))
    /\ UNCHANGED <<armed, running, disk, regs, resetDue, firmware, mishaps, touched>>

\* What a volume may look like after a crash: a file that was being written is
\* cut short or gone, and only a volume in use can have become unmountable
Crashed ==
    LET torn == IF upload.writing
                THEN {[disk.files EXCEPT ![upload.slot] = EmptySlot], disk.files}
                ELSE {disk.files}
        inUse == running \/ upload.writing \/ stage.st = "receiving"
    IN  [sound : IF inUse THEN {disk.sound, FALSE} ELSE {disk.sound},
         update : {disk.update}, files : torn]

\* The bootloader's part: install UPDATE.BIN if the registers say so; what it
\* does with a length that is none is its own affair
Installed(volume, told) ==
    IF ~(told.update /\ volume.sound /\ volume.update.there) THEN {firmware}
    ELSE IF ~told.length THEN {firmware, "torn"}
    ELSE IF volume.update.len = FwSize /\ volume.update.whole THEN {"whole"}
    ELSE {"torn"}

Boot(told) ==
    /\ armed' = FALSE
    /\ running' = FALSE
    /\ stage' = Staging("idle", 0)
    /\ upload' = NoUpload
    /\ mounted' = FALSE
    /\ disk' \in Crashed
    /\ regs' = [told EXCEPT !.update = FALSE]
    /\ resetDue' = FALSE
    /\ firmware' \in Installed(disk', told)
    /\ touched' = {}

DeferredReset == resetDue /\ Boot(regs) /\ UNCHANGED mishaps
\* Watchdog, button or REBOOT.  A reset keeps the backup registers, a power cut
\* perhaps not.
Reset == Boot(regs) /\ Spend
PowerCut == Boot([update |-> FALSE, length |-> FALSE]) /\ Spend

Next ==
    \/ Hello \/ Disarm \/ SetClock
    \/ FwBegin \/ FwDataFails \/ FwApply \/ FwApplyMismatch \/ FwAbort
    \/ \E off \in 0..FwSize, n \in 1..MaxData, right, kept \in BOOLEAN :
          FwData(off, n, right, kept)
    \/ \E name \in Names : DepotBegin(name)
    \/ \E off \in 0..DpSize, n \in 1..MaxData, right, kept, finished \in BOOLEAN :
          DepotData(off, n, right, kept, finished)
    \/ DepotDataFails \/ DepotLook
    \/ \E s \in Slots, removed \in BOOLEAN : DepotDelete(s, removed)
    \/ \E s \in Slots : OtaStart(s)
    \/ \E last \in BOOLEAN : OtaRecord(last)
    \/ \E late \in SUBSET {"stage", "depot", "volume"} : Update(late)
    \/ DeferredReset \/ Reset \/ PowerCut

Spec == Init /\ [][Next]_vars

-----------------------------------------------------------------------------
(* Properties *)

FileType == [state : SlotStates, name : Names, whole : BOOLEAN]
UpdateType == [there : BOOLEAN, len : 0..FwSize, whole : BOOLEAN]
DiskType == [sound : BOOLEAN, update : UpdateType, files : [Slots -> FileType]]
RegsType == [update : BOOLEAN, length : BOOLEAN]
UploadType == [writing : BOOLEAN, slot : Slots, received : 0..DpSize,
               right : BOOLEAN, kept : BOOLEAN]

\* Types; nothing longer than announced is ever on the flash or counted.
TypeOK ==
    /\ armed \in BOOLEAN /\ running \in BOOLEAN
    /\ stage \in [st : StageStates, received : 0..FwSize]
    /\ upload \in UploadType
    /\ mounted \in BOOLEAN
    /\ disk \in DiskType
    /\ regs \in RegsType /\ resetDue \in BOOLEAN
    /\ firmware \in {"whole", "torn"}
    /\ mishaps \in 0..Mishaps
    /\ touched \subseteq {"begin", "clock"}

\* "THE invariant": whatever was cut, dropped, retried, corrupted or aborted on
\* the way, the bootloader installs nothing but a whole image.  All requests are
\* served until the reset an APPLY announces, and two of them can spoil what it
\* verified: a FW_BEGIN truncates the file, a setting of the clock overwrites
\* the length.  Nothing else can: no ABORT, no second APPLY, nothing asked of
\* the depot or the runner, no timeout, no reset, power cut or lost volume.
NoTornFirmware ==
    [][firmware = "whole" /\ firmware' = "torn" => touched # {}]_vars

\* No file is written, and no staged image waits for its APPLY, on a volume that
\* a reset, a timeout, an abort or the other kind of upload has unmounted; and
\* the two kinds of upload never write side by side.
UploadsOnVolume ==
    /\ upload.writing \/ stage.st \in {"receiving", "staged"} => mounted
    /\ ~(upload.writing /\ stage.st = "receiving")

\* A slot that lists as complete holds the announced image, byte for byte.
CompleteIsWhole ==
    \A s \in Slots : disk.files[s].state = "complete" => disk.files[s].whole

\* No two slots ever answer to one name, so that replacing an image by its name
\* leaves none of the old one behind.
NamesUnique ==
    \A s, t \in Slots :
        /\ s # t
        /\ disk.files[s].state # "empty" /\ disk.files[t].state # "empty"
        => disk.files[s].name # disk.files[t].name

\* What the depot lists can be used as listed: images are whole and names are
\* unambiguous, whatever was cut, repeated or replaced.
DepotSound == CompleteIsWhole /\ NamesUnique

\* "A complete image of another name is never taken": only DELETE, or an upload
\* under its own name, by an armed session, ends a complete image; a crash or a
\* timeout never does, unless the volume itself is lost.
CompleteKept ==
    [][\A s \in Slots :
          /\ disk.sound
          /\ disk.files[s].state = "complete"
          /\ disk'.files[s] # disk.files[s]
          => /\ armed
             /\ \/ disk'.files[s] = EmptySlot
                \/ disk'.files[s].name = disk.files[s].name ]_vars
=============================================================================
