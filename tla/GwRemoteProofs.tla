--------------------------- MODULE GwRemoteProofs ---------------------------
(***************************************************************************)
(* Theorems about GwRemote, for every number of slots, names, sizes and    *)
(* mishaps.  Inv is inductive: besides the properties themselves it says   *)
(* how far a stage and its file have come, and that a slot being written   *)
(* to lists as incomplete.  StillVerified is inductive beside it: what the *)
(* bootloader relies on.                                                   *)
(***************************************************************************)
EXTENDS GwRemote, WellFoundedInduction, TLAPS

\* The file of a stage that is receiving is as long as what was received.
StageLength == stage.st = "receiving" => disk.update.len = stage.received

\* The slot being written to lists as incomplete.
UploadIncomplete ==
    upload.writing => disk.files[upload.slot].state = "incomplete"

\* As long as nothing has touched what an APPLY verified, the registers describe
\* the file as it is, and nobody is writing to it.
StillVerified ==
    regs.update /\ touched = {} =>
        /\ regs.length
        /\ stage.st # "receiving"
        /\ disk.update.there => Verified(disk.update)

\* What the two registers hold after a power cut.
NotTold == [update |-> FALSE, length |-> FALSE]

Safe == TypeOK /\ StageLength /\ UploadsOnVolume
Depot == UploadIncomplete /\ CompleteIsWhole /\ NamesUnique
Inv == Safe /\ Depot

(***************************************************************************)
(* Which slot an upload takes.                                             *)
(***************************************************************************)

\* A set of numbers that is not empty has a least member.
LEMMA LowestIsMember ==
    ASSUME NEW S, S \subseteq Nat, S # {}
    PROVE  Lowest(S) \in S
<1>1. PICK x \in S : \A y \in S : ~(<<y, x>> \in OpToRel(<, Nat))
  BY WFMin, NatLessThanWellFounded
<1>2. \A y \in S : ~(y < x)
  BY <1>1 DEF OpToRel
<1>3. \A y \in S : x <= y
  BY <1>2
<1>4. QED
  BY <1>3 DEF Lowest

\* doDepotBegin() takes a slot that has the name if there is one, and never a
\* complete image of another name.
LEMMA SlotForIsRight ==
    ASSUME NEW files \in [Slots -> FileType], NEW name \in Names
    PROVE  LET slot == SlotFor(files, name) IN
           \/ slot = 0
           \/ slot \in Called(files, name)
           \/ /\ slot \in Slots
              /\ files[slot].state # "complete"
              /\ Called(files, name) = {}
<1> USE GwRemoteAssumption DEF GwRemoteAssumption
<1> DEFINE A == Called(files, name)
           B == Having(files, "empty")
           C == Having(files, "incomplete")
<1>1. A \subseteq Nat /\ B \subseteq Nat /\ C \subseteq Nat /\ 0 \notin Slots
  BY DEF Called, Having, Slots
<1>2. CASE A # {}
  BY <1>1, <1>2, LowestIsMember DEF SlotFor, FirstOf
<1>3. CASE A = {} /\ B # {}
  BY <1>1, <1>3, LowestIsMember DEF SlotFor, FirstOf, Having
<1>4. CASE A = {} /\ B = {} /\ C # {}
  BY <1>1, <1>4, LowestIsMember DEF SlotFor, FirstOf, Having
<1>5. CASE A = {} /\ B = {} /\ C = {}
  BY <1>5 DEF SlotFor, FirstOf
<1>6. QED
  BY <1>2, <1>3, <1>4, <1>5

\* An empty slot is a slot.
LEMMA EmptySlotType == EmptySlot \in FileType /\ EmptySlot.state = "empty"
<1>1. AnyName \in Names
  BY GwRemoteAssumption DEF GwRemoteAssumption, AnyName
<1>2. QED
  BY <1>1 DEF EmptySlot, FileType, SlotStates

\* A freshly formatted volume holds nothing.
LEMMA FormattedIsBlank ==
    /\ Formatted \in DiskType
    /\ \A s \in Slots : Formatted.files[s].state = "empty"
BY GwRemoteAssumption DEF GwRemoteAssumption, Formatted, DiskType, EmptySlot,
   NoUpdate, UpdateType, FileType, SlotStates, AnyName

\* Mounting the volume leaves it alone if it was mounted or is sound, and is
\* otherwise a blank start; either way the depot stays as it should be.
LEMMA RemountedIsFine ==
    ASSUME Inv
    PROVE  /\ Remounted \in DiskType
           /\ mounted \/ disk.sound => Remounted = disk
           /\ \A s \in Slots : Remounted.files[s].state = "complete"
                                  => Remounted.files[s].whole
           /\ \A s, t \in Slots :
                 /\ s # t
                 /\ Remounted.files[s].state # "empty"
                 /\ Remounted.files[t].state # "empty"
                 => Remounted.files[s].name # Remounted.files[t].name
<1>1. CASE mounted \/ disk.sound
  BY <1>1 DEF Remounted, Inv, Safe, Depot, TypeOK, CompleteIsWhole, NamesUnique
<1>2. CASE ~(mounted \/ disk.sound)
  BY <1>2, FormattedIsBlank DEF Remounted
<1>3. QED
  BY <1>1, <1>2

(***************************************************************************)
(* The invariant.                                                          *)
(***************************************************************************)

LEMMA InitInv == Init => Inv
<1> SUFFICES ASSUME Init PROVE Inv
  OBVIOUS
<1>1. disk \in DiskType
  BY GwRemoteAssumption DEF GwRemoteAssumption, Init, Formatted, DiskType,
     EmptySlot, NoUpdate, UpdateType, FileType, SlotStates, AnyName
<1>2. upload \in UploadType
  BY GwRemoteAssumption DEF GwRemoteAssumption, Init, NoUpload, UploadType, Slots
<1>3. stage \in [st : StageStates, received : 0..FwSize]
  BY GwRemoteAssumption DEF GwRemoteAssumption, Init, Staging, StageStates
<1>4. TypeOK
  <2>1. mishaps \in 0..Mishaps
    BY GwRemoteAssumption DEF GwRemoteAssumption, Init
  <2>2. regs \in RegsType
    BY DEF Init, RegsType
  <2>3. QED
    BY <1>1, <1>2, <1>3, <2>1, <2>2, Zenon DEF Init, TypeOK
<1>5. StageLength /\ UploadsOnVolume /\ UploadIncomplete
  BY DEF Init, StageLength, UploadsOnVolume, UploadIncomplete, Staging, NoUpload
<1>6. CompleteIsWhole /\ NamesUnique
  BY DEF Init, CompleteIsWhole, NamesUnique, Formatted, EmptySlot
<1>7. QED
  BY <1>4, <1>5, <1>6 DEF Inv, Safe, Depot

\* fwReset() leaves no upload, no staged image and no mount behind.
LEMMA FwResetInv ==
    ASSUME NEW to \in {"idle", "error"}, FwReset(to)
    PROVE  /\ stage' \in [st : StageStates, received : 0..FwSize]
           /\ upload' \in UploadType
           /\ mounted' \in BOOLEAN
           /\ StageLength' /\ UploadsOnVolume' /\ UploadIncomplete'
<1>1. stage' \in [st : StageStates, received : 0..FwSize]
  BY GwRemoteAssumption DEF GwRemoteAssumption, FwReset, Staging, StageStates
<1>2. upload' \in UploadType
  BY GwRemoteAssumption DEF GwRemoteAssumption, FwReset, NoUpload, UploadType, Slots
<1>3. mounted' \in BOOLEAN
  BY DEF FwReset
<1>4. StageLength' /\ UploadsOnVolume' /\ UploadIncomplete'
  BY DEF FwReset, Staging, NoUpload, StageLength, UploadsOnVolume, UploadIncomplete
<1>5. QED
  BY <1>1, <1>2, <1>3, <1>4

LEMMA FwBeginInv ==
    ASSUME Inv, FwBegin PROVE Inv'
<1> DEFINE volume == IF disk.sound THEN disk ELSE Formatted
<1>1. /\ volume \in DiskType
      /\ \A s \in Slots : volume.files[s].state = "complete" => volume.files[s].whole
      /\ \A s, t \in Slots :
            /\ s # t
            /\ volume.files[s].state # "empty" /\ volume.files[t].state # "empty"
            => volume.files[s].name # volume.files[t].name
  BY FormattedIsBlank DEF Inv, Safe, Depot, TypeOK, CompleteIsWhole, NamesUnique
<1>2. /\ [there |-> TRUE, len |-> 0, whole |-> TRUE] \in UpdateType
      /\ NoUpdate \in UpdateType
  BY GwRemoteAssumption DEF GwRemoteAssumption, UpdateType, NoUpdate
<1>3. /\ armed' \in BOOLEAN /\ running' \in BOOLEAN
      /\ regs' \in RegsType /\ resetDue' \in BOOLEAN
      /\ firmware' \in {"whole", "torn"} /\ touched' \subseteq {"begin", "clock"}
  BY DEF Inv, Safe, TypeOK, FwBegin, Touching
<1>4. CASE /\ stage' = Staging("receiving", 0)
           /\ upload' = NoUpload
           /\ mounted' = TRUE
           /\ disk' = [volume EXCEPT
                 !.update = [there |-> TRUE, len |-> 0, whole |-> TRUE]]
           /\ UNCHANGED mishaps
  <2>1. disk' \in DiskType /\ disk'.files = volume.files /\ disk'.update.len = 0
    BY <1>1, <1>2, <1>4 DEF DiskType
  <2>2. /\ stage' \in [st : StageStates, received : 0..FwSize]
        /\ upload' \in UploadType
    BY <1>4, GwRemoteAssumption DEF GwRemoteAssumption, Staging, StageStates,
       NoUpload, UploadType, Slots
  <2>3. StageLength' /\ UploadsOnVolume' /\ UploadIncomplete'
    BY <1>4, <2>1 DEF StageLength, UploadsOnVolume, UploadIncomplete, Staging, NoUpload
  <2>4. CompleteIsWhole' /\ NamesUnique'
    BY <1>1, <2>1 DEF CompleteIsWhole, NamesUnique
  <2>5. TypeOK'
    BY <1>3, <1>4, <2>1, <2>2 DEF Inv, Safe, TypeOK
  <2>6. QED
    BY <2>3, <2>4, <2>5 DEF Inv, Safe, Depot
<1>5. CASE /\ FwReset("idle")
           /\ disk' \in {disk, [volume EXCEPT !.update = NoUpdate]}
           /\ Spend
  <2>1. disk' \in DiskType /\ disk'.files \in {disk.files, volume.files}
    BY <1>1, <1>2, <1>5 DEF DiskType, Inv, Safe, TypeOK
  <2>2. CompleteIsWhole' /\ NamesUnique'
    BY <1>1, <2>1 DEF CompleteIsWhole, NamesUnique, Inv, Depot
  <2>3. mishaps' \in 0..Mishaps
    BY <1>5, GwRemoteAssumption DEF GwRemoteAssumption, Spend, Inv, Safe, TypeOK
  <2>4. TypeOK'
    BY <1>3, <1>5, <2>1, <2>3, FwResetInv DEF TypeOK
  <2>5. QED
    BY <1>5, <2>2, <2>4, FwResetInv DEF Inv, Safe, Depot
<1>6. QED
  BY <1>4, <1>5 DEF FwBegin

\* What an action that spends a mishap or none leaves of the bound.
LEMMA Spent ==
    ASSUME Inv, Spend \/ UNCHANGED mishaps
    PROVE  mishaps' \in 0..Mishaps
BY GwRemoteAssumption DEF GwRemoteAssumption, Spend, Inv, Safe, TypeOK

\* The depot is as it should be after a step that leaves its files alone, or
\* only mounts the volume.
LEMMA FilesLeftAlone ==
    ASSUME Inv, disk'.files \in {disk.files, Remounted.files}
    PROVE  CompleteIsWhole' /\ NamesUnique'
BY RemountedIsFine DEF CompleteIsWhole, NamesUnique, Inv, Depot

LEMMA FwDataInv ==
    ASSUME Inv, NEW off \in 0..FwSize, NEW n \in 1..MaxData,
           NEW right \in BOOLEAN, NEW kept \in BOOLEAN, FwData(off, n, right, kept)
    PROVE  Inv'
<1> USE DEF Inv, Safe
<1>1. /\ stage.received \in 0..FwSize /\ stage.received + n <= FwSize
      /\ disk.update.len = stage.received /\ n \in Nat \ {0}
      /\ stage.st = "receiving" /\ mounted /\ ~upload.writing
  BY GwRemoteAssumption DEF GwRemoteAssumption, FwData, InSequence, TypeOK,
     StageLength, UploadsOnVolume
<1>2. stage.received + n \in 0..FwSize
  BY <1>1, GwRemoteAssumption DEF GwRemoteAssumption
<1>3. /\ disk' \in DiskType /\ disk'.files = disk.files
      /\ disk'.update.len = stage.received + n
  <2> DEFINE longer == Longer(disk.update, n, right /\ kept)
  <2>1. disk \in DiskType /\ disk.update \in UpdateType
    BY DEF TypeOK, DiskType
  <2>2. longer \in UpdateType /\ longer.len = stage.received + n
    <3>1. (disk.update.whole /\ right /\ kept) \in BOOLEAN
      OBVIOUS
    <3>2. QED
      BY <1>1, <1>2, <2>1, <3>1 DEF UpdateType, Longer
  <2>3. disk' = [disk EXCEPT !.update = longer]
    BY DEF FwData
  <2>4. QED
    BY <2>1, <2>2, <2>3 DEF DiskType
<1>4. /\ stage' \in [st : StageStates, received : 0..FwSize]
      /\ stage'.received = stage.received + n
      /\ stage'.st \in {"staged", "receiving"}
  BY <1>2 DEF FwData, Staging, StageStates
<1>5. mishaps' \in 0..Mishaps
  BY Spent DEF FwData, SpendUnless
<1>6. TypeOK'
  BY <1>3, <1>4, <1>5 DEF FwData, TypeOK
<1>7. StageLength' /\ UploadsOnVolume' /\ UploadIncomplete'
  BY <1>1, <1>3, <1>4 DEF FwData, StageLength, UploadsOnVolume, UploadIncomplete
<1>8. QED
  BY <1>3, <1>6, <1>7, FilesLeftAlone DEF Depot

LEMMA FwGivenUpInv ==
    ASSUME Inv, FwDataFails \/ FwApplyMismatch \/ FwAbort
    PROVE  Inv'
<1> USE DEF FwDataFails, FwApplyMismatch, FwAbort
<1>1. PICK to \in {"idle", "error"} : FwReset(to)
  OBVIOUS
<1>2. disk' \in DiskType /\ disk'.files = disk.files
  <2>1. disk \in DiskType /\ disk.update \in UpdateType
    BY DEF Inv, Safe, TypeOK, DiskType
  <2>2. [disk.update EXCEPT !.whole = FALSE] \in UpdateType
    BY <2>1 DEF UpdateType
  <2>3. \/ disk' = disk
        \/ disk' = [disk EXCEPT !.update = [disk.update EXCEPT !.whole = FALSE]]
    OBVIOUS
  <2>4. QED
    BY <2>1, <2>2, <2>3 DEF DiskType
<1>3. mishaps' \in 0..Mishaps
  BY Spent DEF SpendUnless
<1>4. TypeOK'
  BY <1>1, <1>2, <1>3, FwResetInv DEF Inv, Safe, TypeOK
<1>5. QED
  BY <1>1, <1>2, <1>4, FwResetInv, FilesLeftAlone DEF Inv, Safe, Depot

LEMMA DepotBeginInv ==
    ASSUME Inv, NEW name \in Names, DepotBegin(name) PROVE Inv'
<1> DEFINE files == Remounted.files
           slot == SlotFor(files, name)
           mine == [state |-> "incomplete", name |-> name, whole |-> FALSE]
<1> USE DEF Inv, Safe, Depot
<1>1. /\ Remounted \in DiskType /\ files \in [Slots -> FileType]
      /\ Remounted.update \in UpdateType
  BY RemountedIsFine DEF DiskType
<1>2. slot = 0 \/ slot \in Slots
  BY <1>1, SlotForIsRight DEF Called
<1>3. slot # 0 => \A t \in Slots \ {slot} : files[t].state # "empty" => files[t].name # name
  <2>1. CASE slot \in Called(files, name)
    BY <2>1, RemountedIsFine DEF Called
  <2>2. CASE Called(files, name) = {}
    BY <2>2 DEF Called
  <2>3. QED
    BY <1>1, <2>1, <2>2, SlotForIsRight
<1>4. mine \in FileType /\ EmptySlot \in FileType
  BY DEF FileType, SlotStates, EmptySlot, AnyName
<1>5. /\ upload' \in UploadType
      /\ upload'.writing => /\ slot # 0 /\ upload'.slot = slot
                            /\ disk' = [Remounted EXCEPT !.files[slot] = mine]
  <2>1. NoUpload \in UploadType /\ ~NoUpload.writing
    BY GwRemoteAssumption DEF GwRemoteAssumption, NoUpload, UploadType, Slots
  <2>2. \/ upload' = NoUpload
        \/ /\ slot # 0
           /\ upload' = [NoUpload EXCEPT !.writing = TRUE, !.slot = slot]
           /\ disk' = [Remounted EXCEPT !.files[slot] = mine]
    BY DEF DepotBegin
  <2>3. QED
    BY <1>2, <2>1, <2>2 DEF UploadType
<1>6. \/ disk' = Remounted
      \/ slot # 0 /\ \E f \in {mine, EmptySlot} : disk' = [Remounted EXCEPT !.files[slot] = f]
  BY DEF DepotBegin
<1>7. \/ disk' = Remounted
      \/ /\ slot # 0
         /\ \E f \in {mine, EmptySlot} : disk'.files = [files EXCEPT ![slot] = f]
         /\ disk'.update = Remounted.update /\ disk'.sound = Remounted.sound
         /\ disk' \in DiskType
  <2>1. ASSUME slot # 0, NEW f \in {mine, EmptySlot},
               disk' = [Remounted EXCEPT !.files[slot] = f]
        PROVE  /\ disk'.files = [files EXCEPT ![slot] = f]
               /\ disk'.update = Remounted.update /\ disk'.sound = Remounted.sound
               /\ disk' \in DiskType
    <3>1. [files EXCEPT ![slot] = f] \in [Slots -> FileType]
      BY <1>1, <1>2, <1>4, <2>1
    <3>2. disk' = [Remounted EXCEPT !.files = [files EXCEPT ![slot] = f]]
      BY <2>1
    <3>3. QED
      BY <1>1, <3>1, <3>2 DEF DiskType
  <2>2. QED
    BY <1>6, <2>1
<1>8. mishaps' \in 0..Mishaps
  BY Spent DEF DepotBegin
<1>9. TypeOK'
  BY <1>1, <1>5, <1>7, <1>8 DEF DepotBegin, TypeOK
<1>10. StageLength' /\ UploadsOnVolume'
  BY <1>7, RemountedIsFine DEF DepotBegin, StageBusy, StageLength, UploadsOnVolume
<1>11. UploadIncomplete'
  BY <1>1, <1>2, <1>5 DEF UploadIncomplete, DiskType
<1>12. CompleteIsWhole' /\ NamesUnique'
  <2>1. CASE disk' = Remounted
    BY <2>1, FilesLeftAlone
  <2>2. CASE /\ slot # 0
             /\ \E f \in {mine, EmptySlot} : disk'.files = [files EXCEPT ![slot] = f]
    <3>1. PICK f \in {mine, EmptySlot} : disk'.files = [files EXCEPT ![slot] = f]
      BY <2>2
    <3>2. /\ slot \in Slots /\ disk'.files[slot] = f
          /\ \A t \in Slots \ {slot} : disk'.files[t] = files[t]
      BY <1>1, <1>2, <2>2, <3>1
    <3>3. f.state # "complete" /\ (f.state # "empty" => f.name = name)
      BY DEF EmptySlot
    <3>4. QED
      BY <1>3, <2>2, <3>2, <3>3, RemountedIsFine DEF CompleteIsWhole, NamesUnique
  <2>3. QED
    BY <1>7, <2>1, <2>2
<1>13. QED
  BY <1>9, <1>10, <1>11, <1>12

LEMMA DepotDataInv ==
    ASSUME Inv, NEW off \in 0..DpSize, NEW n \in 1..MaxData,
           NEW right \in BOOLEAN, NEW kept \in BOOLEAN, NEW finished \in BOOLEAN,
           DepotData(off, n, right, kept, finished)
    PROVE  Inv'
<1> DEFINE now == [upload EXCEPT !.received = @ + n, !.right = @ /\ right,
                                 !.kept = @ /\ kept]
           s == upload.slot
           file == Finished(now, disk.files[s])
<1> USE DEF Inv, Safe, Depot
<1>1. /\ upload.writing /\ s \in Slots /\ disk.files[s] \in FileType
      /\ disk.files[s].state = "incomplete"
      /\ disk \in DiskType /\ disk.files \in [Slots -> FileType]
      /\ mounted /\ stage.st # "receiving"
  BY DEF DepotData, TypeOK, UploadType, DiskType, UploadIncomplete, UploadsOnVolume
<1>2. now \in UploadType /\ now.writing /\ now.slot = s
  <2>1. upload.received + n \in 0..DpSize
    BY GwRemoteAssumption DEF GwRemoteAssumption, DepotData, InSequence, TypeOK, UploadType
  <2>2. (upload.right /\ right) \in BOOLEAN /\ (upload.kept /\ kept) \in BOOLEAN
    OBVIOUS
  <2>3. QED
    BY <1>1, <2>1, <2>2 DEF TypeOK, UploadType
<1>3. /\ file \in FileType
      /\ file.state = "complete" => file.whole
      /\ file.state # "empty" => file.name = disk.files[s].name
  <2>1. CASE Checked(now)
    BY <1>1, <2>1 DEF Finished, Checked, FileType, SlotStates
  <2>2. CASE ~Checked(now)
    BY <2>2, EmptySlotType DEF Finished
  <2>3. QED
    BY <2>1, <2>2
<1>4. \/ upload' = now /\ disk' = disk
      \/ upload' = NoUpload /\ disk' = disk
      \/ upload' = NoUpload /\ disk' = [disk EXCEPT !.files[s] = file]
  BY DEF DepotData
<1>5. /\ NoUpload \in UploadType /\ ~NoUpload.writing
  BY GwRemoteAssumption DEF GwRemoteAssumption, NoUpload, UploadType, Slots
<1>6. CASE disk' = [disk EXCEPT !.files[s] = file] /\ upload' = NoUpload
  <2>1. /\ disk'.files = [disk.files EXCEPT ![s] = file]
        /\ disk'.update = disk.update
        /\ disk' \in DiskType
    <3>1. [disk.files EXCEPT ![s] = file] \in [Slots -> FileType]
      BY <1>1, <1>3
    <3>2. disk' = [disk EXCEPT !.files = [disk.files EXCEPT ![s] = file]]
      BY <1>6
    <3>3. QED
      BY <1>1, <3>1, <3>2 DEF DiskType
  <2>2. CompleteIsWhole'
    BY <1>1, <1>3, <2>1 DEF CompleteIsWhole
  <2>3. NamesUnique'
    BY <1>1, <1>3, <2>1 DEF NamesUnique
  <2>4. StageLength' /\ UploadsOnVolume' /\ UploadIncomplete'
    BY <1>1, <1>5, <1>6, <2>1 DEF DepotData, StageLength, UploadsOnVolume, UploadIncomplete
  <2>5. mishaps' \in 0..Mishaps
    BY Spent DEF DepotData, SpendUnless
  <2>6. TypeOK'
    BY <1>5, <1>6, <2>1, <2>5 DEF DepotData, TypeOK
  <2>7. QED
    BY <2>2, <2>3, <2>4, <2>6
<1>7. CASE disk' = disk /\ upload' \in {now, NoUpload}
  <2>1. StageLength' /\ UploadsOnVolume' /\ UploadIncomplete'
    BY <1>1, <1>2, <1>5, <1>7 DEF DepotData, StageLength, UploadsOnVolume, UploadIncomplete
  <2>2. mishaps' \in 0..Mishaps
    BY Spent DEF DepotData, SpendUnless
  <2>3. TypeOK'
    BY <1>2, <1>5, <1>7, <2>2 DEF DepotData, TypeOK
  <2>4. QED
    BY <1>7, <2>1, <2>3, FilesLeftAlone
<1>8. QED
  BY <1>4, <1>6, <1>7

LEMMA DepotDataFailsInv ==
    ASSUME Inv, DepotDataFails PROVE Inv'
<1> USE DEF Inv, Safe, Depot, DepotDataFails
<1>1. NoUpload \in UploadType /\ ~NoUpload.writing
  BY GwRemoteAssumption DEF GwRemoteAssumption, NoUpload, UploadType, Slots
<1>2. TypeOK'
  BY <1>1, Spent DEF TypeOK
<1>3. StageLength' /\ UploadsOnVolume' /\ UploadIncomplete'
  BY <1>1 DEF StageLength, UploadsOnVolume, UploadIncomplete
<1>4. QED
  BY <1>2, <1>3, FilesLeftAlone

LEMMA DepotDeleteInv ==
    ASSUME Inv, NEW s \in Slots, NEW removed \in BOOLEAN, DepotDelete(s, removed)
    PROVE  Inv'
<1> USE DEF Inv, Safe, Depot
<1>1. /\ Remounted \in DiskType /\ Remounted.files \in [Slots -> FileType]
      /\ NoUpload \in UploadType /\ ~NoUpload.writing /\ EmptySlot \in FileType
      /\ EmptySlot.state = "empty"
  BY RemountedIsFine, GwRemoteAssumption DEF GwRemoteAssumption, DiskType,
     NoUpload, UploadType, Slots, EmptySlot, FileType, SlotStates, AnyName
<1>2. /\ disk' \in DiskType /\ disk'.update = Remounted.update
      /\ disk'.files \in {Remounted.files, [Remounted.files EXCEPT ![s] = EmptySlot]}
  <2>1. CASE disk' = Remounted
    BY <1>1, <2>1
  <2>2. CASE disk' = [Remounted EXCEPT !.files = [Remounted.files EXCEPT ![s] = EmptySlot]]
    <3>1. [Remounted.files EXCEPT ![s] = EmptySlot] \in [Slots -> FileType]
      BY <1>1
    <3>2. QED
      BY <1>1, <2>2, <3>1 DEF DiskType
  <2>3. QED
    BY <2>1, <2>2 DEF DepotDelete
<1>3. /\ upload' \in {upload, NoUpload}
      /\ upload'.writing => upload' = upload /\ upload.slot # s /\ Remounted = disk
  BY <1>1, RemountedIsFine DEF DepotDelete, UploadsOnVolume
<1>4. mishaps' \in 0..Mishaps
  BY Spent DEF DepotDelete, SpendUnless
<1>5. TypeOK'
  BY <1>1, <1>2, <1>3, <1>4 DEF DepotDelete, TypeOK
<1>6. StageLength' /\ UploadsOnVolume'
  BY <1>2, <1>3, RemountedIsFine DEF DepotDelete, StageLength, UploadsOnVolume
<1>7. UploadIncomplete'
  BY <1>1, <1>2, <1>3 DEF UploadIncomplete, TypeOK, UploadType
<1>8. CompleteIsWhole' /\ NamesUnique'
  BY <1>1, <1>2, RemountedIsFine DEF CompleteIsWhole, NamesUnique
<1>9. QED
  BY <1>5, <1>6, <1>7, <1>8

\* Requests that only mount the volume, and the runner's own use of it.
LEMMA MountingInv ==
    ASSUME Inv, mounted' = TRUE, disk' = Remounted, running' \in BOOLEAN,
           UNCHANGED <<armed, stage, upload, regs, resetDue, firmware, mishaps, touched>>
    PROVE  Inv'
<1> USE DEF Inv, Safe, Depot
<1>1. TypeOK'
  BY RemountedIsFine DEF TypeOK
<1>2. StageLength' /\ UploadsOnVolume' /\ UploadIncomplete'
  BY RemountedIsFine DEF StageLength, UploadsOnVolume, UploadIncomplete
<1>3. QED
  BY <1>1, <1>2, FilesLeftAlone

LEMMA UpdateInv ==
    ASSUME Inv, NEW late, Update(late) PROVE Inv'
<1> USE DEF Inv, Safe, Depot
<1>1. NoUpload \in UploadType /\ ~NoUpload.writing
  BY GwRemoteAssumption DEF GwRemoteAssumption, NoUpload, UploadType, Slots
<1>2. /\ stage' \in [st : StageStates, received : 0..FwSize]
      /\ stage' = stage \/ stage'.st = "idle"
  BY GwRemoteAssumption DEF GwRemoteAssumption, Update, Staging, StageStates, TypeOK
<1>3. upload' \in {upload, NoUpload}
  BY DEF Update
<1>4. mounted' \in BOOLEAN
  BY DEF Update
<1>5. upload'.writing \/ stage'.st \in {"receiving", "staged"} => mounted'
  <2>1. CASE stage.st = "receiving" /\ "stage" \in late
    BY <1>1, <2>1 DEF Update, Staging
  <2>2. CASE ~(stage.st = "receiving" /\ "stage" \in late)
    BY <1>1, <2>2 DEF Update, Unneeded, UploadsOnVolume
  <2>3. QED
    BY <2>1, <2>2
<1>6. TypeOK'
  BY <1>1, <1>2, <1>3, <1>4 DEF Update, TypeOK
<1>7. StageLength' /\ UploadsOnVolume' /\ UploadIncomplete'
  BY <1>1, <1>2, <1>3, <1>5 DEF Update, StageLength, UploadsOnVolume, UploadIncomplete
<1>8. QED
  BY <1>6, <1>7, FilesLeftAlone DEF Update

LEMMA BootInv ==
    ASSUME Inv, NEW told \in RegsType, Boot(told), Spend \/ UNCHANGED mishaps
    PROVE  Inv'
<1> USE DEF Inv, Safe, Depot
<1>1. NoUpload \in UploadType /\ ~NoUpload.writing
  BY GwRemoteAssumption DEF GwRemoteAssumption, NoUpload, UploadType, Slots
<1>2. stage' \in [st : StageStates, received : 0..FwSize] /\ stage'.st = "idle"
  BY GwRemoteAssumption DEF GwRemoteAssumption, Boot, Staging, StageStates
<1>3. /\ EmptySlot \in FileType /\ EmptySlot.state = "empty"
      /\ disk \in DiskType /\ disk.files \in [Slots -> FileType]
  BY EmptySlotType DEF TypeOK, DiskType
<1>4. /\ disk'.sound \in BOOLEAN /\ disk'.update = disk.update
      /\ \/ disk'.files = disk.files
         \/ /\ upload.writing
            /\ disk'.files = [disk.files EXCEPT ![upload.slot] = EmptySlot]
      /\ disk' = [sound |-> disk'.sound, update |-> disk'.update, files |-> disk'.files]
  BY <1>3 DEF Boot, Crashed, DiskType
<1>5. disk' \in DiskType
  BY <1>3, <1>4 DEF DiskType
<1>6. firmware' \in {"whole", "torn"} /\ regs' \in RegsType
  BY DEF Boot, Installed, TypeOK, RegsType
<1>7. TypeOK'
  BY <1>1, <1>2, <1>5, <1>6, Spent DEF Boot, TypeOK
<1>8. StageLength' /\ UploadsOnVolume' /\ UploadIncomplete'
  BY <1>1, <1>2 DEF Boot, StageLength, UploadsOnVolume, UploadIncomplete
<1>9. CompleteIsWhole' /\ NamesUnique'
  BY <1>3, <1>4 DEF CompleteIsWhole, NamesUnique, TypeOK, UploadType
<1>10. QED
  BY <1>7, <1>8, <1>9

LEMMA StepInv == Inv /\ [Next]_vars => Inv'
<1> SUFFICES ASSUME Inv, [Next]_vars PROVE Inv'
  OBVIOUS
<1>1. CASE Hello \/ Disarm \/ SetClock \/ FwApply \/ UNCHANGED vars
  <2>0. regs' \in RegsType
    <3>1. regs \in RegsType
      BY DEF Inv, Safe, TypeOK
    <3>2. CASE regs' = regs
      BY <3>1, <3>2
    <3>3. CASE regs' = [regs EXCEPT !.length = FALSE]
      BY <3>1, <3>3 DEF RegsType
    <3>4. CASE regs' = [update |-> TRUE, length |-> TRUE]
      BY <3>4 DEF RegsType
    <3>5. QED
      BY <1>1, <3>2, <3>3, <3>4 DEF Hello, Disarm, SetClock, FwApply, vars
  <2>1. TypeOK'
    <3>1. touched' \subseteq {"begin", "clock"}
      BY <1>1 DEF Hello, Disarm, SetClock, FwApply, vars, Touching, Inv, Safe, TypeOK
    <3>2. QED
      BY <1>1, <2>0, <3>1 DEF Hello, Disarm, SetClock, FwApply, vars, Inv, Safe, TypeOK
  <2>2. UNCHANGED <<stage, upload, mounted, disk>>
    BY <1>1 DEF Hello, Disarm, SetClock, FwApply, vars
  <2>3. StageLength' /\ UploadsOnVolume' /\ UploadIncomplete'
    BY <2>2 DEF Inv, Safe, Depot, StageLength, UploadsOnVolume, UploadIncomplete
  <2>4. QED
    BY <2>1, <2>2, <2>3, FilesLeftAlone DEF Inv, Safe, Depot
<1>2. CASE FwBegin
  BY <1>2, FwBeginInv
<1>3. CASE FwDataFails \/ FwApplyMismatch \/ FwAbort
  BY <1>3, FwGivenUpInv
<1>4. CASE \E off \in 0..FwSize, n \in 1..MaxData, right, kept \in BOOLEAN :
             FwData(off, n, right, kept)
  BY <1>4, FwDataInv
<1>5. CASE \E name \in Names : DepotBegin(name)
  BY <1>5, DepotBeginInv
<1>6. CASE \E off \in 0..DpSize, n \in 1..MaxData, right, kept, finished \in BOOLEAN :
             DepotData(off, n, right, kept, finished)
  BY <1>6, DepotDataInv
<1>7. CASE DepotDataFails
  BY <1>7, DepotDataFailsInv
<1>8. CASE \E s \in Slots, removed \in BOOLEAN : DepotDelete(s, removed)
  BY <1>8, DepotDeleteInv
<1>9. CASE \/ DepotLook
           \/ \E s \in Slots : OtaStart(s)
           \/ \E last \in BOOLEAN : OtaRecord(last)
  <2>1. running' \in BOOLEAN
    BY <1>9 DEF DepotLook, OtaStart, OtaRecord, Inv, Safe, TypeOK
  <2>2. QED
    BY <1>9, <2>1, MountingInv DEF DepotLook, OtaStart, OtaRecord
<1>10. CASE \E late \in SUBSET {"stage", "depot", "volume"} : Update(late)
  BY <1>10, UpdateInv
<1>11. CASE DeferredReset \/ Reset \/ PowerCut
  <2>1. regs \in RegsType /\ NotTold \in RegsType
    BY DEF Inv, Safe, TypeOK, RegsType, NotTold
  <2>2. QED
    BY <1>11, <2>1, BootInv DEF DeferredReset, Reset, PowerCut, NotTold
<1>12. QED
  BY <1>1, <1>2, <1>3, <1>4, <1>5, <1>6, <1>7, <1>8, <1>9, <1>10, <1>11 DEF Next

\* Every reachable state satisfies the invariant.
THEOREM Invariance == Spec => []Inv
BY InitInv, StepInv, PTL DEF Spec

\* Every reachable state is well typed; nothing overruns its announced size.
THEOREM RemoteTypeCorrect == Spec => []TypeOK
<1>1. Inv => TypeOK
  BY DEF Inv, Safe
<1>2. QED
  BY <1>1, Invariance, PTL

\* Every upload and every staged image is on a mounted volume, and the two
\* kinds of upload never write at once (fwUnmount(), gwRemote_update()).
THEOREM UploadsHaveTheirVolume == Spec => []UploadsOnVolume
<1>1. Inv => UploadsOnVolume
  BY DEF Inv, Safe
<1>2. QED
  BY <1>1, Invariance, PTL

\* What lists as complete is the announced image (dpFinish()), and no two slots
\* answer to one name (doDepotBegin()).
THEOREM DepotIsSound == Spec => []DepotSound
<1>1. Inv => DepotSound
  BY DEF Inv, Depot, DepotSound
<1>2. QED
  BY <1>1, Invariance, PTL

(***************************************************************************)
(* What is installed.                                                      *)
(***************************************************************************)

LEMMA StillVerifiedInit == Init => StillVerified
BY DEF Init, StillVerified

\* Mounting the volume leaves the staged file alone, or there is none any more.
LEMMA RemountedUpdate ==
    \/ Remounted.update = disk.update
    \/ ~Remounted.update.there
BY DEF Remounted, Formatted, NoUpdate

\* What a request reaches of the staged file, if it reaches anything, it leaves
\* in the history or takes away altogether.
LEMMA StillVerifiedFw ==
    ASSUME Inv, StillVerified,
           \/ FwBegin \/ FwDataFails \/ FwApply \/ FwApplyMismatch \/ FwAbort
           \/ \E off \in 0..FwSize, n \in 1..MaxData, right, kept \in BOOLEAN :
                 FwData(off, n, right, kept)
    PROVE  StillVerified'
<1> USE DEF StillVerified
<1>1. CASE FwBegin
  <2>1. regs' = regs
    BY <1>1 DEF FwBegin
  <2>2. CASE Touching("begin")
    BY <2>1, <2>2 DEF Touching
  <2>3. CASE /\ FwReset("idle")
             /\ disk' \in {disk, [(IF disk.sound THEN disk ELSE Formatted)
                                  EXCEPT !.update = NoUpdate]}
             /\ UNCHANGED touched
    <3>1. disk'.update \in {disk.update, NoUpdate} /\ stage'.st # "receiving"
      <4>1. disk \in DiskType /\ Formatted \in DiskType
        BY FormattedIsBlank DEF Inv, Safe, TypeOK
      <4>2. QED
        BY <2>3, <4>1 DEF FwReset, Staging, DiskType
    <3>2. QED
      BY <2>1, <2>3, <3>1 DEF NoUpdate
  <2>4. QED
    BY <1>1, <2>2, <2>3 DEF FwBegin
<1>2. CASE \/ FwDataFails
           \/ \E off \in 0..FwSize, n \in 1..MaxData, right, kept \in BOOLEAN :
                 FwData(off, n, right, kept)
  BY <1>2 DEF FwDataFails, FwData
<1>3. CASE FwApply
  BY <1>3 DEF FwApply, MayApply
<1>4. CASE FwApplyMismatch \/ FwAbort
  BY <1>4 DEF FwApplyMismatch, FwAbort, FwReset, Staging
<1>5. QED
  BY <1>1, <1>2, <1>3, <1>4

\* The depot shares the volume with the staged file, not the file.
LEMMA StillVerifiedDepot ==
    ASSUME Inv, StillVerified, UNCHANGED <<stage, regs, touched>>,
           \/ \E name \in Names : DepotBegin(name)
           \/ \E off \in 0..DpSize, n \in 1..MaxData, right, kept, finished \in BOOLEAN :
                 DepotData(off, n, right, kept, finished)
           \/ DepotDataFails
           \/ \E s \in Slots, removed \in BOOLEAN : DepotDelete(s, removed)
    PROVE  StillVerified'
<1>1. disk'.update \in {disk.update, Remounted.update}
  <2>1. disk \in DiskType /\ Remounted \in DiskType
    BY RemountedIsFine DEF Inv, Safe, TypeOK
  <2>2. CASE \E name \in Names : DepotBegin(name)
    BY <2>1, <2>2 DEF DepotBegin, DiskType
  <2>3. CASE \E off \in 0..DpSize, n \in 1..MaxData, right, kept, finished \in BOOLEAN :
               DepotData(off, n, right, kept, finished)
    <3>1. PICK off \in 0..DpSize, n \in 1..MaxData, right \in BOOLEAN,
               kept \in BOOLEAN, finished \in BOOLEAN :
               DepotData(off, n, right, kept, finished)
      BY <2>3
    <3>2. \/ disk' = disk
          \/ \E f : disk' = [disk EXCEPT !.files[upload.slot] = f]
      BY <3>1 DEF DepotData
    <3>3. QED
      BY <2>1, <3>2 DEF DiskType
  <2>4. CASE DepotDataFails
    BY <2>4 DEF DepotDataFails
  <2>5. CASE \E s \in Slots, removed \in BOOLEAN : DepotDelete(s, removed)
    BY <2>1, <2>5 DEF DepotDelete, DiskType
  <2>6. QED
    BY <2>2, <2>3, <2>4, <2>5
<1>2. QED
  BY <1>1, RemountedUpdate DEF StillVerified

LEMMA StillVerifiedStep ==
    Inv /\ StillVerified /\ [Next]_vars => StillVerified'
<1> SUFFICES ASSUME Inv, StillVerified, [Next]_vars PROVE StillVerified'
  OBVIOUS
<1>1. CASE \/ FwBegin \/ FwDataFails \/ FwApply \/ FwApplyMismatch \/ FwAbort
           \/ \E off \in 0..FwSize, n \in 1..MaxData, right, kept \in BOOLEAN :
                 FwData(off, n, right, kept)
  BY <1>1, StillVerifiedFw
<1>2. CASE \/ \E name \in Names : DepotBegin(name)
           \/ \E off \in 0..DpSize, n \in 1..MaxData, right, kept, finished \in BOOLEAN :
                 DepotData(off, n, right, kept, finished)
           \/ DepotDataFails
           \/ \E s \in Slots, removed \in BOOLEAN : DepotDelete(s, removed)
  <2>1. UNCHANGED <<stage, regs, touched>>
    BY <1>2 DEF DepotBegin, DepotData, DepotDataFails, DepotDelete
  <2>2. QED
    BY <1>2, <2>1, StillVerifiedDepot
<1>3. CASE SetClock
  <2>1. regs \in RegsType
    BY DEF Inv, Safe, TypeOK
  <2>2. QED
    BY <1>3, <2>1 DEF SetClock, Touching, RegsType, StillVerified
<1>4. CASE Hello \/ Disarm \/ UNCHANGED vars
  BY <1>4 DEF Hello, Disarm, vars, StillVerified, Verified
<1>5. CASE \/ DepotLook
           \/ \E s \in Slots : OtaStart(s)
           \/ \E last \in BOOLEAN : OtaRecord(last)
  BY <1>5, RemountedUpdate DEF DepotLook, OtaStart, OtaRecord, StillVerified, Verified
<1>6. CASE \E late \in SUBSET {"stage", "depot", "volume"} : Update(late)
  BY <1>6 DEF Update, Staging, StillVerified, Verified
<1>7. CASE DeferredReset \/ Reset \/ PowerCut
  <2>1. PICK told \in {regs, NotTold} : Boot(told)
    BY <1>7 DEF DeferredReset, Reset, PowerCut, NotTold
  <2>2. told \in RegsType
    <3>1. regs \in RegsType /\ NotTold \in RegsType
      BY DEF Inv, Safe, TypeOK, RegsType, NotTold
    <3>2. QED
      BY <3>1
  <2>3. QED
    BY <2>1, <2>2 DEF Boot, RegsType, StillVerified
<1>8. QED
  BY <1>1, <1>2, <1>3, <1>4, <1>5, <1>6, <1>7 DEF Next

\* doFwApply()'s invariant, with its exceptions named: what the bootloader
\* installs is whole, unless a FW_BEGIN or a setting of the clock was served
\* between the APPLY and the boot.
THEOREM NothingTornInstalled == Spec => NoTornFirmware
<1>1. Inv /\ StillVerified /\ [Next]_vars
        => (firmware = "whole" /\ firmware' = "torn" => touched # {})
  <2> SUFFICES ASSUME Inv, StillVerified, [Next]_vars,
                      firmware = "whole", firmware' = "torn", touched = {}
               PROVE  FALSE
    OBVIOUS
  <2>1. firmware' # firmware
    OBVIOUS
  <2>2. DeferredReset \/ Reset \/ PowerCut
    BY <2>1 DEF Next, vars, Hello, Disarm, SetClock, FwBegin, FwData, FwDataFails,
       FwApply, FwApplyMismatch, FwAbort, DepotBegin, DepotData, DepotDataFails,
       DepotDelete, DepotLook, OtaStart, OtaRecord, Update
  <2>3. PICK told \in {regs, NotTold} : Boot(told)
    BY <2>2 DEF DeferredReset, Reset, PowerCut, NotTold
  <2>4. disk'.update = disk.update
    BY <2>3 DEF Boot, Crashed
  <2>5. told.update /\ disk.update.there
    BY <2>1, <2>3, <2>4 DEF Boot, Installed
  <2>6. told = regs
    BY <2>3, <2>5 DEF NotTold
  <2>7. regs.length /\ Verified(disk.update)
    BY <2>5, <2>6 DEF StillVerified
  <2>8. QED
    BY <2>1, <2>3, <2>4, <2>5, <2>6, <2>7 DEF Boot, Installed, Verified
<1>2. QED
  BY <1>1, StillVerifiedInit, StillVerifiedStep, Invariance, PTL DEF Spec, NoTornFirmware

(***************************************************************************)
(* What ends a complete image.                                             *)
(***************************************************************************)

\* A complete image of another name is never taken (doDepotBegin()), and
\* neither a crash nor a timeout ends one.
THEOREM CompleteImagesKept == Spec => CompleteKept
<1> DEFINE Kept == \A s \in Slots :
                      /\ disk.sound
                      /\ disk.files[s].state = "complete"
                      /\ disk'.files[s] # disk.files[s]
                      => /\ armed
                         /\ \/ disk'.files[s] = EmptySlot
                            \/ disk'.files[s].name = disk.files[s].name
<1>1. Inv /\ [Next]_vars => Kept
  <2> SUFFICES ASSUME Inv, [Next]_vars, disk.sound PROVE Kept
    OBVIOUS
  <2>1. /\ Remounted = disk /\ disk.files \in [Slots -> FileType]
    BY RemountedIsFine DEF Inv, Safe, TypeOK, DiskType
  <2>2. CASE disk'.files = disk.files
    BY <2>2
  <2>3. CASE \E name \in Names : DepotBegin(name)
    <3>1. PICK name \in Names : DepotBegin(name)
      BY <2>3
    <3>2. \A t \in Slots : disk.files[t].state = "complete"
             => disk'.files[t] \in {disk.files[t], EmptySlot} \/ disk'.files[t].name = disk.files[t].name
      <4> DEFINE slot == SlotFor(disk.files, name)
                 mine == [state |-> "incomplete", name |-> name, whole |-> FALSE]
      <4>1. \/ disk' = disk
            \/ slot # 0 /\ \E f \in {mine, EmptySlot} : disk' = [disk EXCEPT !.files[slot] = f]
        BY <2>1, <3>1 DEF DepotBegin
      <4>2. \/ disk' = disk
            \/ slot # 0 /\ \E f \in {mine, EmptySlot} : disk'.files = [disk.files EXCEPT ![slot] = f]
        BY <4>1 DEF Inv, Safe, TypeOK, DiskType
      <4>3. /\ slot \in Called(disk.files, name) => disk.files[slot].name = name
            /\ slot # 0 => \/ slot \in Called(disk.files, name)
                           \/ disk.files[slot].state # "complete"
        BY <2>1, SlotForIsRight DEF Called
      <4>4. QED
        BY <2>1, <4>2, <4>3
    <3>3. armed
      BY <3>1 DEF DepotBegin
    <3>4. QED
      BY <3>2, <3>3
  <2>4. CASE \E s \in Slots, removed \in BOOLEAN : DepotDelete(s, removed)
    <3>1. PICK s \in Slots, removed \in BOOLEAN : DepotDelete(s, removed)
      BY <2>4
    <3>2. armed /\ disk'.files \in {disk.files, [disk.files EXCEPT ![s] = EmptySlot]}
      BY <2>1, <3>1 DEF DepotDelete, Inv, Safe, TypeOK, DiskType
    <3>3. QED
      BY <2>1, <3>2
  <2>5. CASE \E off \in 0..DpSize, n \in 1..MaxData, right, kept, finished \in BOOLEAN :
               DepotData(off, n, right, kept, finished)
    <3>1. /\ disk.files[upload.slot].state = "incomplete"
          /\ \/ disk' = disk
             \/ \E f : disk' = [disk EXCEPT !.files[upload.slot] = f]
      BY <2>5 DEF DepotData, Inv, Depot, UploadIncomplete
    <3>2. \/ disk'.files = disk.files
          \/ \E f : disk'.files = [disk.files EXCEPT ![upload.slot] = f]
      BY <3>1 DEF Inv, Safe, TypeOK, DiskType
    <3>3. QED
      BY <2>1, <3>1, <3>2
  <2>6. CASE DeferredReset \/ Reset \/ PowerCut
    <3>1. PICK told : Boot(told)
      BY <2>6 DEF DeferredReset, Reset, PowerCut
    <3>2. \/ disk'.files = disk.files
          \/ /\ upload.writing
             /\ disk'.files = [disk.files EXCEPT ![upload.slot] = EmptySlot]
      BY <3>1 DEF Boot, Crashed, Inv, Safe, TypeOK, DiskType
    <3>3. upload.writing => disk.files[upload.slot].state = "incomplete"
      BY DEF Inv, Depot, UploadIncomplete
    <3>4. QED
      BY <2>1, <3>2, <3>3
  <2>7. CASE FwBegin
    <3>1. disk' \in {disk, [disk EXCEPT !.update = NoUpdate],
                     [disk EXCEPT !.update = [there |-> TRUE, len |-> 0, whole |-> TRUE]]}
      BY <2>7 DEF FwBegin
    <3>2. disk'.files = disk.files
      BY <3>1 DEF Inv, Safe, TypeOK, DiskType
    <3>3. QED
      BY <2>2, <3>2
  <2>8. CASE \/ \E off \in 0..FwSize, n \in 1..MaxData, right, kept \in BOOLEAN :
                  FwData(off, n, right, kept)
             \/ FwDataFails
    BY <2>2, <2>8 DEF FwData, FwDataFails, Inv, Safe, TypeOK, DiskType
  <2>9. CASE disk' = disk
    BY <2>2, <2>9
  <2>10. QED
    BY <2>1, <2>3, <2>4, <2>5, <2>6, <2>7, <2>8, <2>9 DEF Next, vars, Hello, Disarm, SetClock,
       FwApply, FwApplyMismatch, FwAbort, DepotDataFails, DepotLook, OtaStart,
       OtaRecord, Update
<1>2. QED
  BY <1>1, Invariance, PTL DEF Spec, CompleteKept
=============================================================================
