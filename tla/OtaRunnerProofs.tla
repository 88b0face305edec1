-------------------------- MODULE OtaRunnerProofs ---------------------------
(***************************************************************************)
(* Theorems about OtaRunner, for every set of modules, wiring of the hub,  *)
(* size of image and setting of the retries, and for any number of runs,   *)
(* resets and foreign requests.                                            *)
(***************************************************************************)
EXTENDS OtaRunner, FiniteSetTheorems, WellFoundedInduction, TLAPS

(***************************************************************************)
(* The inductive invariants.                                               *)
(***************************************************************************)

RunType == [tries : Nat, active : BOOLEAN, abort : BOOLEAN, ph : Phases,
            target : Ids \cup {0}, seq : Nat, img : Images \cup {0},
            result : Results]
RowType == [st : ModStates, tries : Nat, before : Versions \cup {0}]
GroupType == [members : SUBSET Ids, ch : Nat, todo : SUBSET Ids, sub : Nat,
              idx : Chunks, round : Nat, missing : SUBSET Chunks]
RecordType == [seq : Nat, ok : BOOLEAN, state : Results]
DevRecord == [state : DevStates, have : [Chunks -> Images \cup {0}],
              meta : Images \cup {0}, fw : Versions]
HubType == [ch : Nat, settled : BOOLEAN, wait : 0..SettleWaits]
\* A verified module has had metadata.
DevType == {d \in DevRecord : d.state = "verified" => d.meta # 0}

TypeOK ==
    /\ run \in RunType
    /\ mods \in [Ids -> RowType]
    /\ grp \in GroupType
    /\ file \in [0..1 -> RecordType]
    /\ hub \in HubType
    /\ quiet \in BOOLEAN /\ held \subseteq Ids
    /\ dev \in [Ids -> DevType]
    /\ applied \subseteq Ids
    /\ kept \in RecordType
    /\ {foreign, starts, resets} \subseteq Nat

\* Phases in which no module is in a session of the run
Outside == {"pick", "waitApply", "probe", "meta", "enter", "apply", "confirm"}

\* What the runner knows of its group in each phase.
GroupInv ==
    /\ run.active => run.img \in Images
    /\ run.result = "running" <=> run.active
    /\ grp.todo \subseteq grp.members
    /\ run.active =>
        /\ IF run.ph \in Outside THEN In({"session", "complete"}) = {}
           ELSE In({"session", "complete"}) \subseteq grp.members
        /\ run.ph \in {"probe", "enter", "enterCheck"} => grp.todo # {}
        /\ run.ph \in {"probe", "enterCheck"} => grp.todo \subseteq In({"pending"})
        /\ run.ph \in {"meta", "enter"} => grp.members \subseteq In({"pending"})
        /\ run.ph = "meta" => grp.members # {}
        /\ run.ph = "enterCheck" => In({"complete"}) = {}
        /\ run.ph = "repairSend" => grp.missing # {}
        /\ run.ph = "finalizeCheck" => In({"session", "complete"}) \subseteq grp.todo
        /\ run.ph \in {"apply", "confirm"} => run.target \in In({"verified"})

\* Whoever was probed has its version on record.
ProbedInv ==
    run.active =>
        /\ \A u \in In({"session", "complete", "verified"}) : mods[u].before # 0
        /\ run.ph = "probe" =>
               \A u \in grp.members \ grp.todo :
                   mods[u].st = "pending" => mods[u].before # 0
        /\ run.ph \in {"meta", "enter", "enterCheck"} =>
               \A u \in grp.members : mods[u].before # 0

\* Phases in which the group has had the metadata of the run
AfterMeta == {"enter", "enterCheck", "stream", "repair", "repairSend",
              "finalize", "finalizeCheck"}

\* No session outlives its run, or no frame is lost.
NoLeftovers == ~Leftover \/ ~Lossy

\* The group is on one channel (pickGroup()).
OneChannel == \A u \in grp.members : Chan[u] = grp.ch

\* Without leftovers a session of a run holds chunks of its image only.
Collected ==
    ~Leftover => \A u \in Ids : dev[u].state = "receiving" =>
                    \A c \in Chunks : dev[u].have[c] \in {0, run.img}

\* If nothing is lost, META has told the whole group.
Told == ~Lossy /\ run.ph \in AfterMeta => \A u \in grp.members : dev[u].meta = run.img

\* What an open module verified is the image of the run.
OpenIsOurs ==
    \A u \in In({"session", "complete"}) :
        dev[u].state = "verified" => dev[u].meta = run.img

\* The probe's answer stands until APPLY.
StillBefore ==
    \A u \in Ids \ applied : mods[u].before # 0 => dev[u].fw = mods[u].before

\* Whoever acted on APPLY runs the image, and waits for its confirmation or
\* has it.
NowRuns ==
    \A u \in applied :
        /\ dev[u].fw = run.img
        /\ mods[u].st \notin {"pending", "session", "complete"}
        /\ mods[u].st = "verified" => run.ph = "confirm" /\ run.target = u

\* Which image a module of the run can hold.
ImageInv ==
    /\ run.active => Collected /\ Told /\ OpenIsOurs /\ StillBefore /\ NowRuns
    /\ RecordedIsTrue

\* The two files: where a record is, and which one the run is writing.
RecordInv ==
    /\ \A i \in 0..1 : file[i].ok => Path(file[i].seq) = i
    /\ run.active /\ kept.ok => file[1 - Path(run.seq)] = kept

(***************************************************************************)
(* What the operators of the model yield.                                  *)
(***************************************************************************)

\* A set of numbers that is not empty has its minimum.
LEMMA MinIsMember ==
    ASSUME NEW S, S \subseteq Nat, S # {}
    PROVE  Min(S) \in S /\ \A y \in S : Min(S) <= y
<1>1. PICK x \in S : \A y \in S : ~(<<y, x>> \in OpToRel(<, Nat))
  BY WFMin, NatLessThanWellFounded
<1>2. \A y \in S : ~(y < x)
  BY <1>1 DEF OpToRel
<1>3. \A y \in S : x <= y
  BY <1>2
<1>4. QED
  BY <1>3 DEF Min

\* A finite set of numbers that is not empty has its maximum.
LEMMA MaxIsMember ==
    ASSUME NEW S, S \subseteq Nat, S # {}, IsFiniteSet(S)
    PROVE  Max(S) \in S
<1> DEFINE up(x) == {y \in S : y >= x}
           C == {Cardinality(up(x)) : x \in S}
<1>1. \A x \in S : IsFiniteSet(up(x)) /\ Cardinality(up(x)) \in Nat
  BY FS_Subset, FS_CardinalityType
<1>2. C \subseteq Nat /\ C # {}
  BY <1>1
<1>3. PICK x \in S : Min(C) = Cardinality(up(x))
  BY <1>2, MinIsMember
<1>4. ASSUME NEW y \in S, y > x
      PROVE  FALSE
  <2>. x \in Nat /\ y \in Nat /\ \A z \in S : z \in Nat
    OBVIOUS
  <2>1. up(y) \subseteq up(x) /\ x \in up(x) /\ x \notin up(y)
    <3>1. x >= x /\ ~(x >= y) /\ \A z \in S : z >= y => z >= x
      BY <1>4
    <3>2. QED
      BY <3>1
  <2>2. Cardinality(up(y)) < Cardinality(up(x))
    BY <2>1, <1>1, FS_Subset
  <2>3. Min(C) <= Cardinality(up(y))
    BY <1>2, MinIsMember
  <2>4. QED
    <3>1. Cardinality(up(x)) \in Nat /\ Cardinality(up(y)) \in Nat
      BY <1>1
    <3>2. QED
      BY <3>1, <1>3, <2>2, <2>3
<1>5. \A y \in S : x >= y
  BY <1>4
<1>6. QED
  BY <1>5 DEF Max

\* What the assumption on the constants says, in the form the proofs use.
LEMMA Constants ==
    /\ Ids \subseteq Nat /\ Ids # {} /\ IsFiniteSet(Ids)
    /\ \A u \in Ids : Chan[u] \in Nat
    /\ 0 \notin Images /\ 0 \notin Versions
    /\ Total \in Nat \ {0} /\ 0 \in Chunks /\ Chunks \subseteq Nat
    /\ {GroupMax, MaxTries, ReadTries, RepairRounds, ConfirmTries} \subseteq Nat \ {0}
    /\ Images \subseteq Versions
    /\ SettleWaits \in Nat
BY OtaAssumption DEF OtaAssumption, Chunks, Versions

\* The member in hand is a member (_grp[_pos]).
LEMMA ThisIsMember ==
    ASSUME grp \in GroupType, grp.todo # {}
    PROVE  This \in grp.todo /\ This \in Ids /\ NextMember \subseteq grp.todo
<1>1. grp.todo \subseteq Ids
  BY DEF GroupType
<1>2. QED
  BY <1>1, MinIsMember, Constants DEF This, NextMember

\* A row that lost a try is pending again or given up (dropMember()).
LEMMA DroppedRow ==
    ASSUME NEW m \in RowType
    PROVE  /\ Dropped(m) \in RowType
           /\ Dropped(m).st \in {"pending", "gaveUp"}
           /\ Dropped(m).before = m.before
<1>1. PICK s \in {"pending", "gaveUp"} :
        Dropped(m) = [m EXCEPT !.tries = m.tries + 1, !.st = s]
  BY DEF Dropped
<1>2. m.tries + 1 \in Nat /\ s \in ModStates
  BY DEF RowType, ModStates
<1>3. PICK k \in Nat : k = m.tries + 1
  BY <1>2
<1>4. Dropped(m) = [m EXCEPT !.tries = k, !.st = s]
  BY <1>1, <1>3
<1>5. QED
  BY <1>2, <1>4 DEF RowType

LEMMA NoChunksType == NoChunks \in [Chunks -> Images \cup {0}] /\ \A c \in Chunks : NoChunks[c] = 0
BY DEF NoChunks

\* A chunk changes nothing of a module but that chunk, and only where it was
\* missing.
LEMMA TakingEffect ==
    ASSUME NEW d \in [Ids -> DevType], NEW H, NEW c \in Chunks,
           run.img \in Images \cup {0}
    PROVE  /\ Taking(d, H, c) \in [Ids -> DevType]
           /\ \A u \in Ids :
                /\ Taking(d, H, c)[u].state = d[u].state
                /\ Taking(d, H, c)[u].meta = d[u].meta
                /\ Taking(d, H, c)[u].fw = d[u].fw
                /\ \A k \in Chunks : Taking(d, H, c)[u].have[k] \in {d[u].have[k], run.img}
<1> DEFINE t == Taking(d, H, c)
<1>1. t = [u \in Ids |-> IF u \in H /\ d[u].state = "receiving" /\ d[u].have[c] = 0
                         THEN [d[u] EXCEPT !.have[c] = run.img] ELSE d[u]]
  BY DEF Taking
<1>2. ASSUME NEW u \in Ids
      PROVE  /\ t[u] \in DevType
             /\ t[u].state = d[u].state /\ t[u].meta = d[u].meta /\ t[u].fw = d[u].fw
             /\ \A k \in Chunks : t[u].have[k] \in {d[u].have[k], run.img}
  <2>1. d[u] \in DevType
    OBVIOUS
  <2>2. CASE t[u] = d[u]
    BY <2>1, <2>2
  <2>3. CASE t[u] = [d[u] EXCEPT !.have[c] = run.img]
    BY <2>1, <2>3 DEF DevType, DevRecord
  <2>4. QED
    BY <1>1, <2>2, <2>3
<1>3. QED
  BY <1>1, <1>2

\* FINALIZE changes nothing but the state of modules with every chunk, and what
\* they had is gone; a module is verified only if each chunk was its metadata's.
LEMMA CheckedEffect ==
    ASSUME NEW d \in [Ids -> DevType], NEW H
    PROVE  /\ Checked(d, H) \in [Ids -> DevType]
           /\ \A u \in Ids :
                /\ Checked(d, H)[u].meta = d[u].meta
                /\ Checked(d, H)[u].fw = d[u].fw
                /\ \/ Checked(d, H)[u] = d[u]
                   \/ /\ d[u].state = "receiving"
                      /\ Checked(d, H)[u].state = "error"
                   \/ /\ d[u].state = "receiving"
                      /\ Checked(d, H)[u].state = "verified"
                      /\ \A c \in Chunks : d[u].have[c] = d[u].meta /\ d[u].have[c] # 0
<1> DEFINE t == Checked(d, H)
           skip(u) == u \notin H \/ d[u].state # "receiving"
                      \/ 0 \in {d[u].have[c] : c \in Chunks}
           whole(u) == \A c \in Chunks : d[u].have[c] = d[u].meta
<1>1. /\ t \in [Ids -> {t[u] : u \in Ids}]
      /\ \A u \in Ids : t[u] =
           IF skip(u) THEN d[u]
           ELSE [d[u] EXCEPT !.state = IF whole(u) THEN "verified" ELSE "error",
                             !.have = NoChunks]
  BY DEF Checked
<1>2. ASSUME NEW u \in Ids
      PROVE  /\ t[u] \in DevType
             /\ t[u].meta = d[u].meta /\ t[u].fw = d[u].fw
             /\ \/ t[u] = d[u]
                \/ d[u].state = "receiving" /\ t[u].state = "error"
                \/ /\ d[u].state = "receiving" /\ t[u].state = "verified"
                   /\ \A c \in Chunks : d[u].have[c] = d[u].meta /\ d[u].have[c] # 0
  <2>1. d[u] \in DevType
    OBVIOUS
  <2>2. CASE skip(u)
    BY <1>1, <2>1, <2>2
  <2>3. CASE ~skip(u)
    <3>1. /\ d[u].state = "receiving"
          /\ \A c \in Chunks : d[u].have[c] # 0
      BY <2>3
    <3>2. PICK s \in {"verified", "error"} :
            /\ s = IF whole(u) THEN "verified" ELSE "error"
            /\ t[u] = [d[u] EXCEPT !.state = s, !.have = NoChunks]
      BY <1>1, <2>3
    <3>3. /\ t[u] \in DevType /\ t[u].meta = d[u].meta /\ t[u].fw = d[u].fw
          /\ t[u].state = s
      BY <2>1, <2>3, <3>1, <3>2, NoChunksType, Constants DEF DevType, DevRecord, DevStates
    <3>4. QED
      BY <3>1, <3>2, <3>3
  <2>4. QED
    BY <2>2, <2>3
<1>3. QED
  BY <1>1, <1>2

\* ABORT leaves the image's metadata and the firmware; APPLY makes the
\* metadata's image the firmware.
LEMMA ClearedEffect ==
    ASSUME NEW d \in DevType
    PROVE  /\ Cleared(d) \in DevType
           /\ Cleared(d).state = "idle" /\ Cleared(d).fw = d.fw
           /\ d.state = "verified" =>
                /\ Booted(d) \in DevType
                /\ Booted(d).state = "idle" /\ Booted(d).fw = d.meta
BY NoChunksType, Constants DEF Cleared, Booted, DevType, DevRecord, DevStates

\* What a run, a row, a group and a record start as.
LEMMA StartTypes ==
    /\ NoRun \in RunType /\ NoGroup \in GroupType /\ NoRecord \in RecordType
    /\ Fresh \in [Ids -> RowType]
    /\ \A u \in Ids : Fresh[u].st = "pending" /\ Fresh[u].before = 0
<1>1. 0 \in Chunks
  BY Constants
<1>2. QED
  BY <1>1 DEF NoRun, NoGroup, NoRecord, Fresh, RunType, GroupType, RecordType,
              RowType, Phases, Results, ModStates

\* What a hub that is on a channel, or switching to it, or waited for looks like.
LEMMA HubTypes ==
    /\ \A c \in Nat : /\ HubOn(c) \in HubType
                     /\ HubOn(c).ch = c /\ HubOn(c).settled
    /\ \A c \in Nat, w \in 0..SettleWaits :
          /\ Switching(c, w) \in HubType
          /\ Switching(c, w).ch = c /\ ~Switching(c, w).settled
          /\ Switching(c, w).wait = w
    /\ \A h \in HubType :
          /\ Paused(h) \in HubType
          /\ Paused(h).ch = h.ch /\ Paused(h).settled = h.settled
          /\ Paused(h).wait = IF h.wait = 0 THEN 0 ELSE h.wait - 1
          /\ Outwaited(h) \in HubType
          /\ Outwaited(h).ch = h.ch /\ Outwaited(h).wait = 0
<1>1. SettleWaits \in Nat
  BY Constants
<1>2. ASSUME NEW c \in Nat PROVE HubOn(c) \in HubType /\ HubOn(c).ch = c /\ HubOn(c).settled
  BY <1>1 DEF HubOn, HubType
<1>3. ASSUME NEW c \in Nat, NEW w \in 0..SettleWaits
      PROVE  /\ Switching(c, w) \in HubType
             /\ Switching(c, w).ch = c /\ ~Switching(c, w).settled
             /\ Switching(c, w).wait = w
  BY DEF Switching, HubType
<1>4. ASSUME NEW h \in HubType
      PROVE  /\ Paused(h) \in HubType
             /\ Paused(h).ch = h.ch /\ Paused(h).settled = h.settled
             /\ Paused(h).wait = IF h.wait = 0 THEN 0 ELSE h.wait - 1
  <2>1. PICK w : w = IF h.wait = 0 THEN 0 ELSE h.wait - 1
    OBVIOUS
  <2>2. w \in 0..SettleWaits
    BY <1>1, <2>1 DEF HubType
  <2>3. Paused(h) = [h EXCEPT !.wait = w]
    BY <2>1 DEF Paused
  <2>4. QED
    BY <2>1, <2>2, <2>3 DEF HubType
<1>5. ASSUME NEW h \in HubType
      PROVE  /\ Outwaited(h) \in HubType
             /\ Outwaited(h).ch = h.ch /\ Outwaited(h).wait = 0
  BY <1>1 DEF Outwaited, HubType
<1>6. QED
  BY <1>2, <1>3, <1>4, <1>5

\* A frame that crosses leaves the hub on the module's channel.
LEMMA HubAfterEffect ==
    ASSUME hub \in HubType, NEW u \in Ids, NEW heard \in BOOLEAN
    PROVE  /\ HubAfter(u, heard) \in HubType
           /\ Chan[u] = 0 => HubAfter(u, heard) = hub
           /\ Chan[u] # 0 => HubAfter(u, heard).ch = Chan[u]
           /\ Chan[u] # 0 /\ (heard \/ (Reach(u) /\ hub.settled))
                => HubAfter(u, heard).settled
           /\ Chan[u] # 0 /\ ~(heard \/ (Reach(u) /\ hub.settled))
                => /\ ~HubAfter(u, heard).settled
                   /\ HubAfter(u, heard).wait
                        = IF Reach(u) THEN hub.wait ELSE SettleWaits
<1>1. Chan[u] \in Nat /\ SettleWaits \in 0..SettleWaits /\ hub.wait \in 0..SettleWaits
  BY Constants DEF HubType
<1>2. CASE Chan[u] = 0
  BY <1>2 DEF HubAfter
<1>3. CASE Chan[u] # 0 /\ (heard \/ (Reach(u) /\ hub.settled))
  BY <1>1, <1>3, HubTypes DEF HubAfter
<1>4. CASE Chan[u] # 0 /\ ~(heard \/ (Reach(u) /\ hub.settled))
  <2>1. PICK w \in 0..SettleWaits : w = IF Reach(u) THEN hub.wait ELSE SettleWaits
    BY <1>1
  <2>2. HubAfter(u, heard) = Switching(Chan[u], w)
    BY <1>4, <2>1 DEF HubAfter
  <2>3. QED
    BY <1>1, <1>4, <2>1, <2>2, HubTypes
<1>5. QED
  BY <1>2, <1>3, <1>4

LEMMA UnicastEffect ==
    ASSUME hub \in HubType, NEW u \in Ids, NEW heard \in BOOLEAN, Unicast(u, heard)
    PROVE  hub' \in HubType
BY HubAfterEffect DEF Unicast

\* Changing one row leaves the others.
LEMMA SetEffect ==
    ASSUME mods \in [Ids -> RowType], NEW u \in Ids, NEW m \in RowType
    PROVE  /\ Set(u, m) \in [Ids -> RowType]
           /\ Set(u, m)[u] = m
           /\ \A v \in Ids \ {u} : Set(u, m)[v] = mods[v]
BY DEF Set

LEMMA PathType == ASSUME NEW n \in Nat PROVE Path(n) \in 0..1
BY DEF Path

\* readRecord(0) gives the newer of the readable records.
LEMMA LatestEffect ==
    ASSUME file \in [0..1 -> RecordType]
    PROVE  /\ Latest \in RecordType /\ NextSeq \in Nat
           /\ Latest.ok => \E i \in 0..1 : file[i].ok /\ Latest = file[i]
<1>1. CASE Readable = {}
  BY <1>1, StartTypes DEF Latest, NoRecord, NextSeq, RecordType
<1>2. CASE Readable # {}
  <2>1. 0..1 = {0, 1} /\ file[0].seq \in Nat /\ file[1].seq \in Nat
    BY DEF RecordType
  <2>2. \E i \in Readable : \A j \in Readable : file[j].seq <= file[i].seq
    BY <1>2, <2>1 DEF Readable
  <2>3. PICK i \in Readable : Latest = file[i]
    BY <1>2, <2>2 DEF Latest
  <2>4. QED
    BY <2>3 DEF Readable, NextSeq, RecordType
<1>3. QED
  BY <1>1, <1>2

\* A record goes to the file its number names; the other file is left.
LEMMA WriteEffect ==
    ASSUME file \in [0..1 -> RecordType], NEW n \in Nat, NEW s \in Results,
           WriteRecord(n, s)
    PROVE  /\ file' \in [0..1 -> RecordType]
           /\ file'[Path(n)] = [seq |-> n, ok |-> TRUE, state |-> s]
           /\ file'[1 - Path(n)] = file[1 - Path(n)]
           /\ \A i \in 0..1 : i # Path(n) => file'[i] = file[i]
<1>1. Path(n) \in 0..1 /\ 1 - Path(n) \in 0..1 /\ 1 - Path(n) # Path(n)
  BY PathType
<1>2. [seq |-> n, ok |-> TRUE, state |-> s] \in RecordType
  BY DEF RecordType
<1>3. QED
  BY <1>1, <1>2 DEF WriteRecord

\* Back to PICK: the run goes on, without a target.
LEMMA BackEffect ==
    ASSUME TypeOK, BackToPick
    PROVE  /\ run' \in RunType
           /\ run'.ph = "pick" /\ run'.active = run.active
           /\ run'.seq = run.seq /\ run'.img = run.img /\ run'.result = run.result
           /\ file' \in [0..1 -> RecordType]
           /\ WriteRecord(run.seq, "running")
<1>1. run \in RunType
  BY DEF TypeOK
<1>2. run' = [run EXCEPT !.ph = "pick", !.target = 0, !.tries = 0]
  BY DEF BackToPick
<1>3. "running" \in Results /\ run.seq \in Nat
  BY <1>1 DEF RunType, Results
<1>4. file' \in [0..1 -> RecordType]
  BY <1>3, WriteEffect DEF BackToPick, TypeOK
<1>5. /\ run' \in RunType
      /\ run'.ph = "pick" /\ run'.active = run.active
      /\ run'.seq = run.seq /\ run'.img = run.img /\ run'.result = run.result
  BY <1>1, <1>2 DEF RunType, Phases
<1>6. QED
  BY <1>4, <1>5 DEF BackToPick

\* The next phase is all that changes in the run.
LEMMA GotoEffect ==
    ASSUME run \in RunType, NEW ph \in Phases, Goto(ph)
    PROVE  /\ run' \in RunType /\ run'.ph = ph
           /\ run'.active = run.active /\ run'.abort = run.abort
           /\ run'.target = run.target /\ run'.tries = run.tries
           /\ run'.seq = run.seq /\ run'.img = run.img /\ run'.result = run.result
BY DEF Goto, RunType

\* The run is over: only its number, image and result are left.
LEMMA FinishEffect ==
    ASSUME TypeOK, NEW r \in Results, Finish(r)
    PROVE  /\ run' \in RunType
           /\ run'.active = FALSE /\ run'.result = r
           /\ run'.seq = run.seq /\ run'.img = run.img
           /\ file' \in [0..1 -> RecordType]
           /\ WriteRecord(run.seq, r)
<1>1. run \in RunType /\ run.seq \in Nat
  BY DEF TypeOK, RunType
<1>2. run' = [NoRun EXCEPT !.seq = run.seq, !.img = run.img, !.result = r]
  BY DEF Finish
<1>3. file' \in [0..1 -> RecordType]
  BY <1>1, WriteEffect DEF Finish, TypeOK
<1>4. QED
  BY <1>1, <1>2, <1>3, StartTypes DEF RunType, NoRun, Finish

\* pickGroup() takes pending modules of one channel, the leader among them.
LEMMA PickedEffect ==
    ASSUME TypeOK, In({"pending"}) # {}
    PROVE  /\ Leader \in In({"pending"}) /\ Leader \in Picked
           /\ Picked \subseteq In({"pending"})
           /\ \A u \in Picked : Chan[u] = Chan[Leader]
<1>1. In({"pending"}) \subseteq Ids /\ Ids \subseteq Nat
  BY Constants DEF In
<1>2. Leader \in In({"pending"})
  <2>. DEFINE here == {u \in In({"pending"}) : Chan[u] = hub.ch}
  <2>1. CASE here # {}
    <3>1. here \subseteq Nat
      BY <1>1
    <3>2. Min(here) \in here
      BY <2>1, <3>1, MinIsMember
    <3>3. Leader = Min(here)
      BY <2>1 DEF Leader
    <3>4. QED
      BY <3>2, <3>3
  <2>2. CASE here = {}
    <3>1. In({"pending"}) \subseteq Nat
      BY <1>1
    <3>2. Min(In({"pending"})) \in In({"pending"})
      BY <3>1, MinIsMember
    <3>3. Leader = Min(In({"pending"}))
      BY <2>2 DEF Leader
    <3>4. QED
      BY <3>2, <3>3
  <2>3. QED
    BY <2>1, <2>2
<1>3. Leader \in Candidates
  <2>1. Leader \in Nat /\ Leader >= Leader
    <3>1. PICK l \in Nat : l = Leader
      BY <1>1, <1>2
    <3>2. QED
      BY <3>1
  <2>2. Alike(Leader)
    BY DEF Alike
  <2>3. QED
    BY <1>2, <2>1, <2>2 DEF Candidates
<1>4. \A v \in Candidates : ~(v < Leader)
  <2>1. Leader \in Nat /\ \A v \in Candidates : v \in Nat /\ v >= Leader
    BY <1>1, <1>2 DEF Candidates
  <2>2. PICK l \in Nat : l = Leader
    BY <2>1
  <2>3. QED
    BY <2>1, <2>2
<1>5. {v \in Candidates : v < Leader} = {}
  BY <1>4
<1>6. Cardinality({v \in Candidates : v < Leader}) < GroupMax
  BY <1>5, FS_EmptySet, Constants
<1>7. QED
  BY <1>2, <1>3, <1>6 DEF Picked, Candidates, Alike

(***************************************************************************)
(* Type correctness.  GroupInv is needed: the member in hand, the target   *)
(* of APPLY and the first missing chunk exist only where it says so.       *)
(***************************************************************************)

\* The types of what the steps of a phase leave alone.
LEMMA Untouched ==
    ASSUME TypeOK
    PROVE  /\ Quietly => /\ quiet' \in BOOLEAN /\ held' \subseteq Ids
                         /\ kept' \in RecordType
                         /\ {foreign, starts, resets}' \subseteq Nat
           /\ Silently => /\ Quietly /\ file' \in [0..1 -> RecordType]
                          /\ dev' \in [Ids -> DevType] /\ applied' \subseteq Ids
BY DEF TypeOK, Quietly, Silently

\* The phases that look after a whole group or at none: PICK to META.
LEMMA TypePick ==
    ASSUME TypeOK, GroupInv
    PROVE  /\ PickApply => TypeOK'
           /\ PickGroup => TypeOK'
           /\ PickWait => TypeOK'
           /\ PickFinish => TypeOK'
           /\ Park => TypeOK'
<1>1. /\ run \in RunType /\ mods \in [Ids -> RowType] /\ grp \in GroupType
      /\ hub \in HubType
  BY DEF TypeOK
<1>2. ASSUME PickApply PROVE TypeOK'
  <2>1. ReadyToApply \subseteq Nat /\ ReadyToApply \subseteq Ids
    BY Constants DEF ReadyToApply, In
  <2>2. Min(ReadyToApply) \in Ids
    BY <1>2, <2>1, MinIsMember DEF PickApply
  <2>3. run' \in RunType
    BY <1>1, <1>2, <2>2 DEF PickApply, RunType, Phases
  <2>4. QED
    BY <1>1, <1>2, <2>3, Untouched DEF PickApply, TypeOK, Quietly, Silently
<1>3. ASSUME PickGroup PROVE TypeOK'
  <2>1. Picked \subseteq Ids /\ Chan[Leader] \in Nat
    BY <1>3, PickedEffect, Constants DEF PickGroup, In
  <2>2. grp' \in GroupType
    BY <1>1, <1>3, <2>1 DEF PickGroup, GroupType
  <2>3. run' \in RunType
    BY <1>1, <1>3, GotoEffect DEF PickGroup, Phases
  <2>4. QED
    BY <1>1, <1>3, <2>2, <2>3, Untouched DEF PickGroup, TypeOK, Quietly, Silently
<1>4. ASSUME PickWait PROVE TypeOK'
  <2>1. run' \in RunType
    BY <1>1, <1>4, GotoEffect DEF PickWait, Phases
  <2>2. QED
    BY <1>1, <1>4, <2>1, Untouched DEF PickWait, TypeOK, Quietly, Silently
<1>5. ASSUME PickFinish PROVE TypeOK'
  <2>1. PICK r \in {"ok", "failed"} : Finish(r)
    BY <1>5 DEF PickFinish
  <2>2. run' \in RunType /\ file' \in [0..1 -> RecordType]
    BY <2>1, FinishEffect DEF Results
  <2>3. QED
    BY <1>1, <1>5, <2>2, Untouched DEF PickFinish, TypeOK, Quietly
<1>6. ASSUME Park PROVE TypeOK'
  <2>1. hub' \in HubType
    <3>1. grp.ch \in Nat /\ SettleWaits \in 0..SettleWaits
      BY <1>1, Constants DEF GroupType
    <3>2. QED
      BY <1>6, <3>1, HubTypes DEF Park
  <2>2. QED
    BY <1>1, <1>6, <2>1, Untouched DEF Park, TypeOK, Quietly, Silently
<1>7. QED
  BY <1>2, <1>3, <1>4, <1>5, <1>6

\* PROBE, META, ENTER and its check.
LEMMA TypeEnter ==
    ASSUME TypeOK, GroupInv
    PROVE  /\ \A ok \in BOOLEAN : Probe(ok) \/ Enter(ok) \/ EnterCheck(ok) => TypeOK'
           /\ \A H \in SUBSET Ids : Meta(H) => TypeOK'
<1>1. /\ run \in RunType /\ mods \in [Ids -> RowType] /\ grp \in GroupType
      /\ hub \in HubType /\ dev \in [Ids -> DevType]
      /\ file \in [0..1 -> RecordType]
  BY DEF TypeOK
<1>2. \A states : Still(states) \subseteq Ids
  BY <1>1 DEF Still, GroupType
<1>3. GroupDone => /\ run' \in RunType /\ grp' \in GroupType
                   /\ file' \in [0..1 -> RecordType]
  BY BackEffect, StartTypes DEF GroupDone
<1>4. ASSUME NEW ok \in BOOLEAN, Probe(ok) PROVE TypeOK'
  <2>1. This \in Ids /\ NextMember \subseteq Ids
    BY <1>1, <1>4, ThisIsMember DEF Probe, At, GroupInv, GroupType
  <2>2. hub' \in HubType
    BY <1>1, <1>4, <2>1, UnicastEffect DEF Probe
  <2>3. mods' \in [Ids -> RowType]
    <3>1. [mods[This] EXCEPT !.before = IF @ = 0 THEN dev[This].fw ELSE @] \in RowType
      BY <1>1, <2>1 DEF RowType, DevType, DevRecord
    <3>2. [mods[This] EXCEPT !.st = "noReply"] \in RowType
      BY <1>1, <2>1 DEF RowType, ModStates
    <3>3. QED
      BY <1>1, <1>4, <2>1, <3>1, <3>2, SetEffect DEF Probe
  <2>4. run' \in RunType /\ grp' \in GroupType /\ file' \in [0..1 -> RecordType]
    <3>1. CASE ~ok /\ ~Silent
      BY <1>1, <1>4, <3>1 DEF Probe, GroupType
    <3>2. CASE ~(~ok /\ ~Silent) /\ NextMember # {}
      <4>1. /\ grp' = [grp EXCEPT !.sub = 0, !.todo = NextMember]
            /\ run' = run /\ file' = file
        BY <1>4, <3>2 DEF Probe
      <4>2. QED
        BY <1>1, <2>1, <4>1 DEF GroupType
    <3>3. CASE ~(~ok /\ ~Silent) /\ NextMember = {} /\ Still({"pending"}) = {}
      BY <1>3, <1>4, <3>3 DEF Probe
    <3>4. CASE ~(~ok /\ ~Silent) /\ NextMember = {} /\ Still({"pending"}) # {}
      <4>1. /\ grp' = [grp EXCEPT !.sub = 0, !.todo = {}, !.members = Still({"pending"})]
            /\ Goto("meta") /\ file' = file
        BY <1>4, <3>4 DEF Probe
      <4>2. QED
        BY <1>1, <1>2, <4>1, GotoEffect DEF GroupType, Phases
    <3>5. QED
      BY <3>1, <3>2, <3>3, <3>4
  <2>5. QED
    BY <1>1, <1>4, <2>2, <2>3, <2>4, Untouched DEF Probe, TypeOK
<1>5. ASSUME NEW ok \in BOOLEAN, Enter(ok) PROVE TypeOK'
  <2>1. This \in Ids /\ NextMember \subseteq Ids
    BY <1>1, <1>5, ThisIsMember DEF Enter, At, GroupInv, GroupType
  <2>2. hub' \in HubType
    BY <1>1, <1>5, <2>1, UnicastEffect DEF Enter
  <2>3. dev' \in [Ids -> DevType]
    <3>1. [dev[This] EXCEPT !.state = "receiving", !.have = NoChunks] \in DevType
      BY <1>1, <2>1, NoChunksType DEF DevType, DevRecord, DevStates
    <3>2. QED
      BY <1>1, <1>5, <2>1, <3>1 DEF Enter
  <2>4. run' \in RunType /\ grp' \in GroupType
    <3>1. CASE NextMember # {}
      BY <1>1, <1>5, <2>1, <3>1 DEF Enter, GroupType
    <3>2. CASE NextMember = {}
      BY <1>1, <1>5, <3>2, GotoEffect DEF Enter, GroupType, Phases
    <3>3. QED
      BY <3>1, <3>2
  <2>5. QED
    BY <1>1, <1>5, <2>2, <2>3, <2>4, Untouched DEF Enter, TypeOK
<1>6. ASSUME NEW ok \in BOOLEAN, EnterCheck(ok) PROVE TypeOK'
  <2>1. This \in Ids /\ NextMember \subseteq Ids
    BY <1>1, <1>6, ThisIsMember DEF EnterCheck, At, GroupInv, GroupType
  <2>2. hub' \in HubType
    BY <1>1, <1>6, <2>1, UnicastEffect DEF EnterCheck
  <2>3. mods' \in [Ids -> RowType]
    <3>1. [mods[This] EXCEPT !.st = "session"] \in RowType
      BY <1>1, <2>1 DEF RowType, ModStates
    <3>2. QED
      BY <1>1, <1>6, <2>1, <3>1, DroppedRow, SetEffect DEF EnterCheck
  <2>4. run' \in RunType /\ grp' \in GroupType /\ file' \in [0..1 -> RecordType]
    <3>1. CASE NextMember # {}
      BY <1>1, <1>6, <2>1, <3>1 DEF EnterCheck, GroupType
    <3>2. CASE NextMember = {} /\ Still({"session"}) = {}
      BY <1>3, <1>6, <3>2 DEF EnterCheck
    <3>3. CASE NextMember = {} /\ Still({"session"}) # {}
      <4>1. /\ grp' = [grp EXCEPT !.todo = {}, !.members = Still({"session"}), !.idx = 0]
            /\ Goto("stream") /\ file' = file
        BY <1>6, <3>3 DEF EnterCheck
      <4>2. QED
        BY <1>1, <1>2, <4>1, Constants, GotoEffect DEF GroupType, Phases
    <3>4. QED
      BY <3>1, <3>2, <3>3
  <2>5. QED
    BY <1>1, <1>6, <2>2, <2>3, <2>4, Untouched DEF EnterCheck, TypeOK
<1>7. ASSUME NEW H \in SUBSET Ids, Meta(H) PROVE TypeOK'
  <2>1. \A u \in Ids : [dev[u] EXCEPT !.meta = run.img] \in DevType
    <3>1. run.img \in Images /\ run.img # 0
      BY <1>7, Constants DEF Meta, At, GroupInv
    <3>2. QED
      BY <1>1, <3>1 DEF DevType, DevRecord
  <2>2. dev' \in [Ids -> DevType]
    BY <1>1, <1>7, <2>1 DEF Meta
  <2>3. run' \in RunType /\ grp' \in GroupType
    BY <1>1, <1>7, GotoEffect DEF Meta, GroupType, Phases
  <2>4. QED
    BY <1>1, <1>7, <2>2, <2>3, Untouched DEF Meta, TypeOK
<1>8. QED
  BY <1>4, <1>5, <1>6, <1>7

\* STREAM, REPAIR and FINALIZE.
LEMMA TypeStream ==
    ASSUME TypeOK, GroupInv
    PROVE  /\ \A H \in SUBSET Ids : Stream(H) \/ RepairSend(H) => TypeOK'
           /\ \A H \in SUBSET Ids, stateOk, mapOk \in BOOLEAN :
                  RepairRead(H, stateOk, mapOk) => TypeOK'
           /\ RepairRound \/ RepairSkip => TypeOK'
<1>1. /\ run \in RunType /\ mods \in [Ids -> RowType] /\ grp \in GroupType
      /\ hub \in HubType /\ dev \in [Ids -> DevType]
      /\ file \in [0..1 -> RecordType]
      /\ run.img \in Images \cup {0} /\ 0 \in Chunks /\ grp.idx \in Chunks
  BY Constants DEF TypeOK, RunType, GroupType
<1>2. ASSUME NEW H \in SUBSET Ids, Stream(H) PROVE TypeOK'
  <2>1. dev' \in [Ids -> DevType]
    BY <1>1, <1>2, TakingEffect DEF Stream
  <2>2. run' \in RunType /\ grp' \in GroupType
    <3>1. CASE grp.idx + 1 < Total
      <4>1. grp.idx + 1 \in Chunks
        BY <1>1, <3>1, Constants DEF Chunks
      <4>2. grp' = [grp EXCEPT !.idx = grp.idx + 1] /\ run' = run
        BY <1>2, <3>1 DEF Stream
      <4>3. QED
        BY <1>1, <4>1, <4>2 DEF GroupType
    <3>2. CASE ~(grp.idx + 1 < Total)
      <4>1. /\ grp' = [grp EXCEPT !.idx = 0, !.round = 1, !.todo = grp.members,
                                  !.sub = 0, !.missing = {}]
            /\ Goto("repair")
        BY <1>2, <3>2 DEF Stream
      <4>2. QED
        BY <1>1, <4>1, GotoEffect DEF GroupType, Phases
    <3>3. QED
      BY <3>1, <3>2
  <2>3. QED
    BY <1>1, <1>2, <2>1, <2>2, Untouched DEF Stream, TypeOK
<1>3. ASSUME NEW H \in SUBSET Ids, RepairSend(H) PROVE TypeOK'
  <2>1. grp.missing \subseteq Nat /\ grp.missing # {} /\ grp.missing \subseteq Chunks
    BY <1>1, <1>3, Constants DEF RepairSend, At, GroupInv, GroupType
  <2>2. Min(grp.missing) \in Chunks
    BY <2>1, MinIsMember
  <2>3. dev' \in [Ids -> DevType]
    BY <1>1, <1>3, <2>2, TakingEffect DEF RepairSend
  <2>4. run' \in RunType /\ grp' \in GroupType
    <3>. DEFINE rest == grp.missing \ {Min(grp.missing)}
    <3>1. rest \subseteq Chunks
      BY <2>1
    <3>2. CASE rest # {}
      <4>1. grp' = [grp EXCEPT !.missing = rest] /\ run' = run
        BY <1>3, <3>2 DEF RepairSend
      <4>2. QED
        BY <1>1, <3>1, <4>1 DEF GroupType
    <3>3. CASE rest = {}
      <4>1. /\ grp' = [grp EXCEPT !.missing = {}, !.round = grp.round + 1,
                                  !.todo = grp.members]
            /\ Goto("repair")
        BY <1>3, <3>3 DEF RepairSend
      <4>2. PICK k \in Nat : k = grp.round + 1
        BY <1>1 DEF GroupType
      <4>3. grp' = [grp EXCEPT !.missing = {}, !.round = k, !.todo = grp.members]
        BY <4>1, <4>2
      <4>4. grp' \in GroupType
        BY <1>1, <4>3 DEF GroupType
      <4>5. QED
        BY <1>1, <4>1, <4>4, GotoEffect DEF Phases
    <3>4. QED
      BY <3>2, <3>3
  <2>5. QED
    BY <1>1, <1>3, <2>3, <2>4, Untouched DEF RepairSend, TypeOK
<1>4. ASSUME NEW H \in SUBSET Ids, NEW stateOk \in BOOLEAN, NEW mapOk \in BOOLEAN,
             RepairRead(H, stateOk, mapOk)
      PROVE  TypeOK'
  <2>1. This \in Ids /\ NextMember \subseteq Ids
    BY <1>1, <1>4, ThisIsMember DEF RepairRead, GroupType
  <2>2. hub' \in HubType
    BY <1>1, <1>4, <2>1, UnicastEffect DEF RepairRead
  <2>3. dev' \in [Ids -> DevType]
    BY <1>1, <1>4, TakingEffect DEF RepairRead
  <2>4. Dropped(mods[This]) \in RowType
    BY <1>1, <2>1, DroppedRow
  <2>5. [mods[This] EXCEPT !.st = "complete"] \in RowType
    BY <1>1, <2>1 DEF RowType, ModStates
  <2>6. mods' \in [Ids -> RowType]
    <3>1. \/ mods' = mods
          \/ mods' = Set(This, Dropped(mods[This]))
          \/ mods' = Set(This, [mods[This] EXCEPT !.st = "complete"])
      BY <1>4 DEF RepairRead
    <3>2. QED
      BY <1>1, <2>1, <2>4, <2>5, <3>1, SetEffect
  <2>7. grp' \in GroupType
    <3>1. grp.missing \cup Missing(This) \subseteq Chunks
      BY <1>1 DEF Missing, GroupType
    <3>2. PICK m \in SUBSET Chunks : m = grp.missing \cup Missing(This)
      BY <3>1
    <3>3. \/ grp' = [grp EXCEPT !.todo = NextMember]
          \/ grp' = [grp EXCEPT !.sub = 0, !.todo = NextMember]
          \/ grp' = [grp EXCEPT !.sub = grp.sub + 1]
          \/ grp' = [grp EXCEPT !.sub = 0, !.todo = NextMember, !.missing = m]
      BY <1>4, <3>2 DEF RepairRead
    <3>4. PICK k \in Nat : k = grp.sub + 1
      BY <1>1 DEF GroupType
    <3>5. CASE grp' = [grp EXCEPT !.sub = k]
      BY <1>1, <3>5 DEF GroupType
    <3>6. CASE grp' = [grp EXCEPT !.todo = NextMember]
      BY <1>1, <2>1, <3>6 DEF GroupType
    <3>7. CASE grp' = [grp EXCEPT !.sub = 0, !.todo = NextMember]
      BY <1>1, <2>1, <3>7 DEF GroupType
    <3>8. CASE grp' = [grp EXCEPT !.sub = 0, !.todo = NextMember, !.missing = m]
      BY <1>1, <2>1, <3>8 DEF GroupType
    <3>9. QED
      BY <3>3, <3>4, <3>5, <3>6, <3>7, <3>8
  <2>8. QED
    BY <1>1, <1>4, <2>2, <2>3, <2>6, <2>7, Untouched DEF RepairRead, TypeOK
<1>5. ASSUME RepairRound PROVE TypeOK'
  <2>1. PICK ph \in {"finalize", "repairSend"} : Goto(ph)
    BY <1>5 DEF RepairRound
  <2>2. run' \in RunType
    BY <1>1, <2>1, GotoEffect DEF Phases
  <2>3. QED
    BY <1>1, <1>5, <2>2, Untouched DEF RepairRound, TypeOK, Silently, Quietly
<1>6. ASSUME RepairSkip PROVE TypeOK'
  <2>1. NextMember \subseteq Ids
    BY <1>1, <1>6, ThisIsMember DEF RepairSkip, GroupType
  <2>2. grp' \in GroupType
    BY <1>1, <1>6, <2>1 DEF RepairSkip, GroupType
  <2>3. QED
    BY <1>1, <1>6, <2>2, Untouched DEF RepairSkip, TypeOK, Silently, Quietly
<1>7. QED
  BY <1>2, <1>3, <1>4, <1>5, <1>6

\* FINALIZE, its check, APPLY and its confirmation.
LEMMA TypeFinalize ==
    ASSUME TypeOK, GroupInv
    PROVE  /\ \A K, H \in SUBSET Ids : Finalize(K, H) => TypeOK'
           /\ \A ok \in BOOLEAN : FinalizeRead(ok) \/ ApplySend(ok) \/ Confirm(ok) => TypeOK'
           /\ FinalizeSkip \/ FinalizeDone \/ ApplyPutOff => TypeOK'
<1>1. /\ run \in RunType /\ mods \in [Ids -> RowType] /\ grp \in GroupType
      /\ hub \in HubType /\ dev \in [Ids -> DevType]
      /\ file \in [0..1 -> RecordType]
      /\ run.img \in Images \cup {0} /\ 0 \in Chunks
  BY Constants DEF TypeOK, RunType
<1>2. ASSUME NEW K \in SUBSET Ids, NEW H \in SUBSET Ids, Finalize(K, H)
      PROVE  TypeOK'
  <2>1. Taking(dev, K, 0) \in [Ids -> DevType]
    BY <1>1, TakingEffect
  <2>2. dev' \in [Ids -> DevType]
    BY <1>2, <2>1, CheckedEffect DEF Finalize
  <2>3. run' \in RunType /\ grp' \in GroupType
    BY <1>1, <1>2, GotoEffect DEF Finalize, GroupType, Phases
  <2>4. QED
    BY <1>1, <1>2, <2>2, <2>3, Untouched DEF Finalize, TypeOK
<1>3. ASSUME NEW ok \in BOOLEAN, FinalizeRead(ok) PROVE TypeOK'
  <2>1. This \in Ids /\ NextMember \subseteq Ids
    BY <1>1, <1>3, ThisIsMember DEF FinalizeRead, GroupType
  <2>2. hub' \in HubType
    BY <1>1, <1>3, <2>1, UnicastEffect DEF FinalizeRead
  <2>3. Dropped(mods[This]) \in RowType
    BY <1>1, <2>1, DroppedRow
  <2>4. Outcome(This) \in RowType
    BY <1>1, <2>1, <2>3 DEF Outcome, RowType, ModStates
  <2>5. mods' \in [Ids -> RowType]
    BY <1>1, <1>3, <2>1, <2>3, <2>4, SetEffect DEF FinalizeRead
  <2>6. grp' \in GroupType
    <3>1. \/ grp' = [grp EXCEPT !.sub = 0, !.todo = NextMember]
          \/ grp' = [grp EXCEPT !.sub = grp.sub + 1]
      BY <1>3 DEF FinalizeRead
    <3>2. PICK k \in Nat : k = grp.sub + 1
      BY <1>1 DEF GroupType
    <3>3. CASE grp' = [grp EXCEPT !.sub = k]
      BY <1>1, <3>3 DEF GroupType
    <3>4. CASE grp' = [grp EXCEPT !.sub = 0, !.todo = NextMember]
      BY <1>1, <2>1, <3>4 DEF GroupType
    <3>5. QED
      BY <3>1, <3>2, <3>3, <3>4
  <2>7. QED
    BY <1>1, <1>3, <2>2, <2>5, <2>6, Untouched DEF FinalizeRead, TypeOK
<1>4. ASSUME NEW ok \in BOOLEAN, ApplySend(ok) PROVE TypeOK'
  <2>1. run.target \in Ids
    BY <1>4 DEF ApplySend, At, GroupInv, In
  <2>2. hub' \in HubType
    BY <1>1, <1>4, <2>1, HubAfterEffect, HubTypes DEF ApplySend
  <2>3. dev' \in [Ids -> DevType]
    BY <1>1, <1>4, <2>1, ClearedEffect DEF ApplySend
  <2>4. run' \in RunType
    BY <1>1, <1>4 DEF ApplySend, RunType, Phases
  <2>5. applied' \subseteq Ids
    BY <1>4, <2>1 DEF ApplySend, TypeOK
  <2>6. QED
    BY <1>1, <1>4, <2>2, <2>3, <2>4, <2>5, Untouched DEF ApplySend, TypeOK
<1>5. ASSUME NEW ok \in BOOLEAN, Confirm(ok) PROVE TypeOK'
  <2>1. run.target \in Ids
    BY <1>5 DEF Confirm, At, GroupInv, In
  <2>2. hub' \in HubType
    BY <1>1, <1>5, <2>1, HubAfterEffect, HubTypes DEF Confirm
  <2>3. \A st \in ModStates : [mods[run.target] EXCEPT !.st = st] \in RowType
    BY <1>1, <2>1 DEF RowType
  <2>4. \/ \E st \in {"updated", "same", "failed"} :
               mods' = Set(run.target, [mods[run.target] EXCEPT !.st = st])
        \/ mods' = mods
    BY <1>5 DEF Confirm
  <2>5. mods' \in [Ids -> RowType]
    BY <1>1, <2>1, <2>3, <2>4, SetEffect DEF ModStates
  <2>6. run' \in RunType /\ file' \in [0..1 -> RecordType]
    <3>1. BackToPick \/ (run' = [run EXCEPT !.tries = run.tries + 1] /\ file' = file)
      BY <1>5 DEF Confirm
    <3>2. QED
      BY <1>1, <3>1, BackEffect DEF RunType
  <2>7. QED
    BY <1>1, <1>5, <2>2, <2>5, <2>6, Untouched DEF Confirm, TypeOK
<1>6. ASSUME FinalizeSkip PROVE TypeOK'
  <2>1. NextMember \subseteq Ids
    BY <1>1, <1>6, ThisIsMember DEF FinalizeSkip, GroupType
  <2>2. grp' \in GroupType
    BY <1>1, <1>6, <2>1 DEF FinalizeSkip, GroupType
  <2>3. QED
    BY <1>1, <1>6, <2>2, Untouched DEF FinalizeSkip, TypeOK, Silently, Quietly
<1>7. ASSUME FinalizeDone PROVE TypeOK'
  BY <1>1, <1>7, BackEffect, StartTypes, Untouched DEF FinalizeDone, GroupDone, TypeOK
<1>8. ASSUME ApplyPutOff PROVE TypeOK'
  <2>1. run' \in RunType
    BY <1>1, <1>8 DEF ApplyPutOff, RunType, Phases
  <2>2. QED
    BY <1>1, <1>8, <2>1, Untouched DEF ApplyPutOff, TypeOK, Silently, Quietly
<1>9. QED
  BY <1>2, <1>3, <1>4, <1>5, <1>6, <1>7, <1>8

\* doAbort() leaves every holder pending and the hub on the last one's channel.
LEMMA AbortEffect ==
    ASSUME TypeOK, NEW H \in SUBSET Ids, Abort(H)
    PROVE  /\ hub' \in HubType
           /\ dev' = [u \in Ids |-> IF u \in H THEN Cleared(dev[u]) ELSE dev[u]]
           /\ mods' = [u \in Ids |-> IF u \in Holders
                                     THEN [mods[u] EXCEPT !.st = "pending"] ELSE mods[u]]
           /\ Finish("aborted") /\ grp' = NoGroup
           /\ Quietly /\ applied' = applied
           /\ run.active
<1>. DEFINE wired == {u \in Holders : Chan[u] # 0}
<1>1. \/ hub' = hub
      \/ /\ wired # {}
         /\ hub' \in {HubOn(Chan[Max(wired)]), Switching(Chan[Max(wired)], SettleWaits)}
  BY DEF Abort
<1>2. ASSUME wired # {} PROVE Chan[Max(wired)] \in Nat
  <2>1. wired \subseteq Ids /\ wired \subseteq Nat /\ IsFiniteSet(wired)
    <3>1. wired \subseteq Ids
      BY DEF Holders, In
    <3>2. QED
      BY <3>1, Constants, FS_Subset
  <2>2. Max(wired) \in Ids
    BY <1>2, <2>1, MaxIsMember
  <2>3. QED
    BY <2>2, Constants
<1>3. hub' \in HubType
  <2>1. CASE hub' = hub
    BY <2>1 DEF TypeOK
  <2>2. CASE /\ wired # {}
             /\ hub' \in {HubOn(Chan[Max(wired)]), Switching(Chan[Max(wired)], SettleWaits)}
    <3>1. SettleWaits \in 0..SettleWaits
      BY Constants
    <3>2. QED
      BY <1>2, <2>2, <3>1, HubTypes
  <2>3. QED
    BY <1>1, <2>1, <2>2
<1>4. QED
  BY <1>3 DEF Abort

\* The console and the rest of the gateway.
LEMMA TypeOthers ==
    ASSUME TypeOK
    PROVE  /\ \A img \in Images : Start(img) => TypeOK'
           /\ \A H \in SUBSET Ids : Abort(H) => TypeOK'
           /\ \A u \in Ids : Foreign(u) \/ Release(u) \/ Expire(u) => TypeOK'
           /\ RequestAbort \/ Lull \/ Settle => TypeOK'
           /\ \A torn, cycled \in BOOLEAN : Reset(torn, cycled) => TypeOK'
           /\ UNCHANGED vars => TypeOK'
<1>1. /\ run \in RunType /\ mods \in [Ids -> RowType] /\ grp \in GroupType
      /\ hub \in HubType /\ dev \in [Ids -> DevType]
      /\ file \in [0..1 -> RecordType]
  BY DEF TypeOK
<1>2. ASSUME NEW img \in Images, Start(img) PROVE TypeOK'
  <2>1. run' \in RunType
    <3>1. NextSeq \in Nat
      BY <1>1, LatestEffect
    <3>2. run' = [NoRun EXCEPT !.active = TRUE, !.seq = NextSeq, !.img = img,
                               !.result = "running"]
      BY <1>2 DEF Start
    <3>3. QED
      BY <3>1, <3>2, StartTypes DEF RunType, NoRun, Results
  <2>2. file' \in [0..1 -> RecordType] /\ kept' \in RecordType
    BY <1>1, <1>2, LatestEffect, WriteEffect DEF Start, Results
  <2>3. QED
    BY <1>2, <2>1, <2>2, StartTypes DEF Start, Rows, TypeOK
<1>3. ASSUME NEW H \in SUBSET Ids, Abort(H) PROVE TypeOK'
  <2>1. run' \in RunType /\ file' \in [0..1 -> RecordType]
    BY <1>3, AbortEffect, FinishEffect DEF Results
  <2>2. mods' \in [Ids -> RowType]
    <3>1. \A u \in Ids : [mods[u] EXCEPT !.st = "pending"] \in RowType
      BY <1>1 DEF RowType, ModStates
    <3>2. QED
      BY <1>1, <1>3, <3>1, AbortEffect
  <2>3. dev' \in [Ids -> DevType]
    BY <1>1, <1>3, AbortEffect, ClearedEffect
  <2>4. QED
    BY <1>3, <2>1, <2>2, <2>3, AbortEffect, Untouched, StartTypes DEF TypeOK
<1>4. ASSUME NEW u \in Ids, Foreign(u) PROVE TypeOK'
  <2>1. hub' \in HubType
    <3>1. Chan[u] \in Nat /\ SettleWaits \in 0..SettleWaits
      BY Constants
    <3>2. QED
      BY <1>1, <1>4, <3>1, HubTypes DEF Foreign
  <2>2. {foreign, starts, resets}' \subseteq Nat
    BY <1>4 DEF Foreign, TypeOK
  <2>3. QED
    BY <1>4, <2>1, <2>2 DEF Foreign, TypeOK
<1>5. ASSUME NEW u \in Ids, Release(u) PROVE TypeOK'
  BY <1>5 DEF Release, TypeOK
<1>6. ASSUME NEW u \in Ids, Expire(u) PROVE TypeOK'
  <2>1. [dev[u] EXCEPT !.state = "timedOut", !.have = NoChunks] \in DevType
    BY <1>1, NoChunksType DEF DevType, DevRecord, DevStates
  <2>2. dev' \in [Ids -> DevType]
    BY <1>1, <1>6, <2>1 DEF Expire
  <2>3. QED
    BY <1>6, <2>2 DEF Expire, TypeOK
<1>7. ASSUME RequestAbort PROVE TypeOK'
  <2>1. run' \in RunType
    BY <1>1, <1>7 DEF RequestAbort, RunType
  <2>2. QED
    BY <1>7, <2>1 DEF RequestAbort, TypeOK
<1>8. ASSUME Lull PROVE TypeOK'
  BY <1>8 DEF Lull, TypeOK
<1>9. ASSUME Settle PROVE TypeOK'
  <2>1. hub' \in HubType
    BY <1>1, <1>9, HubTypes DEF Settle, HubType
  <2>2. QED
    BY <1>9, <2>1 DEF Settle, TypeOK
<1>10. ASSUME NEW torn \in BOOLEAN, NEW cycled \in BOOLEAN, Reset(torn, cycled)
       PROVE  TypeOK'
  <2>1. file' \in [0..1 -> RecordType]
    BY <1>1, <1>10, StartTypes DEF Reset
  <2>2. dev' \in [Ids -> DevType]
    BY <1>1, <1>10, ClearedEffect DEF Reset
  <2>3. hub' \in HubType
    BY <1>10, HubTypes DEF Reset
  <2>4. QED
    BY <1>10, <2>1, <2>2, <2>3, StartTypes DEF Reset, TypeOK
<1>11. ASSUME UNCHANGED vars PROVE TypeOK'
  BY <1>11 DEF vars, TypeOK
<1>12. QED
  BY <1>2, <1>3, <1>4, <1>5, <1>6, <1>7, <1>8, <1>9, <1>10, <1>11

\* Every step keeps the types.
LEMMA TypeStep ==
    ASSUME TypeOK, GroupInv, [Next]_vars
    PROVE  TypeOK'
<1>1. CASE Step
  <2>1. TypeOK /\ GroupInv
    OBVIOUS
  <2>2. QED
    BY <1>1, TypePick, TypeEnter, TypeStream, TypeFinalize, TypeOthers DEF Step
<1>2. CASE ~Step
  BY <1>2, TypeOthers DEF Next
<1>3. QED
  BY <1>1, <1>2

(***************************************************************************)
(* The group, phase by phase: who is in a session, who was probed.         *)
(***************************************************************************)

\* PICK and WAIT_APPLY; the crossing frame.
LEMMA FlowPick ==
    ASSUME TypeOK, GroupInv, ProbedInv
    PROVE  PickApply \/ PickGroup \/ PickWait \/ PickFinish \/ Park
             => GroupInv' /\ ProbedInv'
<1>. USE DEF At, In
<1>1. run \in RunType /\ mods \in [Ids -> RowType] /\ grp \in GroupType
  BY DEF TypeOK
<1>2. ASSUME PickApply PROVE GroupInv' /\ ProbedInv'
  <2>1. PICK m \in ReadyToApply : run' = [run EXCEPT !.ph = "apply", !.target = m]
    <3>1. ReadyToApply \subseteq Nat
      BY Constants DEF ReadyToApply
    <3>2. QED
      BY <1>2, <3>1, MinIsMember DEF PickApply
  <2>2. /\ run'.ph = "apply" /\ run'.active /\ run.active
        /\ run'.img = run.img /\ run'.result = run.result
        /\ run'.target \in In({"verified"})
        /\ run.ph \in {"pick", "waitApply"}
    BY <1>1, <1>2, <2>1 DEF PickApply, RunType, ReadyToApply
  <2>3. mods' = mods /\ grp' = grp
    BY <1>2 DEF PickApply
  <2>4. QED
    BY <2>2, <2>3 DEF GroupInv, ProbedInv, Outside
<1>3. ASSUME PickGroup PROVE GroupInv' /\ ProbedInv'
  <2>1. /\ run'.ph = "probe" /\ run'.active /\ run.active /\ run.ph = "pick"
        /\ run'.img = run.img /\ run'.result = run.result
    BY <1>1, <1>3, GotoEffect DEF PickGroup, Phases
  <2>2. /\ mods' = mods
        /\ grp' = [grp EXCEPT !.members = Picked, !.ch = Chan[Leader],
                              !.todo = Picked, !.sub = 0]
    BY <1>3 DEF PickGroup
  <2>3. grp'.members = Picked /\ grp'.todo = Picked
    BY <1>1, <2>2 DEF GroupType
  <2>4. Picked # {} /\ Picked \subseteq In({"pending"})
    BY <1>3, PickedEffect DEF PickGroup
  <2>5. QED
    BY <2>1, <2>2, <2>3, <2>4 DEF GroupInv, ProbedInv, Outside
<1>4. ASSUME PickWait PROVE GroupInv' /\ ProbedInv'
  <2>1. /\ run'.ph = "waitApply" /\ run'.active /\ run.active /\ run.ph = "pick"
        /\ run'.img = run.img /\ run'.result = run.result
    BY <1>1, <1>4, GotoEffect DEF PickWait, Phases
  <2>2. mods' = mods /\ grp' = grp
    BY <1>4 DEF PickWait
  <2>3. QED
    BY <2>1, <2>2 DEF GroupInv, ProbedInv, Outside
<1>5. ASSUME PickFinish PROVE GroupInv' /\ ProbedInv'
  <2>1. PICK r \in {"ok", "failed"} : Finish(r)
    BY <1>5 DEF PickFinish
  <2>2. run'.active = FALSE /\ run'.result = r /\ grp' = grp
    BY <1>5, <2>1, FinishEffect DEF PickFinish, Results
  <2>3. QED
    BY <2>2 DEF GroupInv, ProbedInv
<1>6. ASSUME Park PROVE GroupInv' /\ ProbedInv'
  BY <1>6 DEF Park, GroupInv, ProbedInv
<1>7. QED
  BY <1>2, <1>3, <1>4, <1>5, <1>6

\* What GroupDone leaves: no group, and the run at PICK.
LEMMA GroupDoneEffect ==
    ASSUME TypeOK, GroupInv, run.active, GroupDone,
           \A u \in Ids : mods'[u].st \notin {"session", "complete"}
    PROVE  GroupInv'
<1>1. /\ run'.ph = "pick" /\ run'.active /\ run'.img = run.img
      /\ run'.result = run.result /\ grp' = NoGroup
  BY BackEffect DEF GroupDone
<1>2. QED
  BY <1>1 DEF GroupInv, In, Outside, NoGroup

\* PROBE: a member that answered has its version on record; one that never did
\* has not replied.
LEMMA ProbeEffect ==
    ASSUME TypeOK, GroupInv, NEW ok \in BOOLEAN, Probe(ok)
    PROVE  /\ This \in grp.todo /\ This \in Ids /\ mods[This].st = "pending"
           /\ mods'[This] \in RowType
           /\ \A u \in Ids \ {This} : mods'[u] = mods[u]
           /\ mods'[This].st \in {"pending", "noReply"}
           /\ mods'[This].before \in {mods[This].before, dev[This].fw}
           /\ ok => mods'[This].before # 0
           /\ ~ok /\ Silent => mods'[This].st = "noReply"
           /\ ~ok /\ ~Silent => mods' = mods
           /\ run.active /\ run.ph = "probe" /\ dev' = dev /\ applied' = applied
           /\ run'.active /\ run'.img = run.img /\ run'.result = run.result
           /\ run'.ph \in {"probe", "meta", "pick"}
<1>1. /\ run \in RunType /\ mods \in [Ids -> RowType] /\ grp \in GroupType
      /\ dev \in [Ids -> DevType]
      /\ run.active /\ run.ph = "probe" /\ grp.todo # {}
  BY DEF TypeOK, Probe, At, GroupInv
<1>2. This \in grp.todo /\ This \in Ids /\ mods[This].st = "pending"
  BY <1>1, ThisIsMember DEF GroupInv, In
<1>3. /\ run'.active /\ run'.img = run.img /\ run'.result = run.result
      /\ run'.ph \in {"probe", "meta", "pick"}
  <2>1. run' = run \/ GroupDone \/ Goto("meta")
    BY DEF Probe
  <2>2. QED
    BY <1>1, <2>1, BackEffect, GotoEffect DEF GroupDone, Phases
<1>4. PICK m \in RowType :
        /\ mods' = Set(This, m)
        /\ m.st \in {"pending", "noReply"}
        /\ m.before \in {mods[This].before, dev[This].fw}
        /\ ok => m.before # 0
        /\ ~ok /\ Silent => m.st = "noReply"
        /\ ~ok /\ ~Silent => mods' = mods
  <2>1. CASE ok
    <3>1. dev[This].fw \in Versions /\ dev[This].fw # 0
      BY <1>1, <1>2, Constants DEF DevType, DevRecord
    <3>2. PICK b \in Versions :
            /\ b # 0 /\ b \in {mods[This].before, dev[This].fw}
            /\ mods' = Set(This, [mods[This] EXCEPT !.before = b])
      <4>1. CASE mods[This].before = 0
        BY <1>1, <1>2, <2>1, <3>1, <4>1 DEF Probe
      <4>2. CASE mods[This].before # 0
        BY <1>1, <1>2, <2>1, <4>2 DEF Probe, RowType
      <4>3. QED
        BY <4>1, <4>2
    <3>3. /\ [mods[This] EXCEPT !.before = b] \in RowType
          /\ [mods[This] EXCEPT !.before = b].st = "pending"
          /\ [mods[This] EXCEPT !.before = b].before = b
      BY <1>1, <1>2 DEF RowType
    <3>4. QED
      BY <2>1, <3>2, <3>3
  <2>2. CASE ~ok /\ Silent
    <3>1. mods' = Set(This, [mods[This] EXCEPT !.st = "noReply"])
      BY <2>2 DEF Probe
    <3>2. /\ [mods[This] EXCEPT !.st = "noReply"] \in RowType
          /\ [mods[This] EXCEPT !.st = "noReply"].st = "noReply"
          /\ [mods[This] EXCEPT !.st = "noReply"].before = mods[This].before
      BY <1>1, <1>2 DEF RowType, ModStates
    <3>3. QED
      BY <2>2, <3>1, <3>2
  <2>3. CASE ~ok /\ ~Silent
    <3>1. mods' = mods
      BY <2>3 DEF Probe
    <3>2. mods' = Set(This, mods[This])
      BY <1>1, <3>1 DEF Set
    <3>3. QED
      BY <1>1, <1>2, <2>3, <3>1, <3>2
  <2>4. QED
    BY <2>1, <2>2, <2>3
<1>5. mods'[This] = m /\ \A u \in Ids \ {This} : mods'[u] = mods[u]
  BY <1>1, <1>2, <1>4, SetEffect
<1>6. dev' = dev /\ applied' = applied
  BY DEF Probe
<1>7. QED
  BY <1>1, <1>2, <1>3, <1>4, <1>5, <1>6

\* The next phase looks after those that answered.
LEMMA FlowProbe ==
    ASSUME TypeOK, GroupInv, ProbedInv, NEW ok \in BOOLEAN, Probe(ok)
    PROVE  GroupInv' /\ ProbedInv'
<1>1. /\ run \in RunType /\ grp \in GroupType
      /\ run.active /\ run.ph = "probe"
      /\ grp.todo # {} /\ grp.todo \subseteq grp.members /\ grp.members \subseteq Ids
  BY DEF TypeOK, Probe, At, GroupInv, GroupType
<1>2. This \in grp.todo /\ This \in Ids /\ NextMember = grp.todo \ {This}
  BY ProbeEffect DEF NextMember
<1>3. \A u \in Ids : mods[u].st \notin {"session", "complete"}
  BY <1>1 DEF GroupInv, In, Outside
<1>4. /\ mods'[This].st \in {"pending", "noReply"}
      /\ ok => mods'[This].before # 0
      /\ ~ok /\ Silent => mods'[This].st = "noReply"
  BY ProbeEffect
<1>5. \A u \in Ids \ {This} : mods'[u] = mods[u]
  BY ProbeEffect
<1>6. \A u \in Ids : mods'[u].st \notin {"session", "complete"}
  BY <1>3, <1>4, <1>5
<1>7. /\ \A u \in Ids : mods'[u].st = "verified" => mods'[u].before # 0
      /\ ~(~ok /\ ~Silent) => \A u \in grp.members \ NextMember :
                                  mods'[u].st = "pending" => mods'[u].before # 0
  <2>1. \A u \in Ids : mods[u].st = "verified" => mods[u].before # 0
    BY <1>1 DEF ProbedInv, In
  <2>2. \A u \in grp.members \ grp.todo : mods[u].st = "pending" => mods[u].before # 0
    BY <1>1 DEF ProbedInv
  <2>3. QED
    BY <1>1, <1>2, <1>4, <1>5, <2>1, <2>2
<1>8. CASE ~ok /\ ~Silent
  <2>1. grp' = [grp EXCEPT !.sub = grp.sub + 1] /\ run' = run /\ mods' = mods
    BY <1>8 DEF Probe
  <2>2. grp'.members = grp.members /\ grp'.todo = grp.todo
    BY <1>1, <2>1 DEF GroupType
  <2>3. QED
    BY <1>1, <2>1, <2>2 DEF GroupInv, ProbedInv, In, Outside
<1>9. CASE ~(~ok /\ ~Silent) /\ NextMember # {}
  <2>1. grp' = [grp EXCEPT !.sub = 0, !.todo = NextMember] /\ run' = run
    BY <1>9 DEF Probe
  <2>2. grp'.members = grp.members /\ grp'.todo = NextMember
    BY <1>1, <2>1 DEF GroupType
  <2>3. \A u \in NextMember : mods'[u].st = "pending"
    BY <1>1, <1>2, <1>5 DEF GroupInv, In
  <2>4. GroupInv'
    BY <1>1, <1>2, <1>6, <1>9, <2>1, <2>2, <2>3 DEF GroupInv, In, Outside
  <2>5. ProbedInv'
    BY <1>1, <1>2, <1>6, <1>7, <1>9, <2>1, <2>2 DEF ProbedInv, In
  <2>6. QED
    BY <2>4, <2>5
<1>10. CASE ~(~ok /\ ~Silent) /\ NextMember = {} /\ Still({"pending"}) = {}
  <2>1. GroupDone
    BY <1>10 DEF Probe
  <2>2. GroupInv'
    BY <1>1, <1>6, <2>1, GroupDoneEffect
  <2>3. run'.ph = "pick"
    BY <2>1, BackEffect DEF GroupDone
  <2>4. QED
    BY <1>6, <1>7, <2>2, <2>3 DEF ProbedInv, In
<1>11. CASE ~(~ok /\ ~Silent) /\ NextMember = {} /\ Still({"pending"}) # {}
  <2>1. /\ grp' = [grp EXCEPT !.sub = 0, !.todo = {}, !.members = Still({"pending"})]
        /\ Goto("meta")
    BY <1>11 DEF Probe
  <2>2. grp'.members = Still({"pending"}) /\ grp'.todo = {}
    BY <1>1, <2>1 DEF GroupType
  <2>3. /\ run'.ph = "meta" /\ run'.active /\ run'.img = run.img
        /\ run'.result = run.result
    BY <1>1, <2>1, GotoEffect DEF Phases
  <2>4. GroupInv'
    BY <1>1, <1>6, <1>11, <2>2, <2>3 DEF GroupInv, In, Outside, Still
  <2>5. ProbedInv'
    BY <1>1, <1>6, <1>7, <1>11, <2>2, <2>3 DEF ProbedInv, In, Still
  <2>6. QED
    BY <2>4, <2>5
<1>12. QED
  BY <1>8, <1>9, <1>10, <1>11

\* META and ENTER: nobody's row changes.
LEMMA FlowEnter ==
    ASSUME TypeOK, GroupInv, ProbedInv
    PROVE  /\ \A H \in SUBSET Ids : Meta(H) => GroupInv' /\ ProbedInv'
           /\ \A heard \in BOOLEAN : Enter(heard) => GroupInv' /\ ProbedInv'
<1>1. /\ run \in RunType /\ mods \in [Ids -> RowType] /\ grp \in GroupType
  BY DEF TypeOK
<1>2. ASSUME NEW H \in SUBSET Ids, Meta(H) PROVE GroupInv' /\ ProbedInv'
  <2>1. /\ run'.ph = "enter" /\ run'.active /\ run.active /\ run.ph = "meta"
        /\ run'.img = run.img /\ run'.result = run.result
    BY <1>1, <1>2, GotoEffect DEF Meta, At, Phases
  <2>2. mods' = mods /\ grp'.members = grp.members /\ grp'.todo = grp.members
    BY <1>1, <1>2 DEF Meta, GroupType
  <2>3. grp.members # {}
    BY <2>1 DEF GroupInv
  <2>4. QED
    BY <2>1, <2>2, <2>3 DEF GroupInv, ProbedInv, In, Outside
<1>3. ASSUME NEW heard \in BOOLEAN, Enter(heard) PROVE GroupInv' /\ ProbedInv'
  <2>1. /\ run.active /\ run.ph = "enter" /\ grp.todo # {}
        /\ grp.todo \subseteq grp.members /\ mods' = mods
    BY <1>3 DEF Enter, At, GroupInv
  <2>2. NextMember \subseteq grp.todo
    BY <1>1, <2>1, ThisIsMember
  <2>3. CASE NextMember # {}
    <3>1. run' = run /\ grp'.members = grp.members /\ grp'.todo = NextMember
      BY <1>1, <1>3, <2>3 DEF Enter, GroupType
    <3>2. QED
      BY <2>1, <2>2, <2>3, <3>1 DEF GroupInv, ProbedInv, In, Outside
  <2>4. CASE NextMember = {}
    <3>1. /\ run'.ph = "enterCheck" /\ run'.active
          /\ run'.img = run.img /\ run'.result = run.result
          /\ grp'.members = grp.members /\ grp'.todo = grp.members
      BY <1>1, <1>3, <2>1, <2>4, GotoEffect DEF Enter, GroupType, Phases
    <3>2. QED
      BY <2>1, <3>1 DEF GroupInv, ProbedInv, In, Outside
  <2>5. QED
    BY <2>3, <2>4
<1>4. QED
  BY <1>2, <1>3

\* The check after ENTER: a member that is RECEIVING is in session, any other
\* loses a try.
LEMMA EnterCheckEffect ==
    ASSUME TypeOK, GroupInv, NEW ok \in BOOLEAN, EnterCheck(ok)
    PROVE  /\ This \in grp.todo /\ This \in Ids /\ mods[This].st = "pending"
           /\ \A u \in Ids \ {This} : mods'[u] = mods[u]
           /\ mods'[This].st \in {"session", "pending", "gaveUp"}
           /\ mods'[This].st = "session" => dev[This].state = "receiving"
           /\ mods'[This].before = mods[This].before
           /\ run.active /\ run.ph = "enterCheck" /\ dev' = dev /\ applied' = applied
           /\ run'.active /\ run'.img = run.img /\ run'.result = run.result
           /\ \/ run'.ph = "pick"
              \/ run'.ph \in {"enterCheck", "stream"} /\ grp'.members \subseteq grp.members
<1>1. /\ run \in RunType /\ mods \in [Ids -> RowType] /\ grp \in GroupType
      /\ run.active /\ run.ph = "enterCheck" /\ grp.todo # {}
      /\ dev' = dev /\ applied' = applied
  BY DEF TypeOK, EnterCheck, At, GroupInv
<1>2. This \in grp.todo /\ This \in Ids /\ mods[This].st = "pending"
  BY <1>1, ThisIsMember DEF GroupInv, In
<1>3. /\ run'.active /\ run'.img = run.img /\ run'.result = run.result
      /\ \/ run'.ph = "pick"
         \/ run'.ph \in {"enterCheck", "stream"} /\ grp'.members \subseteq grp.members
  <2>1. PICK S \in SUBSET grp.members : S = Still({"session"})
    BY DEF Still
  <2>2. \/ run' = run /\ grp' = [grp EXCEPT !.todo = NextMember]
        \/ GroupDone
        \/ Goto("stream") /\ grp' = [grp EXCEPT !.todo = {}, !.members = S, !.idx = 0]
    BY <2>1 DEF EnterCheck
  <2>3. CASE GroupDone
    BY <1>1, <2>3, BackEffect DEF GroupDone
  <2>4. CASE run' = run /\ grp' = [grp EXCEPT !.todo = NextMember]
    BY <1>1, <2>4 DEF GroupType
  <2>5. CASE Goto("stream") /\ grp' = [grp EXCEPT !.todo = {}, !.members = S, !.idx = 0]
    <3>1. grp'.members \subseteq grp.members
      BY <1>1, <2>5 DEF GroupType
    <3>2. QED
      BY <1>1, <2>5, <3>1, GotoEffect DEF Phases
  <2>6. QED
    BY <2>2, <2>3, <2>4, <2>5
<1>4. PICK m \in RowType : /\ mods' = Set(This, m)
                           /\ m.st \in {"session", "pending", "gaveUp"}
                           /\ m.st = "session" => dev[This].state = "receiving"
                           /\ m.before = mods[This].before
  <2>1. /\ [mods[This] EXCEPT !.st = "session"] \in RowType
        /\ [mods[This] EXCEPT !.st = "session"].st = "session"
        /\ [mods[This] EXCEPT !.st = "session"].before = mods[This].before
    BY <1>1, <1>2 DEF RowType, ModStates
  <2>2. CASE ok /\ dev[This].state = "receiving"
    BY <2>1, <2>2 DEF EnterCheck
  <2>3. CASE ~(ok /\ dev[This].state = "receiving")
    BY <1>1, <1>2, <2>3, DroppedRow DEF EnterCheck
  <2>4. QED
    BY <2>2, <2>3
<1>5. mods'[This] = m /\ \A u \in Ids \ {This} : mods'[u] = mods[u]
  BY <1>1, <1>2, <1>4, SetEffect
<1>6. QED
  BY <1>1, <1>2, <1>3, <1>4, <1>5

LEMMA FlowEnterCheck ==
    ASSUME TypeOK, GroupInv, ProbedInv, NEW ok \in BOOLEAN, EnterCheck(ok)
    PROVE  GroupInv' /\ ProbedInv'
<1>1. /\ run \in RunType /\ grp \in GroupType
      /\ run.active /\ run.ph = "enterCheck"
      /\ grp.todo # {} /\ grp.todo \subseteq grp.members /\ grp.members \subseteq Ids
  BY DEF TypeOK, EnterCheck, At, GroupInv, GroupType
<1>2. This \in grp.todo /\ This \in Ids /\ NextMember = grp.todo \ {This}
  BY EnterCheckEffect DEF NextMember
<1>3. \A u \in Ids \ grp.members : mods[u].st \notin {"session", "complete"}
  BY <1>1 DEF GroupInv, In, Outside
<1>4. /\ mods'[This].st \in {"session", "pending", "gaveUp"}
      /\ mods'[This].before = mods[This].before
  BY EnterCheckEffect
<1>5. \A u \in Ids \ {This} : mods'[u] = mods[u]
  BY EnterCheckEffect
<1>6. /\ \A u \in Ids \ grp.members : mods'[u].st \notin {"session", "complete"}
      /\ \A u \in Ids : mods'[u].st # "complete"
  <2>1. \A u \in Ids : mods[u].st # "complete"
    BY <1>1 DEF GroupInv, In
  <2>2. QED
    BY <1>1, <1>2, <1>3, <1>4, <1>5, <2>1
<1>7. /\ \A u \in grp.members : mods'[u].before # 0
      /\ \A u \in Ids : mods'[u].st \in {"session", "complete", "verified"}
                          => mods'[u].before # 0
  <2>1. \A u \in grp.members : mods[u].before # 0
    BY <1>1 DEF ProbedInv
  <2>2. \A u \in Ids : mods[u].st \in {"session", "complete", "verified"}
                          => mods[u].before # 0
    BY <1>1 DEF ProbedInv, In
  <2>3. QED
    BY <1>1, <1>2, <1>4, <1>5, <2>1, <2>2
<1>8. CASE NextMember # {}
  <2>1. grp' = [grp EXCEPT !.todo = NextMember] /\ run' = run
    BY <1>8 DEF EnterCheck
  <2>2. grp'.members = grp.members /\ grp'.todo = NextMember
    BY <1>1, <2>1 DEF GroupType
  <2>3. \A u \in NextMember : mods'[u].st = "pending"
    BY <1>1, <1>2, <1>5 DEF GroupInv, In
  <2>4. GroupInv'
    BY <1>1, <1>2, <1>6, <1>8, <2>1, <2>2, <2>3 DEF GroupInv, In, Outside
  <2>5. ProbedInv'
    BY <1>1, <1>7, <2>1, <2>2 DEF ProbedInv, In
  <2>6. QED
    BY <2>4, <2>5
<1>9. CASE NextMember = {} /\ Still({"session"}) = {}
  <2>1. GroupDone
    BY <1>9 DEF EnterCheck
  <2>2. \A u \in Ids : mods'[u].st \notin {"session", "complete"}
    <3>1. \A u \in grp.members : mods'[u].st # "session"
      BY <1>9 DEF Still
    <3>2. QED
      BY <1>6, <3>1
  <2>3. GroupInv'
    BY <1>1, <2>1, <2>2, GroupDoneEffect
  <2>4. run'.ph = "pick"
    BY <2>1, BackEffect DEF GroupDone
  <2>5. QED
    BY <1>7, <2>3, <2>4 DEF ProbedInv, In
<1>10. CASE NextMember = {} /\ Still({"session"}) # {}
  <2>1. /\ grp' = [grp EXCEPT !.todo = {}, !.members = Still({"session"}), !.idx = 0]
        /\ Goto("stream")
    BY <1>10 DEF EnterCheck
  <2>2. grp'.members = Still({"session"}) /\ grp'.todo = {}
    BY <1>1, <2>1 DEF GroupType
  <2>3. /\ run'.ph = "stream" /\ run'.active /\ run'.img = run.img
        /\ run'.result = run.result
    BY <1>1, <2>1, GotoEffect DEF Phases
  <2>4. GroupInv'
    BY <1>1, <1>6, <2>2, <2>3 DEF GroupInv, In, Outside, Still
  <2>5. ProbedInv'
    BY <1>1, <1>7, <2>2, <2>3 DEF ProbedInv, In
  <2>6. QED
    BY <2>4, <2>5
<1>11. QED
  BY <1>8, <1>9, <1>10

\* STREAM and the repair list: nobody's row changes.
LEMMA FlowStream ==
    ASSUME TypeOK, GroupInv, ProbedInv
    PROVE  /\ \A H \in SUBSET Ids : Stream(H) \/ RepairSend(H) => GroupInv' /\ ProbedInv'
           /\ RepairRound \/ RepairSkip => GroupInv' /\ ProbedInv'
<1>1. /\ run \in RunType /\ mods \in [Ids -> RowType] /\ grp \in GroupType
  BY DEF TypeOK
<1>2. ASSUME NEW H \in SUBSET Ids, Stream(H) PROVE GroupInv' /\ ProbedInv'
  <2>1. run.active /\ run.ph = "stream" /\ mods' = mods
    BY <1>2 DEF Stream, At
  <2>2. CASE grp.idx + 1 < Total
    <3>1. grp' = [grp EXCEPT !.idx = grp.idx + 1] /\ run' = run
      BY <1>2, <2>2 DEF Stream
    <3>2. grp'.members = grp.members /\ grp'.todo = grp.todo
      BY <1>1, <3>1 DEF GroupType
    <3>3. QED
      BY <2>1, <3>1, <3>2 DEF GroupInv, ProbedInv, In, Outside
  <2>3. CASE ~(grp.idx + 1 < Total)
    <3>1. /\ run'.ph = "repair" /\ run'.active
          /\ run'.img = run.img /\ run'.result = run.result
          /\ grp'.members = grp.members /\ grp'.todo = grp.members
      BY <1>1, <1>2, <2>1, <2>3, GotoEffect DEF Stream, GroupType, Phases
    <3>2. QED
      BY <2>1, <3>1 DEF GroupInv, ProbedInv, In, Outside
  <2>4. QED
    BY <2>2, <2>3
<1>3. ASSUME NEW H \in SUBSET Ids, RepairSend(H) PROVE GroupInv' /\ ProbedInv'
  <2>1. run.active /\ run.ph = "repairSend" /\ mods' = mods
    BY <1>3 DEF RepairSend, At
  <2>. DEFINE rest == grp.missing \ {Min(grp.missing)}
  <2>2. CASE rest # {}
    <3>1. grp' = [grp EXCEPT !.missing = rest] /\ run' = run
      BY <1>3, <2>2 DEF RepairSend
    <3>2. /\ grp'.members = grp.members /\ grp'.todo = grp.todo
          /\ grp'.missing # {}
      BY <1>1, <2>2, <3>1 DEF GroupType
    <3>3. QED
      BY <2>1, <3>1, <3>2 DEF GroupInv, ProbedInv, In, Outside
  <2>3. CASE rest = {}
    <3>1. /\ grp' = [grp EXCEPT !.missing = {}, !.round = grp.round + 1,
                                !.todo = grp.members]
          /\ Goto("repair")
      BY <1>3, <2>3 DEF RepairSend
    <3>2. /\ run'.ph = "repair" /\ run'.active
          /\ run'.img = run.img /\ run'.result = run.result
          /\ grp'.members = grp.members /\ grp'.todo = grp.members
      BY <1>1, <2>1, <3>1, GotoEffect DEF GroupType, Phases
    <3>3. QED
      BY <2>1, <3>2 DEF GroupInv, ProbedInv, In, Outside
  <2>4. QED
    BY <2>2, <2>3
<1>4. ASSUME RepairRound PROVE GroupInv' /\ ProbedInv'
  <2>1. /\ run.active /\ run.ph = "repair" /\ mods' = mods /\ grp' = grp
        /\ \/ Goto("finalize")
           \/ Goto("repairSend") /\ grp.missing # {}
    BY <1>4 DEF RepairRound, At
  <2>2. /\ run'.active /\ run'.img = run.img /\ run'.result = run.result
        /\ run'.ph = "finalize" \/ (run'.ph = "repairSend" /\ grp.missing # {})
    BY <1>1, <2>1, GotoEffect DEF Phases
  <2>3. QED
    BY <2>1, <2>2 DEF GroupInv, ProbedInv, In, Outside
<1>5. ASSUME RepairSkip PROVE GroupInv' /\ ProbedInv'
  <2>1. /\ run.active /\ run.ph = "repair" /\ mods' = mods /\ run' = run
        /\ grp.todo # {}
    BY <1>5 DEF RepairSkip, At
  <2>2. /\ grp'.members = grp.members /\ grp'.todo = NextMember
        /\ NextMember \subseteq grp.todo
    BY <1>1, <1>5, <2>1, ThisIsMember DEF RepairSkip, GroupType
  <2>3. QED
    BY <2>1, <2>2 DEF GroupInv, ProbedInv, In, Outside
<1>6. QED
  BY <1>2, <1>3, <1>4, <1>5

\* REPAIR: a member still in session goes on, is complete, or loses a try.
LEMMA RepairEffect ==
    ASSUME TypeOK, GroupInv, NEW H \in SUBSET Ids, NEW stateOk \in BOOLEAN,
           NEW mapOk \in BOOLEAN, RepairRead(H, stateOk, mapOk)
    PROVE  /\ This \in grp.todo /\ This \in Ids /\ mods[This].st = "session"
           /\ mods' \in [Ids -> RowType]
           /\ \A u \in Ids \ {This} : mods'[u] = mods[u]
           /\ mods'[This].st \in {"session", "complete", "pending", "gaveUp"}
           /\ mods'[This].before = mods[This].before
           /\ grp'.members = grp.members /\ grp'.todo \subseteq grp.todo
<1>1. /\ mods \in [Ids -> RowType] /\ grp \in GroupType /\ grp.todo # {}
      /\ mods[This].st = "session"
  BY DEF TypeOK, RepairRead
<1>2. /\ This \in grp.todo /\ This \in Ids /\ NextMember \subseteq grp.todo
  BY <1>1, ThisIsMember
<1>3. /\ Dropped(mods[This]) \in RowType
      /\ Dropped(mods[This]).st \in {"pending", "gaveUp"}
      /\ Dropped(mods[This]).before = mods[This].before
  BY <1>1, <1>2, DroppedRow
<1>4. /\ [mods[This] EXCEPT !.st = "complete"] \in RowType
      /\ [mods[This] EXCEPT !.st = "complete"].st = "complete"
      /\ [mods[This] EXCEPT !.st = "complete"].before = mods[This].before
  BY <1>1, <1>2 DEF RowType, ModStates
<1>5. \/ mods' = mods
      \/ mods' = Set(This, Dropped(mods[This]))
      \/ mods' = Set(This, [mods[This] EXCEPT !.st = "complete"])
  BY DEF RepairRead
<1>6. /\ mods' \in [Ids -> RowType]
      /\ \A u \in Ids \ {This} : mods'[u] = mods[u]
      /\ mods'[This].st \in {"session", "complete", "pending", "gaveUp"}
      /\ mods'[This].before = mods[This].before
  <2>1. CASE mods' = mods
    BY <1>1, <1>2, <2>1
  <2>2. CASE mods' = Set(This, Dropped(mods[This]))
    BY <1>1, <1>2, <1>3, <2>2, SetEffect
  <2>3. CASE mods' = Set(This, [mods[This] EXCEPT !.st = "complete"])
    <3>1. PICK m \in RowType : /\ m = [mods[This] EXCEPT !.st = "complete"]
                               /\ m.st = "complete" /\ m.before = mods[This].before
      BY <1>4
    <3>2. mods' = Set(This, m)
      BY <2>3, <3>1
    <3>3. /\ mods' \in [Ids -> RowType] /\ mods'[This] = m
          /\ \A u \in Ids \ {This} : mods'[u] = mods[u]
      BY <1>1, <1>2, <3>2, SetEffect
    <3>4. QED
      BY <3>1, <3>3
  <2>4. QED
    BY <1>5, <2>1, <2>2, <2>3
<1>7. grp'.members = grp.members /\ grp'.todo \subseteq grp.todo
  <2>1. \/ grp' = [grp EXCEPT !.todo = NextMember]
        \/ grp' = [grp EXCEPT !.sub = 0, !.todo = NextMember]
        \/ grp' = [grp EXCEPT !.sub = grp.sub + 1]
        \/ grp' = [grp EXCEPT !.sub = 0, !.todo = NextMember,
                              !.missing = grp.missing \cup Missing(This)]
    BY DEF RepairRead
  <2>2. QED
    BY <1>1, <1>2, <2>1 DEF GroupType
<1>8. QED
  BY <1>1, <1>2, <1>6, <1>7

LEMMA FlowRepair ==
    ASSUME TypeOK, GroupInv, ProbedInv, NEW H \in SUBSET Ids,
           NEW stateOk \in BOOLEAN, NEW mapOk \in BOOLEAN,
           RepairRead(H, stateOk, mapOk)
    PROVE  GroupInv' /\ ProbedInv'
<1>1. run.active /\ run.ph = "repair" /\ run' = run /\ grp.todo \subseteq grp.members
  BY DEF RepairRead, At, GroupInv
<1>2. GroupInv'
  BY <1>1, RepairEffect DEF GroupInv, In, Outside
<1>3. ProbedInv'
  <2>1. /\ This \in Ids /\ mods[This].st = "session"
        /\ mods'[This].before = mods[This].before
        /\ \A u \in Ids \ {This} : mods'[u] = mods[u]
    BY RepairEffect
  <2>2. \A u \in Ids : mods[u].st \in {"session", "complete", "verified"}
                         => mods[u].before # 0
    BY <1>1 DEF ProbedInv, In
  <2>3. \A u \in Ids : mods'[u].st \in {"session", "complete", "verified"}
                         => mods'[u].before # 0
    BY <2>1, <2>2
  <2>4. QED
    BY <1>1, <2>3 DEF ProbedInv, In
<1>4. QED
  BY <1>2, <1>3

\* The finalize check: an open member is decided, or asked again.
LEMMA FinalizeEffect ==
    ASSUME TypeOK, GroupInv, NEW ok \in BOOLEAN, FinalizeRead(ok)
    PROVE  /\ This \in grp.todo /\ This \in Ids
           /\ mods[This].st \in {"session", "complete"}
           /\ mods' \in [Ids -> RowType]
           /\ \A u \in Ids \ {This} : mods'[u] = mods[u]
           /\ mods'[This].before = mods[This].before
           /\ grp'.members = grp.members
           /\ \/ mods' = mods /\ grp'.todo = grp.todo
              \/ /\ grp'.todo = grp.todo \ {This}
                 /\ mods'[This].st \in {"verified", "failed", "pending", "gaveUp"}
                 /\ mods'[This].st = "verified" => dev[This].state = "verified"
<1>1. /\ mods \in [Ids -> RowType] /\ grp \in GroupType /\ grp.todo # {}
      /\ mods[This].st \in {"session", "complete"}
  BY DEF TypeOK, FinalizeRead, Open
<1>2. /\ This \in grp.todo /\ This \in Ids /\ NextMember = grp.todo \ {This}
  BY <1>1, ThisIsMember DEF NextMember
<1>3. /\ Dropped(mods[This]) \in RowType
      /\ Dropped(mods[This]).st \in {"pending", "gaveUp"}
      /\ Dropped(mods[This]).before = mods[This].before
  BY <1>1, <1>2, DroppedRow
<1>4. \A st \in {"verified", "failed"} :
        /\ [mods[This] EXCEPT !.st = st] \in RowType
        /\ [mods[This] EXCEPT !.st = st].st = st
        /\ [mods[This] EXCEPT !.st = st].before = mods[This].before
  BY <1>1, <1>2 DEF RowType, ModStates
<1>5. /\ Outcome(This) \in RowType
      /\ Outcome(This).st \in {"verified", "failed", "pending", "gaveUp"}
      /\ Outcome(This).before = mods[This].before
      /\ Outcome(This).st = "verified" => dev[This].state = "verified"
  <2>1. CASE dev[This].state = "verified"
    BY <1>4, <2>1 DEF Outcome
  <2>2. CASE dev[This].state = "error"
    BY <1>4, <2>2 DEF Outcome
  <2>3. CASE dev[This].state \notin {"verified", "error"}
    BY <1>3, <2>3 DEF Outcome
  <2>4. QED
    BY <2>1, <2>2, <2>3
<1>6. CASE ok \/ Silent
  <2>1. grp' = [grp EXCEPT !.sub = 0, !.todo = NextMember]
    BY <1>6 DEF FinalizeRead
  <2>2. grp'.members = grp.members /\ grp'.todo = grp.todo \ {This}
    BY <1>1, <1>2, <2>1 DEF GroupType
  <2>3. mods' = Set(This, Outcome(This)) \/ mods' = Set(This, Dropped(mods[This]))
    BY <1>6 DEF FinalizeRead
  <2>4. CASE mods' = Set(This, Outcome(This))
    BY <1>1, <1>2, <1>5, <2>2, <2>4, SetEffect
  <2>5. CASE mods' = Set(This, Dropped(mods[This]))
    BY <1>1, <1>2, <1>3, <2>2, <2>5, SetEffect
  <2>6. QED
    BY <2>3, <2>4, <2>5
<1>7. CASE ~(ok \/ Silent)
  <2>1. mods' = mods /\ grp' = [grp EXCEPT !.sub = grp.sub + 1]
    BY <1>7 DEF FinalizeRead
  <2>2. grp'.members = grp.members /\ grp'.todo = grp.todo
    BY <1>1, <2>1 DEF GroupType
  <2>3. QED
    BY <1>1, <1>2, <2>1, <2>2
<1>8. QED
  BY <1>6, <1>7

\* FINALIZE, its check, and back to PICK.
LEMMA FlowFinalize ==
    ASSUME TypeOK, GroupInv, ProbedInv
    PROVE  /\ \A K, H \in SUBSET Ids : Finalize(K, H) => GroupInv' /\ ProbedInv'
           /\ \A ok \in BOOLEAN : FinalizeRead(ok) => GroupInv' /\ ProbedInv'
           /\ FinalizeSkip \/ FinalizeDone => GroupInv' /\ ProbedInv'
<1>1. /\ run \in RunType /\ mods \in [Ids -> RowType] /\ grp \in GroupType
      /\ grp.todo \subseteq grp.members
  BY DEF TypeOK, GroupInv
<1>2. ASSUME NEW K \in SUBSET Ids, NEW H \in SUBSET Ids, Finalize(K, H)
      PROVE  GroupInv' /\ ProbedInv'
  <2>1. run.active /\ run.ph = "finalize" /\ mods' = mods
    BY <1>2 DEF Finalize, At
  <2>2. /\ run'.ph = "finalizeCheck" /\ run'.active
        /\ run'.img = run.img /\ run'.result = run.result
        /\ grp'.members = grp.members /\ grp'.todo = grp.members
    BY <1>1, <1>2, <2>1, GotoEffect DEF Finalize, GroupType, Phases
  <2>3. QED
    BY <2>1, <2>2 DEF GroupInv, ProbedInv, In, Outside
<1>3. ASSUME NEW ok \in BOOLEAN, FinalizeRead(ok) PROVE GroupInv' /\ ProbedInv'
  <2>1. run.active /\ run.ph = "finalizeCheck" /\ run' = run
    BY <1>3 DEF FinalizeRead, At
  <2>2. GroupInv'
    BY <1>1, <1>3, <2>1, FinalizeEffect DEF GroupInv, In, Outside
  <2>3. ProbedInv'
    BY <1>3, <2>1, FinalizeEffect DEF ProbedInv, In
  <2>4. QED
    BY <2>2, <2>3
<1>4. ASSUME FinalizeSkip PROVE GroupInv' /\ ProbedInv'
  <2>1. /\ run.active /\ run.ph = "finalizeCheck" /\ mods' = mods /\ run' = run
        /\ grp.todo # {} /\ mods[This].st \notin {"session", "complete"}
    BY <1>4 DEF FinalizeSkip, At, Open
  <2>2. grp'.members = grp.members /\ grp'.todo = grp.todo \ {This}
    BY <1>1, <1>4 DEF FinalizeSkip, NextMember, GroupType
  <2>3. QED
    BY <1>1, <2>1, <2>2 DEF GroupInv, ProbedInv, In, Outside
<1>5. ASSUME FinalizeDone PROVE GroupInv' /\ ProbedInv'
  <2>1. /\ run.active /\ run.ph = "finalizeCheck" /\ mods' = mods
        /\ grp.todo = {} /\ GroupDone
    BY <1>5 DEF FinalizeDone, At
  <2>2. \A u \in Ids : mods'[u].st \notin {"session", "complete"}
    BY <2>1 DEF GroupInv, In
  <2>3. run'.ph = "pick"
    BY <2>1, BackEffect DEF GroupDone
  <2>4. QED
    BY <2>1, <2>2, <2>3, GroupDoneEffect DEF ProbedInv, In
<1>6. QED
  BY <1>2, <1>3, <1>4, <1>5

\* APPLY and its confirmation.
LEMMA ConfirmEffect ==
    ASSUME TypeOK, GroupInv, NEW ok \in BOOLEAN, Confirm(ok)
    PROVE  /\ run.target \in Ids /\ mods[run.target].st = "verified"
           /\ run.active /\ run.ph = "confirm"
           /\ mods' \in [Ids -> RowType] /\ grp' = grp /\ dev' = dev
           /\ applied' = applied
           /\ \A u \in Ids \ {run.target} : mods'[u] = mods[u]
           /\ mods'[run.target].before = mods[run.target].before
           /\ \/ /\ mods' = mods
                 /\ run' = [run EXCEPT !.tries = run.tries + 1] /\ file' = file
              \/ /\ BackToPick
                 /\ mods'[run.target].st \in {"updated", "same", "failed"}
                 /\ mods'[run.target].st = "updated" =>
                        dev[run.target].fw # mods[run.target].before
<1>. DEFINE u == run.target
            last == run.tries + 1 >= ConfirmTries
            new == IF dev[u].fw # mods[u].before THEN "updated" ELSE "same"
<1>1. /\ run.active /\ run.ph = "confirm" /\ u \in Ids /\ mods[u].st = "verified"
      /\ mods \in [Ids -> RowType]
  BY DEF Confirm, At, GroupInv, In, TypeOK
<1>2. \A st \in ModStates : [mods[u] EXCEPT !.st = st] \in RowType
                            /\ [mods[u] EXCEPT !.st = st].st = st
                            /\ [mods[u] EXCEPT !.st = st].before = mods[u].before
  BY <1>1 DEF RowType
<1>3. CASE ok \/ last
  <2>1. PICK st \in {"updated", "same", "failed"} :
          /\ mods' = Set(u, [mods[u] EXCEPT !.st = st])
          /\ st = "updated" => dev[u].fw # mods[u].before
    BY <1>3 DEF Confirm
  <2>2. BackToPick
    BY <1>3 DEF Confirm
  <2>3. /\ mods' \in [Ids -> RowType]
        /\ \A v \in Ids \ {u} : mods'[v] = mods[v]
        /\ mods'[u].st = st /\ mods'[u].before = mods[u].before
    <3>1. st \in ModStates
      BY DEF ModStates
    <3>2. PICK m \in RowType : /\ m = [mods[u] EXCEPT !.st = st]
                               /\ m.st = st /\ m.before = mods[u].before
      BY <1>2, <3>1
    <3>3. QED
      BY <1>1, <2>1, <3>2, SetEffect
  <2>4. QED
    BY <1>1, <2>1, <2>2, <2>3 DEF Confirm
<1>4. CASE ~(ok \/ last)
  <2>1. mods' = mods /\ run' = [run EXCEPT !.tries = run.tries + 1] /\ file' = file
    BY <1>4 DEF Confirm
  <2>2. QED
    BY <1>1, <2>1 DEF Confirm
<1>5. QED
  BY <1>3, <1>4

LEMMA FlowApply ==
    ASSUME TypeOK, GroupInv, ProbedInv
    PROVE  /\ ApplyPutOff => GroupInv' /\ ProbedInv'
           /\ \A ok \in BOOLEAN : ApplySend(ok) \/ Confirm(ok) => GroupInv' /\ ProbedInv'
<1>1. run \in RunType /\ mods \in [Ids -> RowType]
  BY DEF TypeOK
<1>2. ASSUME ApplyPutOff PROVE GroupInv' /\ ProbedInv'
  <2>1. /\ run.active /\ run.ph = "apply" /\ mods' = mods /\ grp' = grp
        /\ run'.active /\ run'.ph = "pick" /\ run'.img = run.img
        /\ run'.result = run.result
    BY <1>1, <1>2 DEF ApplyPutOff, At, RunType
  <2>2. QED
    BY <2>1 DEF GroupInv, ProbedInv, In, Outside
<1>3. ASSUME NEW ok \in BOOLEAN, ApplySend(ok) PROVE GroupInv' /\ ProbedInv'
  <2>1. /\ run.active /\ run.ph = "apply" /\ mods' = mods /\ grp' = grp
        /\ run' = [run EXCEPT !.ph = "confirm", !.tries = 0]
    BY <1>3 DEF ApplySend, At
  <2>2. /\ run'.active /\ run'.ph = "confirm" /\ run'.img = run.img
        /\ run'.result = run.result /\ run'.target = run.target
    BY <1>1, <2>1 DEF RunType
  <2>3. QED
    BY <2>1, <2>2 DEF GroupInv, ProbedInv, In, Outside
<1>4. ASSUME NEW ok \in BOOLEAN, Confirm(ok) PROVE GroupInv' /\ ProbedInv'
  <2>1. /\ run.target \in Ids /\ mods[run.target].st = "verified"
        /\ run.active /\ run.ph = "confirm" /\ grp' = grp
        /\ \A u \in Ids \ {run.target} : mods'[u] = mods[u]
        /\ mods'[run.target].before = mods[run.target].before
    BY <1>4, ConfirmEffect
  <2>2. CASE mods' = mods /\ run' = [run EXCEPT !.tries = run.tries + 1]
    <3>1. /\ run'.active /\ run'.ph = "confirm" /\ run'.img = run.img
          /\ run'.result = run.result /\ run'.target = run.target
      BY <1>1, <2>1, <2>2 DEF RunType
    <3>2. QED
      BY <2>1, <2>2, <3>1 DEF GroupInv, ProbedInv, In, Outside
  <2>3. CASE BackToPick /\ mods'[run.target].st \in {"updated", "same", "failed"}
    <3>1. /\ run'.active /\ run'.ph = "pick" /\ run'.img = run.img
          /\ run'.result = run.result
      BY <2>1, <2>3, BackEffect
    <3>2. \A u \in Ids : /\ mods'[u].st \notin {"session", "complete"}
                         /\ mods'[u].st = "verified" => mods'[u].before # 0
      BY <2>1, <2>3 DEF GroupInv, ProbedInv, In, Outside
    <3>3. GroupInv'
      BY <2>1, <3>1, <3>2 DEF GroupInv, In, Outside
    <3>4. ProbedInv'
      BY <3>1, <3>2 DEF ProbedInv, In
    <3>5. QED
      BY <3>3, <3>4
  <2>4. QED
    BY <1>4, <2>2, <2>3, ConfirmEffect
<1>5. QED
  BY <1>2, <1>3, <1>4

\* The console and the rest of the gateway.
LEMMA FlowOthers ==
    ASSUME TypeOK, GroupInv, ProbedInv
    PROVE  /\ \A img \in Images : Start(img) => GroupInv' /\ ProbedInv'
           /\ \A H \in SUBSET Ids : Abort(H) => GroupInv' /\ ProbedInv'
           /\ \A u \in Ids : Foreign(u) \/ Release(u) \/ Expire(u)
                  => GroupInv' /\ ProbedInv'
           /\ RequestAbort \/ Lull \/ Settle => GroupInv' /\ ProbedInv'
           /\ \A torn, cycled \in BOOLEAN : Reset(torn, cycled) => GroupInv' /\ ProbedInv'
           /\ UNCHANGED vars => GroupInv' /\ ProbedInv'
<1>1. ASSUME NEW img \in Images, Start(img) PROVE GroupInv' /\ ProbedInv'
  <2>1. /\ run' = [NoRun EXCEPT !.active = TRUE, !.seq = NextSeq, !.img = img,
                                !.result = "running"]
        /\ mods' = Fresh /\ grp' = NoGroup
    BY <1>1 DEF Start, Rows
  <2>2. /\ run'.active /\ run'.ph = "pick" /\ run'.img = img
        /\ run'.result = "running"
    BY <2>1 DEF NoRun
  <2>3. QED
    BY <2>1, <2>2, StartTypes DEF GroupInv, ProbedInv, In, Outside, NoGroup
<1>2. ASSUME NEW H \in SUBSET Ids, Abort(H) PROVE GroupInv' /\ ProbedInv'
  <2>1. run'.active = FALSE /\ run'.result = "aborted" /\ grp' = NoGroup
    BY <1>2, AbortEffect, FinishEffect DEF Results
  <2>2. QED
    BY <2>1 DEF GroupInv, ProbedInv, NoGroup
<1>3. ASSUME RequestAbort PROVE GroupInv' /\ ProbedInv'
  <2>1. /\ run'.active = run.active /\ run'.ph = run.ph /\ run'.img = run.img
        /\ run'.result = run.result /\ run'.target = run.target
        /\ mods' = mods /\ grp' = grp
    BY <1>3 DEF RequestAbort, TypeOK, RunType
  <2>2. QED
    BY <2>1 DEF GroupInv, ProbedInv, In
<1>4. ASSUME NEW torn \in BOOLEAN, NEW cycled \in BOOLEAN, Reset(torn, cycled)
      PROVE  GroupInv' /\ ProbedInv'
  BY <1>4 DEF Reset, NoRun, NoGroup, GroupInv, ProbedInv
<1>5. ASSUME run' = run, mods' = mods, grp' = grp PROVE GroupInv' /\ ProbedInv'
  BY <1>5 DEF GroupInv, ProbedInv, In
<1>6. QED
  BY <1>1, <1>2, <1>3, <1>4, <1>5 DEF Foreign, Release, Expire, Lull, Settle, vars

\* Every step keeps what is known of the group.
LEMMA FlowStep ==
    ASSUME TypeOK, GroupInv, ProbedInv, [Next]_vars
    PROVE  GroupInv' /\ ProbedInv'
<1>1. CASE Step
  BY <1>1, FlowPick, FlowProbe, FlowEnter, FlowEnterCheck, FlowStream, FlowRepair,
     FlowFinalize, FlowApply, FlowOthers DEF Step
<1>2. CASE ~Step
  BY <1>2, FlowOthers DEF Next
<1>3. QED
  BY <1>1, <1>2

LEMMA FlowInit == Init => TypeOK /\ GroupInv /\ ProbedInv
<1>. SUFFICES ASSUME Init PROVE TypeOK /\ GroupInv /\ ProbedInv
  OBVIOUS
<1>1. TypeOK
  <2>1. dev \in [Ids -> DevType]
    <3>1. [state : {"idle"}, have : {NoChunks}, meta : {0}, fw : Firmware]
            \subseteq DevType
      BY NoChunksType DEF DevType, DevRecord, DevStates, Versions
    <3>2. QED
      BY <3>1 DEF Init
  <2>2. QED
    <3>1. hub \in HubType
      BY <2>1, HubTypes DEF Init
    <3>2. QED
      BY <2>1, <3>1, StartTypes DEF Init, TypeOK
<1>2. GroupInv /\ ProbedInv
  BY DEF Init, NoRun, NoGroup, GroupInv, ProbedInv
<1>3. QED
  BY <1>1, <1>2

\* Types, phases and rows hold together.
FlowInv == TypeOK /\ GroupInv /\ ProbedInv

LEMMA FlowAlways == Spec => []FlowInv
<1>1. Init => FlowInv
  BY FlowInit DEF FlowInv
<1>2. FlowInv /\ [Next]_vars => FlowInv'
  BY TypeStep, FlowStep DEF FlowInv
<1>3. QED
  BY <1>1, <1>2, PTL DEF Spec

\* A group is left only when every one of its modules is decided, whatever was
\* lost on the bus (PH_FINALIZE_CHECK, ota_runner.cpp).
THEOREM NobodyStranded == Spec => []NoneStranded
<1>1. FlowInv => NoneStranded
  BY DEF FlowInv, GroupInv, NoneStranded, Outside
<1>2. QED
  BY <1>1, FlowAlways, PTL

(***************************************************************************)
(* APPLY and the record on the volume.                                     *)
(***************************************************************************)

\* A module is rebooted only at the moment nobody holds it (PH_APPLY_SEND asks
\* mayApply() again).
THEOREM RebootsUnheld == Spec => RebootsOnlyUnheld
<1>1. ASSUME [Next]_vars PROVE (applied' \ applied) \cap held = {}
  <2>1. ASSUME NEW ok \in BOOLEAN, ApplySend(ok) PROVE (applied' \ applied) \cap held = {}
    <3>1. applied' \subseteq applied \cup {run.target} /\ run.target \notin held
      BY <2>1 DEF ApplySend, StillMayApply, MayApply
    <3>2. QED
      BY <3>1
  <2>2. CASE Step
    BY <2>1, <2>2 DEF Step, PickApply, PickGroup, PickWait, PickFinish, Park, Probe,
       Meta, Enter, EnterCheck, Stream, RepairRound, RepairSkip, RepairRead,
       RepairSend, Finalize, FinalizeSkip, FinalizeRead, FinalizeDone, ApplyPutOff,
       Confirm, Abort, Silently
  <2>3. CASE ~Step
    BY <1>1, <2>3 DEF Next, Start, RequestAbort, Foreign, Release, Expire, Lull,
       Settle, Reset, vars
  <2>4. QED
    BY <2>2, <2>3
<1>2. QED
  BY <1>1, PTL DEF Spec, RebootsOnlyUnheld

\* Whatever a run does but start and be reset, it writes its own file only.
LEMMA WritesOwnFile ==
    ASSUME TypeOK, [Next]_vars,
           \A img \in Images : ~Start(img),
           \A torn, cycled \in BOOLEAN : ~Reset(torn, cycled)
    PROVE  /\ run'.seq = run.seq /\ (run'.active => run.active) /\ kept' = kept
           /\ file' = file \/ \E s \in Results : WriteRecord(run.seq, s)
<1>. DEFINE Own == /\ run'.seq = run.seq /\ (run'.active => run.active) /\ kept' = kept
                   /\ file' = file \/ \E s \in Results : WriteRecord(run.seq, s)
<1>1. run \in RunType /\ "running" \in Results
  BY DEF TypeOK, Results
<1>2. \A ph \in Phases : Goto(ph) => run'.seq = run.seq /\ run'.active = run.active
  BY <1>1, GotoEffect
<1>3. BackToPick => /\ run'.seq = run.seq /\ run'.active = run.active
                    /\ \E s \in Results : WriteRecord(run.seq, s)
  BY <1>1, BackEffect
<1>4. \A r \in Results : Finish(r) => /\ run'.seq = run.seq /\ run'.active = FALSE
                                      /\ \E s \in Results : WriteRecord(run.seq, s)
  BY <1>1, FinishEffect
<1>5. PickApply \/ PickGroup \/ PickWait \/ Park => Own
  BY <1>1, <1>2 DEF PickApply, PickGroup, PickWait, Park, Silently, Quietly, RunType, Phases
<1>6. PickFinish => Own
  <2>1. ASSUME PickFinish PROVE Own
    <3>1. PICK r \in {"ok", "failed"} : Finish(r)
      BY <2>1 DEF PickFinish
    <3>2. QED
      BY <1>4, <2>1, <3>1 DEF PickFinish, Quietly, Results
  <2>2. QED
    BY <2>1
<1>7. \A ok \in BOOLEAN : Probe(ok) \/ EnterCheck(ok) \/ Enter(ok) => Own
  BY <1>1, <1>2, <1>3 DEF Probe, EnterCheck, Enter, GroupDone, Quietly, Phases
<1>8. \A H \in SUBSET Ids : Meta(H) \/ Stream(H) \/ RepairSend(H) => Own
  BY <1>1, <1>2 DEF Meta, Stream, RepairSend, Quietly, Phases
<1>9. \A H \in SUBSET Ids, a, b \in BOOLEAN : RepairRead(H, a, b) => Own
  BY DEF RepairRead, Quietly
<1>10. RepairRound \/ RepairSkip \/ FinalizeSkip \/ FinalizeDone \/ ApplyPutOff => Own
  BY <1>1, <1>2, <1>3 DEF RepairRound, RepairSkip, FinalizeSkip, FinalizeDone,
     GroupDone, ApplyPutOff, Silently, Quietly, Phases, RunType
<1>11. \A K, H \in SUBSET Ids : Finalize(K, H) => Own
  BY <1>1, <1>2 DEF Finalize, Quietly, Phases
<1>12. \A ok \in BOOLEAN : FinalizeRead(ok) \/ ApplySend(ok) \/ Confirm(ok) => Own
  BY <1>1, <1>3 DEF FinalizeRead, ApplySend, Confirm, Quietly, RunType
<1>13. \A H \in SUBSET Ids : Abort(H) => Own
  BY <1>1, <1>4, AbortEffect DEF Quietly, Results
<1>14. CASE Step
  BY <1>5, <1>6, <1>7, <1>8, <1>9, <1>10, <1>11, <1>12, <1>13, <1>14 DEF Step
<1>15. CASE ~Step
  BY <1>1, <1>15 DEF Next, RequestAbort, Foreign, Release, Expire, Lull, Settle,
     vars, RunType
<1>16. QED
  BY <1>14, <1>15

\* Two numbers in a row name different files.
LEMMA PathAlternates ==
    ASSUME NEW n \in Nat
    PROVE  Path(n + 1) = 1 - Path(n)
BY DEF Path

LEMMA RecordStep ==
    ASSUME TypeOK, RecordInv, [Next]_vars
    PROVE  RecordInv'
<1>1. run.seq \in Nat /\ file \in [0..1 -> RecordType]
  BY DEF TypeOK, RunType
<1>2. ASSUME NEW img \in Images, Start(img) PROVE RecordInv'
  <2>1. /\ NextSeq \in Nat /\ Latest \in RecordType /\ Latest.seq \in Nat
        /\ Latest.ok => \E i \in 0..1 : file[i].ok /\ Latest = file[i]
        /\ NextSeq = Latest.seq + 1
    BY <1>1, LatestEffect DEF NextSeq, RecordType
  <2>2. /\ run'.seq = NextSeq /\ kept' = Latest /\ WriteRecord(NextSeq, "running")
    BY <1>2 DEF Start, NoRun
  <2>3. /\ file'[Path(NextSeq)] = [seq |-> NextSeq, ok |-> TRUE, state |-> "running"]
        /\ \A i \in 0..1 : i # Path(NextSeq) => file'[i] = file[i]
        /\ file'[1 - Path(NextSeq)] = file[1 - Path(NextSeq)]
    BY <1>1, <2>1, <2>2, WriteEffect DEF Results
  <2>4. \A i \in 0..1 : file'[i].ok => Path(file'[i].seq) = i
    BY <2>3 DEF RecordInv
  <2>5. ASSUME Latest.ok PROVE file'[1 - Path(NextSeq)] = Latest
    <3>1. Latest = file[Path(Latest.seq)]
      BY <2>1, <2>5 DEF RecordInv
    <3>2. Path(NextSeq) = 1 - Path(Latest.seq)
      BY <2>1, PathAlternates
    <3>3. 1 - Path(NextSeq) = Path(Latest.seq)
      BY <2>1, <3>2, PathType
    <3>4. QED
      BY <2>3, <3>1, <3>3
  <2>6. QED
    BY <2>2, <2>4, <2>5 DEF RecordInv
<1>3. ASSUME NEW torn \in BOOLEAN, NEW cycled \in BOOLEAN, Reset(torn, cycled)
      PROVE  RecordInv'
  <2>1. run'.active = FALSE
    BY <1>3 DEF Reset, NoRun
  <2>2. \A i \in 0..1 : file'[i] = file[i] \/ file'[i].ok = FALSE
    BY <1>1, <1>3 DEF Reset, NoRecord
  <2>3. QED
    BY <2>1, <2>2 DEF RecordInv
<1>4. CASE /\ \A img \in Images : ~Start(img)
           /\ \A torn, cycled \in BOOLEAN : ~Reset(torn, cycled)
  <2>1. /\ run'.seq = run.seq /\ (run'.active => run.active) /\ kept' = kept
        /\ file' = file \/ \E s \in Results : WriteRecord(run.seq, s)
    BY <1>4, WritesOwnFile
  <2>2. CASE file' = file
    BY <2>1, <2>2 DEF RecordInv
  <2>3. ASSUME NEW s \in Results, WriteRecord(run.seq, s) PROVE RecordInv'
    <3>1. /\ file'[Path(run.seq)] = [seq |-> run.seq, ok |-> TRUE, state |-> s]
          /\ \A i \in 0..1 : i # Path(run.seq) => file'[i] = file[i]
          /\ file'[1 - Path(run.seq)] = file[1 - Path(run.seq)]
      BY <1>1, <2>3, WriteEffect
    <3>2. QED
      BY <2>1, <3>1 DEF RecordInv
  <2>4. QED
    BY <2>1, <2>2, <2>3
<1>5. QED
  BY <1>2, <1>3, <1>4

\* The record of the run before survives the current one, resets and torn
\* writes included (resPath(): the two files alternate).
THEOREM PreviousRunSurvives == Spec => []PreviousRunKept
<1>1. Init => RecordInv
  BY DEF Init, RecordInv, NoRun, NoRecord
<1>2. FlowInv /\ RecordInv /\ [Next]_vars => RecordInv'
  BY RecordStep DEF FlowInv
<1>3. FlowInv /\ RecordInv => PreviousRunKept
  <2>1. ASSUME FlowInv PROVE 1 - Path(run.seq) \in 0..1
    BY <2>1, PathType DEF FlowInv, TypeOK, RunType
  <2>2. QED
    BY <2>1 DEF RecordInv, PreviousRunKept
<1>4. QED
  BY <1>1, <1>2, <1>3, FlowAlways, PTL DEF Spec

(***************************************************************************)
(* The image: what is recorded is what the modules hold.                   *)
(***************************************************************************)

\* A group keeps its channel and only loses members; pickGroup() makes one.
LEMMA ChannelStep ==
    ASSUME TypeOK, OneChannel, [Next]_vars
    PROVE  OneChannel'
<1>. DEFINE Shrinks == grp'.members \subseteq grp.members /\ grp'.ch = grp.ch
<1>1. grp \in GroupType
  BY DEF TypeOK
<1>2. Shrinks => OneChannel'
  BY DEF OneChannel
<1>3. grp' = grp => Shrinks
  OBVIOUS
<1>4. grp' = NoGroup => OneChannel'
  BY DEF OneChannel, NoGroup
<1>5. PickGroup => OneChannel'
  <2>1. ASSUME PickGroup PROVE OneChannel'
    <3>1. grp'.members = Picked /\ grp'.ch = Chan[Leader]
      BY <1>1, <2>1 DEF PickGroup, GroupType
    <3>2. QED
      BY <2>1, <3>1, PickedEffect DEF PickGroup, OneChannel
  <2>2. QED
    BY <2>1
<1>6. \A states : Still(states) \subseteq grp.members
  BY DEF Still
<1>7. \A ok \in BOOLEAN : Probe(ok) => Shrinks \/ grp' = NoGroup
  <2>1. ASSUME NEW ok \in BOOLEAN, Probe(ok) PROVE Shrinks \/ grp' = NoGroup
    <3>1. PICK S \in SUBSET grp.members : S = Still({"pending"})
      BY <1>6
    <3>2. \/ grp' = [grp EXCEPT !.sub = grp.sub + 1]
          \/ grp' = [grp EXCEPT !.sub = 0, !.todo = NextMember]
          \/ grp' = NoGroup
          \/ grp' = [grp EXCEPT !.sub = 0, !.todo = {}, !.members = S]
      BY <2>1, <3>1 DEF Probe, GroupDone
    <3>3. QED
      BY <1>1, <3>2 DEF GroupType
  <2>2. QED
    BY <2>1
<1>8. \A ok \in BOOLEAN : EnterCheck(ok) => Shrinks \/ grp' = NoGroup
  <2>1. ASSUME NEW ok \in BOOLEAN, EnterCheck(ok) PROVE Shrinks \/ grp' = NoGroup
    <3>1. PICK S \in SUBSET grp.members : S = Still({"session"})
      BY <1>6
    <3>2. \/ grp' = [grp EXCEPT !.todo = NextMember]
          \/ grp' = NoGroup
          \/ grp' = [grp EXCEPT !.todo = {}, !.members = S, !.idx = 0]
      BY <2>1, <3>1 DEF EnterCheck, GroupDone
    <3>3. QED
      BY <1>1, <3>2 DEF GroupType
  <2>2. QED
    BY <2>1
<1>9. \A ok \in BOOLEAN : Enter(ok) \/ FinalizeRead(ok) => Shrinks
  BY <1>1 DEF Enter, FinalizeRead, GroupType
<1>10. \A H \in SUBSET Ids : Meta(H) \/ Stream(H) \/ RepairSend(H) => Shrinks
  BY <1>1 DEF Meta, Stream, RepairSend, GroupType
<1>11. \A H \in SUBSET Ids, a, b \in BOOLEAN : RepairRead(H, a, b) => Shrinks
  BY <1>1 DEF RepairRead, GroupType
<1>12. \A K, H \in SUBSET Ids : Finalize(K, H) => Shrinks
  BY <1>1 DEF Finalize, GroupType
<1>13. RepairSkip \/ FinalizeSkip => Shrinks
  BY <1>1 DEF RepairSkip, FinalizeSkip, GroupType
<1>14. \A H \in SUBSET Ids : Abort(H) => grp' = NoGroup
  BY DEF Abort
<1>15. CASE Step
  BY <1>2, <1>3, <1>4, <1>5, <1>7, <1>8, <1>9, <1>10, <1>11, <1>12, <1>13, <1>14, <1>15
     DEF Step, PickApply, PickWait, PickFinish, Park, RepairRound, FinalizeDone,
         GroupDone, ApplyPutOff, ApplySend, Confirm
<1>16. CASE ~Step
  BY <1>2, <1>3, <1>4, <1>16 DEF Next, Start, RequestAbort, Foreign, Release, Expire,
     Lull, Settle, Reset, vars
<1>17. QED
  BY <1>15, <1>16

\* A run that is over keeps the rows of the modules it updated.
LEMMA ImageOver ==
    ASSUME run'.active = FALSE,
           \A u \in Ids : mods'[u].st = "updated" => dev'[u].fw = run'.img
    PROVE  ImageInv'
BY DEF ImageInv, RecordedIsTrue, In

\* What may happen to a module between ENTER and the finalize check: it takes
\* chunks of the image; and its row leaves the session, "verified" only if the
\* module said so.
Received(u) ==
    /\ dev'[u].state = dev[u].state
    /\ dev'[u].meta = dev[u].meta
    /\ dev'[u].fw = dev[u].fw
    /\ \A c \in Chunks : dev'[u].have[c] \in {dev[u].have[c], run.img}
Judged(u) ==
    \/ mods'[u] = mods[u]
    \/ /\ mods[u].st \in {"session", "complete"}
       /\ mods'[u].st \in {"session", "complete", "pending", "gaveUp", "failed", "verified"}
       /\ mods'[u].st = "verified" => dev[u].state = "verified"
       /\ mods'[u].before = mods[u].before

LEMMA ImageKept ==
    ASSUME ImageInv, run.active, run'.active, run'.img = run.img, applied' = applied,
           run'.ph \in AfterMeta => /\ run.ph \in AfterMeta
                                    /\ grp'.members \subseteq grp.members,
           run.ph = "confirm" => run'.ph = "confirm" /\ run'.target = run.target,
           grp.members \subseteq Ids, applied \subseteq Ids,
           \A u \in Ids : Received(u) /\ Judged(u)
    PROVE  ImageInv'
<1>1. Collected' /\ Told'
  BY DEF ImageInv, Collected, Told, Received
<1>2. OpenIsOurs'
  BY DEF ImageInv, OpenIsOurs, In, Received, Judged
<1>3. StillBefore'
  BY DEF ImageInv, StillBefore, Received, Judged
<1>4. NowRuns'
  BY DEF ImageInv, NowRuns, Received, Judged
<1>5. RecordedIsTrue'
  <2>1. ASSUME NEW u \in Ids, mods'[u].st = "verified", u \notin applied
        PROVE  dev'[u].state = "verified" /\ dev'[u].meta = run.img
    BY <2>1 DEF ImageInv, RecordedIsTrue, OpenIsOurs, In, Received, Judged
  <2>2. ASSUME NEW u \in Ids, mods'[u].st = "updated"
        PROVE  dev'[u].fw = run.img
    BY <2>2 DEF ImageInv, RecordedIsTrue, In, Received, Judged
  <2>3. QED
    BY <2>1, <2>2 DEF RecordedIsTrue, In
<1>6. QED
  BY <1>1, <1>2, <1>3, <1>4, <1>5 DEF ImageInv

\* Steps that touch no module and no row.
LEMMA ImageFrame ==
    ASSUME TypeOK, ImageInv, dev' = dev, mods' = mods, applied' = applied,
           run'.active = run.active, run'.img = run.img,
           run.active /\ run'.ph \in AfterMeta => /\ run.ph \in AfterMeta
                                                  /\ grp'.members \subseteq grp.members,
           run.active /\ run.ph = "confirm" => run'.ph = "confirm" /\ run'.target = run.target
    PROVE  ImageInv'
<1>1. CASE run.active
  <2>1. \A u \in Ids : Received(u) /\ Judged(u)
    BY DEF Received, Judged
  <2>2. QED
    BY <1>1, <2>1, ImageKept DEF TypeOK, GroupType
<1>2. CASE ~run.active
  <2>1. run.active = FALSE
    BY <1>2 DEF TypeOK, RunType
  <2>2. QED
    BY <2>1, ImageOver DEF ImageInv, RecordedIsTrue, In
<1>3. QED
  BY <1>1, <1>2

\* The steps between which nothing reaches the modules.
LEMMA ImageQuiet ==
    ASSUME TypeOK, GroupInv, ImageInv
    PROVE  /\ PickApply \/ PickGroup \/ PickWait \/ PickFinish \/ Park => ImageInv'
           /\ RepairRound \/ RepairSkip \/ FinalizeSkip \/ FinalizeDone => ImageInv'
           /\ ApplyPutOff => ImageInv'
<1>1. run \in RunType /\ grp \in GroupType
  BY DEF TypeOK
<1>2. PickApply => ImageInv'
  <2>1. ASSUME PickApply
        PROVE  /\ run.active /\ run'.active /\ run.ph # "confirm"
               /\ run'.ph = "apply" /\ run'.img = run.img
    BY <1>1, <2>1 DEF PickApply, At, RunType
  <2>2. QED
    BY <2>1, ImageFrame DEF PickApply, Silently, AfterMeta
<1>3. PickGroup => ImageInv'
  <2>1. ASSUME PickGroup
        PROVE  /\ run.active /\ run'.active /\ run.ph = "pick"
               /\ run'.ph = "probe" /\ run'.img = run.img
    BY <1>1, <2>1, GotoEffect DEF PickGroup, At, Phases
  <2>2. QED
    BY <2>1, ImageFrame DEF PickGroup, Silently, AfterMeta
<1>4. PickWait => ImageInv'
  <2>1. ASSUME PickWait
        PROVE  /\ run.active /\ run'.active /\ run.ph = "pick"
               /\ run'.ph = "waitApply" /\ run'.img = run.img
    BY <1>1, <2>1, GotoEffect DEF PickWait, At, Phases
  <2>2. QED
    BY <2>1, ImageFrame DEF PickWait, Silently, AfterMeta
<1>5. PickFinish => ImageInv'
  <2>1. ASSUME PickFinish PROVE ImageInv'
    <3>1. PICK r \in {"ok", "failed"} : Finish(r)
      BY <2>1 DEF PickFinish
    <3>2. run'.active = FALSE /\ run'.img = run.img /\ mods' = mods /\ dev' = dev
      BY <2>1, <3>1, FinishEffect DEF PickFinish, Results
    <3>3. QED
      BY <3>2, ImageOver DEF ImageInv, RecordedIsTrue, In
  <2>2. QED
    BY <2>1
<1>6. Park => ImageInv'
  BY ImageFrame DEF Park, Silently
<1>7. RepairRound => ImageInv'
  <2>1. ASSUME RepairRound
        PROVE  /\ run.active /\ run'.active /\ run.ph = "repair" /\ run'.img = run.img
    BY <1>1, <2>1, GotoEffect DEF RepairRound, At, Phases
  <2>2. QED
    BY <2>1, ImageFrame DEF RepairRound, Silently, AfterMeta
<1>8. RepairSkip \/ FinalizeSkip => ImageInv'
  <2>1. RepairSkip \/ FinalizeSkip => grp'.members = grp.members
    BY <1>1 DEF RepairSkip, FinalizeSkip, GroupType
  <2>2. QED
    BY <2>1, ImageFrame DEF RepairSkip, FinalizeSkip, Silently
<1>9. FinalizeDone => ImageInv'
  <2>1. FinalizeDone => /\ run.active /\ run'.active /\ run.ph = "finalizeCheck"
                        /\ run'.ph = "pick" /\ run'.img = run.img
    BY BackEffect DEF FinalizeDone, GroupDone, At
  <2>2. QED
    BY <2>1, ImageFrame DEF FinalizeDone, AfterMeta
<1>10. ApplyPutOff => ImageInv'
  <2>1. ASSUME ApplyPutOff
        PROVE  /\ run.active /\ run'.active /\ run.ph = "apply"
               /\ run'.ph = "pick" /\ run'.img = run.img
    BY <1>1, <2>1 DEF ApplyPutOff, At, RunType
  <2>2. QED
    BY <2>1, ImageFrame DEF ApplyPutOff, Silently, AfterMeta
<1>11. QED
  BY <1>2, <1>3, <1>4, <1>5, <1>6, <1>7, <1>8, <1>9, <1>10

\* PROBE records the version a module runs before it is touched.
LEMMA ImageProbe ==
    ASSUME TypeOK, GroupInv, ImageInv, NEW ok \in BOOLEAN, Probe(ok)
    PROVE  ImageInv'
<1>1. /\ run.active /\ run.ph = "probe" /\ applied \subseteq Ids
      /\ dev' = dev /\ applied' = applied
  BY ProbeEffect DEF TypeOK
<1>2. This \in Ids /\ mods[This].st = "pending"
  BY ProbeEffect
<1>3. /\ run'.active /\ run'.img = run.img /\ run'.ph \in {"probe", "meta", "pick"}
  BY ProbeEffect
<1>4. /\ mods'[This].st \in {"pending", "noReply"}
      /\ mods'[This].before \in {mods[This].before, dev[This].fw}
  BY ProbeEffect
<1>5. \A u \in Ids \ {This} : mods'[u] = mods[u]
  BY ProbeEffect
<1>6. Collected' /\ Told'
  BY <1>1, <1>3 DEF ImageInv, Collected, Told, AfterMeta
<1>7. OpenIsOurs'
  BY <1>1, <1>3, <1>4, <1>5 DEF ImageInv, OpenIsOurs, In
<1>8. StillBefore'
  <2>1. \A u \in Ids \ applied : mods[u].before # 0 => dev[u].fw = mods[u].before
    BY <1>1 DEF ImageInv, StillBefore
  <2>2. This \notin applied
    BY <1>1, <1>2 DEF ImageInv, NowRuns
  <2>3. QED
    BY <1>1, <1>2, <1>4, <1>5, <2>1, <2>2 DEF StillBefore
<1>9. NowRuns'
  <2>1. This \notin applied
    BY <1>1, <1>2 DEF ImageInv, NowRuns
  <2>2. \A u \in applied : /\ dev[u].fw = run.img
                           /\ mods[u].st \notin {"pending", "session", "complete", "verified"}
    BY <1>1 DEF ImageInv, NowRuns
  <2>3. QED
    BY <1>1, <1>3, <1>5, <2>1, <2>2 DEF NowRuns
<1>10. RecordedIsTrue'
  BY <1>1, <1>3, <1>4, <1>5 DEF ImageInv, RecordedIsTrue, In
<1>11. QED
  BY <1>6, <1>7, <1>8, <1>9, <1>10 DEF ImageInv

\* META reaches the whole group when nothing is lost: the hub is parked on it.
LEMMA ImageMeta ==
    ASSUME TypeOK, GroupInv, OneChannel, ImageInv, NEW H \in SUBSET Ids, Meta(H)
    PROVE  ImageInv'
<1>1. /\ run \in RunType /\ mods \in [Ids -> RowType] /\ grp \in GroupType
      /\ run.active /\ run.ph = "meta" /\ applied' = applied /\ mods' = mods
      /\ dev \in [Ids -> DevType] /\ grp.members \subseteq Ids /\ applied \subseteq Ids
  BY DEF TypeOK, Meta, At, GroupType
<1>2. /\ run'.active /\ run'.img = run.img /\ run'.ph = "enter"
      /\ grp'.members = grp.members
  BY <1>1, GotoEffect DEF Meta, Phases, GroupType
<1>3. \A u \in Ids : /\ dev'[u].state = dev[u].state /\ dev'[u].fw = dev[u].fw
                     /\ dev'[u].have = dev[u].have
                     /\ dev'[u].meta = IF u \in H THEN run.img ELSE dev[u].meta
  BY <1>1 DEF Meta, DevType, DevRecord
<1>4. Collected'
  BY <1>1, <1>2, <1>3 DEF ImageInv, Collected
<1>5. Told'
  <2>1. ASSUME ~Lossy PROVE grp.members \subseteq H
    <3>1. \A u \in grp.members : \/ Chan[u] = 0
                                 \/ Chan[u] = hub.ch /\ hub.settled
      BY DEF Meta, Parked, OneChannel
    <3>2. H = {u \in Ids : Chan[u] = 0 \/ (Chan[u] = hub.ch /\ hub.settled)}
      BY <2>1 DEF Meta, Broadcast
    <3>3. QED
      BY <1>1, <3>1, <3>2
  <2>2. QED
    BY <1>1, <1>2, <1>3, <2>1 DEF Told
<1>6. OpenIsOurs'
  BY <1>1, <1>2, <1>3 DEF ImageInv, OpenIsOurs, In
<1>7. StillBefore'
  BY <1>1, <1>3 DEF ImageInv, StillBefore
<1>8. NowRuns'
  BY <1>1, <1>2, <1>3 DEF ImageInv, NowRuns
<1>9. RecordedIsTrue'
  BY <1>1, <1>2, <1>3 DEF ImageInv, RecordedIsTrue, In
<1>10. QED
  BY <1>4, <1>5, <1>6, <1>7, <1>8, <1>9 DEF ImageInv

\* ENTER erases what the module had.
LEMMA ImageEnter ==
    ASSUME TypeOK, GroupInv, ImageInv, NEW heard \in BOOLEAN, Enter(heard)
    PROVE  ImageInv'
<1>1. /\ run \in RunType /\ mods \in [Ids -> RowType] /\ grp \in GroupType
      /\ run.active /\ run.ph = "enter" /\ applied' = applied /\ mods' = mods
      /\ dev \in [Ids -> DevType] /\ grp.todo # {} /\ grp.todo \subseteq grp.members
      /\ grp.members \subseteq Ids /\ applied \subseteq Ids
  BY DEF TypeOK, Enter, At, GroupType, GroupInv
<1>2. This \in Ids /\ mods[This].st = "pending"
  BY <1>1, ThisIsMember DEF GroupInv, In
<1>3. /\ run'.active /\ run'.img = run.img /\ run'.ph \in {"enter", "enterCheck"}
      /\ grp'.members = grp.members
  <2>1. /\ run' = run \/ Goto("enterCheck")
        /\ \/ grp' = [grp EXCEPT !.todo = NextMember]
           \/ grp' = [grp EXCEPT !.todo = grp.members]
    BY DEF Enter
  <2>2. QED
    BY <1>1, <2>1, GotoEffect DEF Phases, GroupType
<1>4. \A u \in Ids : /\ dev'[u].fw = dev[u].fw /\ dev'[u].meta = dev[u].meta
                     /\ \/ dev'[u] = dev[u]
                        \/ /\ u = This /\ dev'[u].state = "receiving"
                           /\ \A c \in Chunks : dev'[u].have[c] = 0
  BY <1>1, <1>2, NoChunksType DEF Enter, DevType, DevRecord
<1>5. Collected' /\ Told'
  BY <1>1, <1>3, <1>4 DEF ImageInv, Collected, Told, AfterMeta
<1>6. OpenIsOurs'
  BY <1>1, <1>2, <1>3, <1>4 DEF ImageInv, OpenIsOurs, In
<1>7. StillBefore'
  BY <1>1, <1>4 DEF ImageInv, StillBefore
<1>8. NowRuns'
  BY <1>1, <1>3, <1>4 DEF ImageInv, NowRuns
<1>9. RecordedIsTrue'
  BY <1>1, <1>2, <1>3, <1>4 DEF ImageInv, RecordedIsTrue, In
<1>10. QED
  BY <1>5, <1>6, <1>7, <1>8, <1>9 DEF ImageInv

\* ENTER_CHECK takes a module that is RECEIVING for one in session.
LEMMA ImageEnterCheck ==
    ASSUME TypeOK, GroupInv, ImageInv, NEW ok \in BOOLEAN, EnterCheck(ok)
    PROVE  ImageInv'
<1>1. /\ run.active /\ run.ph = "enterCheck" /\ applied' = applied /\ dev' = dev
      /\ grp.members \subseteq Ids /\ applied \subseteq Ids
  BY EnterCheckEffect DEF TypeOK, GroupType
<1>2. This \in Ids /\ mods[This].st = "pending" /\ This \notin applied
  BY <1>1, EnterCheckEffect DEF ImageInv, NowRuns
<1>3. /\ run'.active /\ run'.img = run.img
      /\ \/ run'.ph = "pick"
         \/ run'.ph \in {"enterCheck", "stream"} /\ grp'.members \subseteq grp.members
  BY EnterCheckEffect
<1>4. /\ mods'[This].st \in {"session", "pending", "gaveUp"}
      /\ mods'[This].st = "session" => dev[This].state = "receiving"
      /\ mods'[This].before = mods[This].before
  BY EnterCheckEffect
<1>5. \A u \in Ids \ {This} : mods'[u] = mods[u]
  BY EnterCheckEffect
<1>6. Collected' /\ Told'
  BY <1>1, <1>3 DEF ImageInv, Collected, Told, AfterMeta
<1>7. OpenIsOurs'
  BY <1>1, <1>3, <1>4, <1>5 DEF ImageInv, OpenIsOurs, In
<1>8. StillBefore'
  BY <1>1, <1>2, <1>4, <1>5 DEF ImageInv, StillBefore
<1>9. NowRuns'
  <2>1. \A u \in applied : /\ dev[u].fw = run.img
                           /\ mods[u].st \notin {"pending", "session", "complete", "verified"}
    BY <1>1 DEF ImageInv, NowRuns
  <2>2. QED
    BY <1>1, <1>2, <1>3, <1>5, <2>1 DEF NowRuns
<1>10. RecordedIsTrue'
  BY <1>1, <1>3, <1>4, <1>5 DEF ImageInv, RecordedIsTrue, In
<1>11. QED
  BY <1>6, <1>7, <1>8, <1>9, <1>10 DEF ImageInv

\* STREAM, REPAIR and the reads of the finalize check.
LEMMA ImageSession ==
    ASSUME TypeOK, GroupInv, ImageInv
    PROVE  /\ \A H \in SUBSET Ids : Stream(H) \/ RepairSend(H) => ImageInv'
           /\ \A H \in SUBSET Ids, stateOk, mapOk \in BOOLEAN :
                  RepairRead(H, stateOk, mapOk) => ImageInv'
           /\ \A ok \in BOOLEAN : FinalizeRead(ok) => ImageInv'
<1>1. /\ run \in RunType /\ grp \in GroupType /\ dev \in [Ids -> DevType]
      /\ run.img \in Images \cup {0} /\ 0 \in Chunks /\ grp.idx \in Chunks
      /\ grp.members \subseteq Ids /\ applied \subseteq Ids
  BY Constants DEF TypeOK, RunType, GroupType
<1>2. \A H : \A c \in Chunks : dev' = Taking(dev, H, c) => \A u \in Ids : Received(u)
  BY <1>1, TakingEffect DEF Received
<1>3. dev' = dev => \A u \in Ids : Received(u)
  BY DEF Received
<1>4. mods' = mods => \A u \in Ids : Judged(u)
  BY DEF Judged
<1>5. ASSUME NEW H \in SUBSET Ids, Stream(H) PROVE ImageInv'
  <2>1. /\ run.active /\ run.ph = "stream" /\ applied' = applied /\ mods' = mods
        /\ dev' = Taking(dev, H, grp.idx)
    BY <1>5 DEF Stream, At
  <2>2. /\ run' = run \/ Goto("repair")
        /\ \/ grp' = [grp EXCEPT !.idx = grp.idx + 1]
           \/ grp' = [grp EXCEPT !.idx = 0, !.round = 1, !.todo = grp.members,
                                 !.sub = 0, !.missing = {}]
    BY <1>5 DEF Stream
  <2>3. run'.active /\ run'.img = run.img /\ grp'.members = grp.members
    BY <1>1, <2>1, <2>2, GotoEffect DEF Phases, GroupType
  <2>4. \A u \in Ids : Received(u) /\ Judged(u)
    BY <1>1, <1>2, <1>4, <2>1
  <2>5. QED
    BY <1>1, <2>1, <2>3, <2>4, ImageKept DEF AfterMeta
<1>6. ASSUME NEW H \in SUBSET Ids, RepairSend(H) PROVE ImageInv'
  <2>1. /\ run.active /\ run.ph = "repairSend" /\ applied' = applied /\ mods' = mods
        /\ dev' = Taking(dev, H, Min(grp.missing))
    BY <1>6 DEF RepairSend, At
  <2>2. Min(grp.missing) \in Chunks
    <3>1. grp.missing \subseteq Nat /\ grp.missing # {} /\ grp.missing \subseteq Chunks
      BY <1>1, <2>1, Constants DEF GroupInv, GroupType
    <3>2. QED
      BY <3>1, MinIsMember
  <2>3. PICK rest : rest = grp.missing \ {Min(grp.missing)}
    OBVIOUS
  <2>4. /\ run' = run \/ Goto("repair")
        /\ \/ grp' = [grp EXCEPT !.missing = rest]
           \/ grp' = [grp EXCEPT !.missing = {}, !.round = grp.round + 1,
                                 !.todo = grp.members]
    BY <1>6, <2>3 DEF RepairSend
  <2>5. run'.active /\ run'.img = run.img /\ grp'.members = grp.members
    BY <1>1, <2>1, <2>4, GotoEffect DEF Phases, GroupType
  <2>6. \A u \in Ids : Received(u) /\ Judged(u)
    BY <1>2, <1>4, <2>1, <2>2
  <2>7. QED
    BY <1>1, <2>1, <2>5, <2>6, ImageKept DEF AfterMeta
<1>7. ASSUME NEW H \in SUBSET Ids, NEW stateOk \in BOOLEAN, NEW mapOk \in BOOLEAN,
             RepairRead(H, stateOk, mapOk)
      PROVE  ImageInv'
  <2>1. /\ run.active /\ run.ph = "repair" /\ run' = run /\ applied' = applied
        /\ dev' = Taking(dev, H, 0)
    BY <1>7 DEF RepairRead, At
  <2>2. \A u \in Ids : Judged(u)
    BY <1>7, RepairEffect DEF Judged
  <2>3. \A u \in Ids : Received(u)
    BY <1>1, <1>2, <2>1
  <2>4. grp'.members = grp.members
    BY <1>7, RepairEffect
  <2>5. QED
    BY <1>1, <2>1, <2>2, <2>3, <2>4, ImageKept
<1>8. ASSUME NEW ok \in BOOLEAN, FinalizeRead(ok) PROVE ImageInv'
  <2>1. /\ run.active /\ run.ph = "finalizeCheck" /\ run' = run /\ applied' = applied
        /\ dev' = dev
    BY <1>8 DEF FinalizeRead, At
  <2>2. \A u \in Ids : Judged(u)
    BY <1>8, FinalizeEffect DEF Judged
  <2>3. grp'.members = grp.members
    BY <1>8, FinalizeEffect
  <2>4. QED
    BY <1>1, <1>3, <2>1, <2>2, <2>3, ImageKept
<1>9. QED
  BY <1>5, <1>6, <1>7, <1>8

\* FINALIZE: whoever verifies has nothing but chunks of the run's image, or
\* the metadata of the run.
LEMMA ImageFinalize ==
    ASSUME TypeOK, GroupInv, ImageInv, NoLeftovers,
           NEW K \in SUBSET Ids, NEW H \in SUBSET Ids, Finalize(K, H)
    PROVE  ImageInv'
<1>. DEFINE d == Taking(dev, K, 0)
<1>1. /\ run \in RunType /\ grp \in GroupType /\ dev \in [Ids -> DevType]
      /\ run.active /\ run.ph = "finalize" /\ applied' = applied /\ mods' = mods
      /\ dev' = Checked(d, H) /\ 0 \in Chunks /\ run.img \in Images \cup {0}
      /\ grp.members \subseteq Ids /\ applied \subseteq Ids
  BY Constants DEF TypeOK, Finalize, At, RunType, GroupType
<1>2. /\ run'.active /\ run'.img = run.img /\ run'.ph = "finalizeCheck"
      /\ grp'.members = grp.members
  BY <1>1, GotoEffect DEF Finalize, Phases, GroupType
<1>3. /\ d \in [Ids -> DevType]
      /\ \A u \in Ids :
           /\ d[u].state = dev[u].state /\ d[u].meta = dev[u].meta /\ d[u].fw = dev[u].fw
           /\ \A k \in Chunks : d[u].have[k] \in {dev[u].have[k], run.img}
  BY <1>1, TakingEffect
<1>4. \A u \in Ids :
        /\ dev'[u].meta = dev[u].meta /\ dev'[u].fw = dev[u].fw
        /\ \/ dev'[u] = d[u]
           \/ dev[u].state = "receiving" /\ dev'[u].state = "error"
           \/ /\ dev[u].state = "receiving" /\ dev'[u].state = "verified"
              /\ d[u].have[0] = dev[u].meta /\ d[u].have[0] # 0
  BY <1>1, <1>3, CheckedEffect
<1>5. Collected'
  BY <1>1, <1>2, <1>3, <1>4 DEF ImageInv, Collected
<1>6. Told'
  BY <1>1, <1>2, <1>4 DEF ImageInv, Told, AfterMeta
<1>7. OpenIsOurs'
  <2>1. ASSUME NEW u \in Ids, mods[u].st \in {"session", "complete"},
               dev'[u].state = "verified"
        PROVE  dev[u].meta = run.img
    <3>1. CASE dev'[u] = d[u]
      BY <1>1, <1>3, <2>1, <3>1 DEF ImageInv, OpenIsOurs, In
    <3>2. CASE /\ dev[u].state = "receiving"
               /\ d[u].have[0] = dev[u].meta /\ d[u].have[0] # 0
      <4>1. CASE ~Leftover
        <5>1. dev[u].have[0] \in {0, run.img}
          BY <1>1, <3>2, <4>1 DEF ImageInv, Collected
        <5>2. QED
          BY <1>1, <1>3, <3>2, <5>1
      <4>2. CASE ~Lossy
        <5>1. u \in grp.members
          BY <1>1, <2>1 DEF GroupInv, In, Outside
        <5>2. QED
          BY <1>1, <4>2, <5>1 DEF ImageInv, Told, AfterMeta
      <4>3. QED
        BY <4>1, <4>2 DEF NoLeftovers
    <3>3. QED
      BY <1>4, <2>1, <3>1, <3>2
  <2>2. QED
    BY <1>1, <1>2, <1>4, <2>1 DEF OpenIsOurs, In
<1>8. StillBefore'
  BY <1>1, <1>4 DEF ImageInv, StillBefore
<1>9. NowRuns'
  <2>1. \A u \in applied : /\ dev[u].fw = run.img
                           /\ mods[u].st \notin {"pending", "session", "complete", "verified"}
    BY <1>1 DEF ImageInv, NowRuns
  <2>2. QED
    BY <1>1, <1>2, <1>4, <2>1 DEF NowRuns
<1>10. RecordedIsTrue'
  <2>1. \A u \in Ids : mods[u].st = "verified" /\ u \notin applied =>
            dev[u].state = "verified" /\ dev[u].meta = run.img
    BY <1>1 DEF ImageInv, RecordedIsTrue, In
  <2>2. \A u \in Ids : dev[u].state = "verified" => dev'[u].state = "verified"
    BY <1>3, <1>4
  <2>3. \A u \in Ids : mods[u].st = "updated" => dev[u].fw = run.img
    BY <1>1 DEF ImageInv, RecordedIsTrue, In
  <2>4. QED
    BY <1>1, <1>2, <1>4, <2>1, <2>2, <2>3 DEF RecordedIsTrue, In
<1>11. QED
  BY <1>5, <1>6, <1>7, <1>8, <1>9, <1>10 DEF ImageInv

\* APPLY boots the image of the run.
LEMMA ImageApply ==
    ASSUME TypeOK, GroupInv, ImageInv, NEW heard \in BOOLEAN, ApplySend(heard)
    PROVE  ImageInv'
<1>. DEFINE t == run.target
            boots == heard /\ dev[t].state = "verified"
<1>1. /\ run \in RunType /\ dev \in [Ids -> DevType] /\ applied \subseteq Ids
      /\ run.active /\ run.ph = "apply" /\ mods' = mods
      /\ t \in Ids /\ mods[t].st = "verified"
      /\ run' = [run EXCEPT !.ph = "confirm", !.tries = 0]
  BY DEF TypeOK, ApplySend, At, GroupInv, In
<1>2. /\ run'.active /\ run'.img = run.img /\ run'.ph = "confirm" /\ run'.target = t
  BY <1>1 DEF RunType
<1>3. t \notin applied
  BY <1>1 DEF ImageInv, NowRuns
<1>4. dev[t].state = "verified" /\ dev[t].meta = run.img
  BY <1>1, <1>3 DEF ImageInv, RecordedIsTrue, In
<1>5. \A u \in applied : /\ dev[u].fw = run.img
                         /\ mods[u].st \notin {"pending", "session", "complete", "verified"}
  BY <1>1 DEF ImageInv, NowRuns
<1>6. \/ dev' = dev /\ applied' = applied
      \/ /\ applied' = applied \cup {t}
         /\ \A u \in Ids \ {t} : dev'[u] = dev[u]
         /\ dev'[t].state = "idle" /\ dev'[t].fw = run.img
  <2>1. CASE boots
    <3>1. applied' = applied \cup {t} /\ dev' = [dev EXCEPT ![t] = Booted(dev[t])]
      BY <2>1 DEF ApplySend
    <3>2. Booted(dev[t]).state = "idle" /\ Booted(dev[t]).fw = run.img
      BY <1>1, <1>4, ClearedEffect
    <3>3. QED
      BY <1>1, <3>1, <3>2
  <2>2. CASE ~boots
    BY <2>2 DEF ApplySend
  <2>3. QED
    BY <2>1, <2>2
<1>7. Collected' /\ Told'
  BY <1>1, <1>2, <1>6 DEF ImageInv, Collected, Told, AfterMeta
<1>8. OpenIsOurs'
  BY <1>1, <1>2, <1>6 DEF ImageInv, OpenIsOurs, In
<1>9. StillBefore'
  BY <1>1, <1>6 DEF ImageInv, StillBefore
<1>10. NowRuns'
  BY <1>1, <1>2, <1>5, <1>6 DEF NowRuns
<1>11. RecordedIsTrue'
  BY <1>1, <1>2, <1>6 DEF ImageInv, RecordedIsTrue, In
<1>12. QED
  BY <1>7, <1>8, <1>9, <1>10, <1>11 DEF ImageInv

\* A version that changed since the probe is the image: "updated" is true.
LEMMA ImageConfirm ==
    ASSUME TypeOK, GroupInv, ProbedInv, ImageInv, NEW ok \in BOOLEAN, Confirm(ok)
    PROVE  ImageInv'
<1>. DEFINE t == run.target
<1>1. /\ run \in RunType /\ applied \subseteq Ids
      /\ t \in Ids /\ mods[t].st = "verified" /\ run.active /\ run.ph = "confirm"
      /\ grp' = grp /\ dev' = dev /\ applied' = applied
      /\ \A u \in Ids \ {t} : mods'[u] = mods[u]
      /\ mods'[t].before = mods[t].before
  BY ConfirmEffect DEF TypeOK
<1>2. CASE mods' = mods /\ run' = [run EXCEPT !.tries = run.tries + 1]
  <2>1. /\ run'.active = run.active /\ run'.img = run.img /\ run'.ph = run.ph
        /\ run'.target = run.target
    BY <1>1, <1>2 DEF RunType
  <2>2. QED
    BY <1>1, <1>2, <2>1, ImageFrame DEF AfterMeta
<1>3. CASE /\ BackToPick
           /\ mods'[t].st \in {"updated", "same", "failed"}
           /\ mods'[t].st = "updated" => dev[t].fw # mods[t].before
  <2>1. run'.active /\ run'.img = run.img /\ run'.ph = "pick"
    BY <1>1, <1>3, BackEffect
  <2>2. mods'[t].st = "updated" => dev[t].fw = run.img
    <3>1. mods[t].before # 0
      BY <1>1 DEF ProbedInv, In
    <3>2. t \notin applied => dev[t].fw = mods[t].before
      BY <1>1, <3>1 DEF ImageInv, StillBefore
    <3>3. t \in applied => dev[t].fw = run.img
      BY <1>1 DEF ImageInv, NowRuns
    <3>4. QED
      BY <1>3, <3>2, <3>3
  <2>3. Collected' /\ Told'
    BY <1>1, <2>1 DEF ImageInv, Collected, Told, AfterMeta
  <2>4. OpenIsOurs'
    BY <1>1, <1>3, <2>1 DEF ImageInv, OpenIsOurs, In
  <2>5. StillBefore'
    BY <1>1 DEF ImageInv, StillBefore
  <2>6. NowRuns'
    BY <1>1, <1>3, <2>1 DEF ImageInv, NowRuns
  <2>7. RecordedIsTrue'
    BY <1>1, <1>3, <2>1, <2>2 DEF ImageInv, RecordedIsTrue, In
  <2>8. QED
    BY <2>3, <2>4, <2>5, <2>6, <2>7 DEF ImageInv
<1>4. QED
  BY <1>2, <1>3, ConfirmEffect

\* A session that expires is no session any more.
LEMMA ImageExpire ==
    ASSUME TypeOK, ImageInv, NEW v \in Ids, Expire(v)
    PROVE  ImageInv'
<1>1. /\ run' = run /\ mods' = mods /\ grp' = grp /\ applied' = applied
      /\ dev[v].state = "receiving" /\ dev \in [Ids -> DevType]
      /\ grp.members \subseteq Ids
  BY DEF Expire, TypeOK, GroupType
<1>2. \A u \in Ids : /\ dev'[u].fw = dev[u].fw /\ dev'[u].meta = dev[u].meta
                     /\ \/ dev'[u] = dev[u]
                        \/ /\ dev[u].state = "receiving"
                           /\ dev'[u].state = "timedOut"
  BY <1>1 DEF Expire, DevType, DevRecord
<1>3. Collected => Collected'
  BY <1>1, <1>2 DEF Collected
<1>4. Told => Told'
  BY <1>1, <1>2 DEF Told
<1>5. OpenIsOurs => OpenIsOurs'
  BY <1>1, <1>2 DEF OpenIsOurs, In
<1>6. StillBefore => StillBefore'
  BY <1>1, <1>2 DEF StillBefore
<1>7. applied \subseteq Ids /\ (NowRuns => NowRuns')
  BY <1>1, <1>2 DEF NowRuns, TypeOK
<1>8. RecordedIsTrue'
  BY <1>1, <1>2 DEF ImageInv, RecordedIsTrue, In
<1>9. QED
  BY <1>1, <1>3, <1>4, <1>5, <1>6, <1>7, <1>8 DEF ImageInv

\* The console and the rest of the gateway.
LEMMA ImageOthers ==
    ASSUME TypeOK, GroupInv, ImageInv
    PROVE  /\ \A img \in Images : Start(img) => ImageInv'
           /\ \A H \in SUBSET Ids : Abort(H) => ImageInv'
           /\ \A u \in Ids : Foreign(u) \/ Release(u) \/ Expire(u) => ImageInv'
           /\ RequestAbort \/ Lull \/ Settle => ImageInv'
           /\ \A torn, cycled \in BOOLEAN : Reset(torn, cycled) => ImageInv'
           /\ UNCHANGED vars => ImageInv'
<1>1. ASSUME NEW img \in Images, Start(img) PROVE ImageInv'
  <2>1. /\ run' = [NoRun EXCEPT !.active = TRUE, !.seq = NextSeq, !.img = img,
                                !.result = "running"]
        /\ mods' = Fresh /\ dev' = dev /\ applied' = {}
        /\ Leftover \/ \A u \in Ids : dev[u].state # "receiving"
    BY <1>1 DEF Start, Rows
  <2>2. run'.ph = "pick"
    BY <2>1 DEF NoRun
  <2>3. Collected' /\ Told' /\ OpenIsOurs' /\ StillBefore' /\ NowRuns'
    BY <2>1, <2>2, StartTypes
       DEF Collected, Told, OpenIsOurs, StillBefore, NowRuns, In, AfterMeta
  <2>4. RecordedIsTrue'
    BY <2>1, StartTypes DEF RecordedIsTrue, In
  <2>5. QED
    BY <2>3, <2>4 DEF ImageInv
<1>2. ASSUME NEW H \in SUBSET Ids, Abort(H) PROVE ImageInv'
  <2>1. run'.active = FALSE /\ run'.img = run.img
    BY <1>2, AbortEffect, FinishEffect DEF Results
  <2>2. dev \in [Ids -> DevType] /\ mods \in [Ids -> RowType]
    BY DEF TypeOK
  <2>3. \A u \in Ids : dev'[u].fw = dev[u].fw
    BY <1>2, <2>2, AbortEffect, ClearedEffect
  <2>4. \A u \in Ids : mods'[u].st = "pending" \/ mods'[u] = mods[u]
    BY <1>2, <2>2, AbortEffect DEF RowType
  <2>5. \A u \in Ids : mods[u].st = "updated" => dev[u].fw = run.img
    BY DEF ImageInv, RecordedIsTrue, In
  <2>6. QED
    BY <2>1, <2>3, <2>4, <2>5, ImageOver
<1>3. ASSUME NEW torn \in BOOLEAN, NEW cycled \in BOOLEAN, Reset(torn, cycled)
      PROVE  ImageInv'
  <2>1. run'.active = FALSE /\ mods' = Fresh
    BY <1>3 DEF Reset, NoRun
  <2>2. QED
    BY <2>1, ImageOver, StartTypes
<1>4. ASSUME RequestAbort PROVE ImageInv'
  <2>1. /\ run'.active = run.active /\ run'.ph = run.ph /\ run'.img = run.img
        /\ run'.target = run.target
    BY <1>4 DEF RequestAbort, TypeOK, RunType
  <2>2. QED
    BY <1>4, <2>1, ImageFrame DEF RequestAbort
<1>5. ASSUME run' = run, mods' = mods, grp' = grp, dev' = dev, applied' = applied
      PROVE  ImageInv'
  BY <1>5, ImageFrame
<1>6. QED
  BY <1>1, <1>2, <1>3, <1>4, <1>5, ImageExpire
     DEF Foreign, Release, Lull, Settle, vars

\* Every step keeps what is known of the images.
LEMMA ImageStep ==
    ASSUME NoLeftovers, FlowInv, OneChannel, ImageInv, [Next]_vars
    PROVE  ImageInv'
<1>1. TypeOK /\ GroupInv /\ ProbedInv
  BY DEF FlowInv
<1>2. CASE Step
  BY <1>1, <1>2, ImageQuiet, ImageProbe, ImageMeta, ImageEnter, ImageEnterCheck,
     ImageSession, ImageFinalize, ImageApply, ImageConfirm, ImageOthers DEF Step
<1>3. CASE ~Step
  BY <1>1, <1>3, ImageOthers DEF Next
<1>4. QED
  BY <1>2, <1>3

\* Unless a frame can be lost AND a session can outlive its run, a module
\* recorded as verified holds the image of this run and one recorded as updated
\* runs it (M_VERIFIED and M_UPDATED, ota_runner.cpp), whatever was aborted,
\* expired or reset before.
THEOREM RecordsAreTrue ==
    ASSUME NoLeftovers
    PROVE  Spec => []RecordedIsTrue
<1>1. Init => OneChannel /\ ImageInv
  BY StartTypes DEF Init, OneChannel, ImageInv, RecordedIsTrue, In, NoRun, NoGroup
<1>2. FlowInv /\ OneChannel /\ ImageInv /\ [Next]_vars => OneChannel' /\ ImageInv'
  BY ChannelStep, ImageStep DEF FlowInv
<1>3. ImageInv => RecordedIsTrue
  BY DEF ImageInv
<1>4. QED
  BY <1>1, <1>2, <1>3, FlowAlways, PTL DEF Spec

(***************************************************************************)
(* The run keeps what an update run promises: every step of OtaRunner is a *)
(* step of OtaPromise, or leaves its variables alone.                      *)
(***************************************************************************)

\* A step the promise may take
Kept == [Promise!Next]_(Promise!promise)

OutcomeNow == [u \in Ids |-> OutcomeOf(mods[u].st)]

LEMMA Outcomes ==
    /\ \A st \in {"pending", "session", "complete"} : OutcomeOf(st) = "todo"
    /\ OutcomeOf("verified") = "staged"
    /\ \A st \in {"updated", "same"} : OutcomeOf(st) = "done"
    /\ \A st \in {"noReply", "failed", "gaveUp"} : OutcomeOf(st) = "lost"
BY DEF OutcomeOf

\* Steps that decide nothing.
LEMMA KeptStutter ==
    ASSUME run'.active = run.active, run'.result = run.result,
           \A u \in Ids : OutcomeOf(mods'[u].st) = OutcomeOf(mods[u].st)
    PROVE  Kept
<1>1. StateOf' = StateOf
  BY DEF StateOf
<1>2. OutcomeNow' = OutcomeNow
  BY DEF OutcomeNow
<1>3. QED
  BY <1>1, <1>2 DEF Kept, Promise!promise, OutcomeNow

\* A step that decides about one module, or about none.
LEMMA KeptRow ==
    ASSUME run.active, run'.active, run'.result = run.result, NEW u \in Ids,
           \A v \in Ids \ {u} : mods'[v] = mods[v],
           \/ OutcomeOf(mods'[u].st) = OutcomeOf(mods[u].st)
           \/ <<OutcomeOf(mods[u].st), OutcomeOf(mods'[u].st)>> \in
                {<<"todo", "staged">>, <<"todo", "lost">>,
                 <<"staged", "done">>, <<"staged", "lost">>}
    PROVE  Kept
<1>1. CASE OutcomeOf(mods'[u].st) = OutcomeOf(mods[u].st)
  <2>1. \A v \in Ids : OutcomeOf(mods'[v].st) = OutcomeOf(mods[v].st)
    BY <1>1
  <2>2. StateOf' = StateOf
    BY DEF StateOf
  <2>3. OutcomeNow' = OutcomeNow
    BY <2>1 DEF OutcomeNow
  <2>4. QED
    BY <2>2, <2>3 DEF Kept, Promise!promise, OutcomeNow
<1>2. CASE <<OutcomeOf(mods[u].st), OutcomeOf(mods'[u].st)>> \in
                {<<"todo", "staged">>, <<"todo", "lost">>,
                 <<"staged", "done">>, <<"staged", "lost">>}
  <2>1. PICK o \in {"staged", "lost", "done"} : o = OutcomeOf(mods'[u].st)
    BY <1>2
  <2>2. OutcomeNow' = [OutcomeNow EXCEPT ![u] = o]
    BY <2>1 DEF OutcomeNow
  <2>3. StateOf = "running" /\ StateOf' = StateOf
    BY DEF StateOf
  <2>4. <<OutcomeNow[u], o>> \in {<<"todo", "staged">>, <<"todo", "lost">>,
                                  <<"staged", "done">>, <<"staged", "lost">>}
    BY <1>2, <2>1 DEF OutcomeNow
  <2>5. Promise!Decide(u, o)
    BY <2>2, <2>3, <2>4 DEF Promise!Decide, OutcomeNow
  <2>6. o \in Promise!Outcomes
    BY DEF Promise!Outcomes
  <2>7. QED
    BY <2>5, <2>6 DEF Kept, Promise!Next
<1>3. QED
  BY <1>1, <1>2

\* Steps of the runner in which no row changes.
LEMMA KeptQuiet ==
    ASSUME TypeOK
    PROVE  /\ PickApply \/ PickGroup \/ PickWait \/ Park => Kept
           /\ RepairRound \/ RepairSkip \/ FinalizeSkip \/ FinalizeDone => Kept
           /\ ApplyPutOff => Kept
           /\ \A H \in SUBSET Ids : Meta(H) \/ Stream(H) \/ RepairSend(H) => Kept
           /\ \A K, H \in SUBSET Ids : Finalize(K, H) => Kept
           /\ \A ok \in BOOLEAN : Enter(ok) \/ ApplySend(ok) => Kept
<1>. DEFINE Same == /\ run'.active = run.active /\ run'.result = run.result
                    /\ mods' = mods
<1>1. run \in RunType
  BY DEF TypeOK
<1>2. Same => Kept
  BY KeptStutter
<1>3. \A ph \in Phases : Goto(ph) /\ mods' = mods => Same
  BY <1>1, GotoEffect
<1>4. GroupDone /\ mods' = mods => Same
  BY BackEffect DEF GroupDone
<1>5. PickApply \/ ApplyPutOff \/ Park => Same
  BY <1>1 DEF PickApply, ApplyPutOff, Park, RunType
<1>6. PickGroup \/ PickWait \/ RepairRound => Same
  BY <1>3 DEF PickGroup, PickWait, RepairRound, Phases
<1>7. RepairSkip \/ FinalizeSkip \/ FinalizeDone => Same
  BY <1>4 DEF RepairSkip, FinalizeSkip, FinalizeDone
<1>8. \A H \in SUBSET Ids : Meta(H) \/ Stream(H) \/ RepairSend(H) => Same
  BY <1>3 DEF Meta, Stream, RepairSend, Phases
<1>9. \A K, H \in SUBSET Ids : Finalize(K, H) => Same
  BY <1>3 DEF Finalize, Phases
<1>10. \A ok \in BOOLEAN : Enter(ok) \/ ApplySend(ok) => Same
  BY <1>1, <1>3 DEF Enter, ApplySend, Phases, RunType
<1>11. QED
  BY <1>2, <1>5, <1>6, <1>7, <1>8, <1>9, <1>10

\* Steps of the runner that look at one module.
LEMMA KeptReads ==
    ASSUME TypeOK, GroupInv
    PROVE  /\ \A ok \in BOOLEAN :
                  Probe(ok) \/ EnterCheck(ok) \/ FinalizeRead(ok) \/ Confirm(ok) => Kept
           /\ \A H \in SUBSET Ids, stateOk, mapOk \in BOOLEAN :
                  RepairRead(H, stateOk, mapOk) => Kept
<1>1. run \in RunType
  BY DEF TypeOK
<1>2. ASSUME NEW ok \in BOOLEAN, Probe(ok) PROVE Kept
  <2>1. /\ OutcomeOf(mods[This].st) = "todo"
        /\ OutcomeOf(mods'[This].st) \in {"todo", "lost"}
    BY <1>2, ProbeEffect, Outcomes
  <2>2. QED
    BY <1>2, <2>1, ProbeEffect, KeptRow
<1>3. ASSUME NEW ok \in BOOLEAN, EnterCheck(ok) PROVE Kept
  <2>1. /\ OutcomeOf(mods[This].st) = "todo"
        /\ OutcomeOf(mods'[This].st) \in {"todo", "lost"}
    BY <1>3, EnterCheckEffect, Outcomes
  <2>2. QED
    BY <1>3, <2>1, EnterCheckEffect, KeptRow
<1>4. ASSUME NEW H \in SUBSET Ids, NEW stateOk \in BOOLEAN, NEW mapOk \in BOOLEAN,
             RepairRead(H, stateOk, mapOk)
      PROVE  Kept
  <2>1. /\ OutcomeOf(mods[This].st) = "todo"
        /\ OutcomeOf(mods'[This].st) \in {"todo", "lost"}
    BY <1>4, RepairEffect, Outcomes
  <2>2. run' = run /\ run.active
    BY <1>4 DEF RepairRead, At
  <2>3. QED
    BY <1>4, <2>1, <2>2, RepairEffect, KeptRow
<1>5. ASSUME NEW ok \in BOOLEAN, FinalizeRead(ok) PROVE Kept
  <2>1. run' = run /\ run.active
    BY <1>5 DEF FinalizeRead, At
  <2>2. CASE mods' = mods
    BY <2>1, <2>2, KeptStutter
  <2>3. CASE mods'[This].st \in {"verified", "failed", "pending", "gaveUp"}
    <3>1. /\ OutcomeOf(mods[This].st) = "todo"
          /\ OutcomeOf(mods'[This].st) \in {"todo", "staged", "lost"}
      BY <1>5, <2>3, FinalizeEffect, Outcomes
    <3>2. QED
      BY <1>5, <2>1, <3>1, FinalizeEffect, KeptRow
  <2>4. QED
    BY <1>5, <2>2, <2>3, FinalizeEffect
<1>6. ASSUME NEW ok \in BOOLEAN, Confirm(ok) PROVE Kept
  <2>1. CASE mods' = mods /\ run' = [run EXCEPT !.tries = run.tries + 1]
    <3>1. run'.active = run.active /\ run'.result = run.result
      BY <1>1, <2>1 DEF RunType
    <3>2. QED
      BY <2>1, <3>1, KeptStutter
  <2>2. CASE BackToPick /\ mods'[run.target].st \in {"updated", "same", "failed"}
    <3>1. run'.active = run.active /\ run'.result = run.result
      BY <2>2, BackEffect
    <3>2. /\ OutcomeOf(mods[run.target].st) = "staged"
          /\ OutcomeOf(mods'[run.target].st) \in {"done", "lost"}
      BY <1>6, <2>2, ConfirmEffect, Outcomes
    <3>3. QED
      BY <1>6, <3>1, <3>2, ConfirmEffect, KeptRow
  <2>3. QED
    BY <1>6, <2>1, <2>2, ConfirmEffect
<1>7. QED
  BY <1>2, <1>3, <1>4, <1>5, <1>6

\* PICK ends the run when every module is done or lost, "ok" if none is lost.
LEMMA KeptFinish ==
    ASSUME TypeOK, GroupInv, PickFinish
    PROVE  Kept
<1>1. /\ run.active /\ run.ph = "pick" /\ mods' = mods /\ mods \in [Ids -> RowType]
      /\ In({"pending", "verified"}) = {}
      /\ Finish(IF AllWell THEN "ok" ELSE "failed")
  BY DEF PickFinish, At, TypeOK
<1>2. /\ run'.active = FALSE
      /\ run'.result = IF AllWell THEN "ok" ELSE "failed"
  BY <1>1, FinishEffect DEF Results
<1>3. \A u \in Ids : mods[u].st \in {"noReply", "updated", "same", "failed", "gaveUp"}
  <2>1. \A u \in Ids : mods[u].st \in ModStates
    BY <1>1 DEF RowType
  <2>2. \A u \in Ids : mods[u].st \notin {"pending", "verified", "session", "complete"}
    BY <1>1 DEF GroupInv, In, Outside
  <2>3. QED
    BY <2>1, <2>2 DEF ModStates
<1>4. \A u \in Ids : /\ OutcomeNow[u] \in {"done", "lost"}
                     /\ (OutcomeNow[u] = "lost") <=> (mods[u].st \in {"noReply", "failed", "gaveUp"})
  BY <1>3, Outcomes DEF OutcomeNow
<1>5. AllWell <=> ~(\E u \in Ids : OutcomeNow[u] = "lost")
  BY <1>3, <1>4 DEF AllWell, In
<1>6. StateOf = "running" /\ OutcomeNow' = OutcomeNow
  BY <1>1 DEF StateOf, OutcomeNow
<1>7. StateOf' = IF \E u \in Ids : OutcomeNow[u] = "lost" THEN "failed" ELSE "ok"
  BY <1>2, <1>5 DEF StateOf
<1>8. Promise!End
  BY <1>4, <1>6, <1>7 DEF Promise!End, OutcomeNow
<1>9. QED
  BY <1>8 DEF Kept, Promise!Next

\* START, ABORT and a reset.
LEMMA KeptConsole ==
    ASSUME TypeOK, GroupInv
    PROVE  /\ \A img \in Images : Start(img) => Kept
           /\ \A H \in SUBSET Ids : Abort(H) => Kept
           /\ \A torn, cycled \in BOOLEAN : Reset(torn, cycled) => Kept
<1>1. mods' = Fresh => OutcomeNow' = [u \in Ids |-> "todo"]
  BY StartTypes, Outcomes DEF OutcomeNow
<1>2. ASSUME NEW img \in Images, Start(img) PROVE Kept
  <2>1. run'.active /\ mods' = Fresh
    BY <1>2 DEF Start, Rows, NoRun
  <2>2. StateOf # "running"
    BY <1>2 DEF Start, StateOf, GroupInv
  <2>3. Promise!Begin
    BY <1>1, <2>1, <2>2 DEF Promise!Begin, StateOf, OutcomeNow
  <2>4. QED
    BY <2>3 DEF Kept, Promise!Next
<1>3. ASSUME NEW H \in SUBSET Ids, Abort(H) PROVE Kept
  <2>1. run.active /\ run'.active = FALSE /\ run'.result = "aborted"
    BY <1>3, AbortEffect, FinishEffect DEF Results
  <2>2. \A u \in Ids : OutcomeOf(mods'[u].st) =
            IF OutcomeOf(mods[u].st) = "staged" THEN "todo" ELSE OutcomeOf(mods[u].st)
    <3>1. ASSUME NEW u \in Ids, mods[u].st \in {"session", "complete", "verified"}
          PROVE  /\ OutcomeOf(mods'[u].st) = "todo"
                 /\ OutcomeOf(mods[u].st) \in {"todo", "staged"}
      <4>1. mods[u] \in RowType /\ u \in Holders
        BY <3>1 DEF TypeOK, Holders, In
      <4>2. mods'[u].st = "pending"
        BY <1>3, <4>1, AbortEffect DEF RowType
      <4>3. QED
        BY <3>1, <4>2, Outcomes
    <3>2. ASSUME NEW u \in Ids, mods[u].st \notin {"session", "complete", "verified"}
          PROVE  mods'[u] = mods[u] /\ OutcomeOf(mods[u].st) # "staged"
      <4>1. u \notin Holders /\ mods[u].st \in ModStates
        BY <3>2 DEF TypeOK, RowType, Holders, In
      <4>2. QED
        BY <1>3, <3>2, <4>1, AbortEffect, Outcomes DEF ModStates
    <3>3. QED
      BY <3>1, <3>2
  <2>3. OutcomeNow' = [u \in Ids |-> IF OutcomeNow[u] = "staged" THEN "todo" ELSE OutcomeNow[u]]
    BY <2>2 DEF OutcomeNow
  <2>4. StateOf = "running" /\ StateOf' = "aborted"
    BY <2>1 DEF StateOf
  <2>5. Promise!Stop
    BY <2>3, <2>4 DEF Promise!Stop, OutcomeNow
  <2>6. QED
    BY <2>5 DEF Kept, Promise!Next
<1>4. ASSUME NEW torn \in BOOLEAN, NEW cycled \in BOOLEAN, Reset(torn, cycled)
      PROVE  Kept
  <2>1. run' = NoRun /\ mods' = Fresh
    BY <1>4 DEF Reset
  <2>2. Promise!Forget
    BY <1>1, <2>1 DEF Promise!Forget, StateOf, NoRun, OutcomeNow
  <2>3. QED
    BY <2>2 DEF Kept, Promise!Next
<1>5. QED
  BY <1>2, <1>3, <1>4

\* Every step of the runner is a step the promise may take.
LEMMA KeptStep ==
    ASSUME FlowInv, [Next]_vars
    PROVE  Kept
<1>1. TypeOK /\ GroupInv
  BY DEF FlowInv
<1>2. RequestAbort => Kept
  <2>1. RequestAbort => /\ run'.active = run.active /\ run'.result = run.result
                        /\ mods' = mods
    BY <1>1 DEF RequestAbort, TypeOK, RunType
  <2>2. QED
    BY <2>1, KeptStutter
<1>3. run' = run /\ mods' = mods => Kept
  BY KeptStutter
<1>4. CASE Step
  BY <1>1, <1>4, KeptQuiet, KeptReads, KeptFinish, KeptConsole DEF Step
<1>5. CASE ~Step
  BY <1>1, <1>2, <1>3, <1>5, KeptConsole
     DEF Next, Foreign, Release, Expire, Lull, Settle, vars
<1>6. QED
  BY <1>4, <1>5

\* Every module of a run is staged and applied or written off, none is decided
\* twice, and the run ends "ok" only if none was written off
\* (docs/design-gateway-ota.md), for every number of modules, lost frames,
\* expired sessions, ABORTs and resets.
THEOREM RunnerKeepsPromise == Spec => KeepsPromise
<1>1. Init => Promise!Init
  <2>1. ASSUME Init PROVE Promise!Init
    <3>1. run = NoRun /\ mods = Fresh
      BY <2>1 DEF Init
    <3>2. OutcomeNow = [u \in Ids |-> "todo"]
      BY <3>1, StartTypes, Outcomes DEF OutcomeNow
    <3>3. QED
      BY <3>1, <3>2 DEF Promise!Init, StateOf, NoRun, OutcomeNow
  <2>2. QED
    BY <2>1
<1>2. FlowInv /\ [Next]_vars => [Promise!Next]_(Promise!promise)
  BY KeptStep DEF Kept
<1>3. QED
  BY <1>1, <1>2, FlowAlways, PTL DEF Spec, KeepsPromise, Promise!Spec

(***************************************************************************)
(* A bus that loses nothing.  What goes wrong there is the doing of other  *)
(* callers, the frames they leave a settling hub to refuse included.  One  *)
(* request of theirs costs a module at most one try: who is hurt by it has *)
(* a try left for it, and is unhurt when taken up again.  It costs CONFIRM *)
(* one read, or as many as it makes before the rest of a settle fits.      *)
(***************************************************************************)

\* CONFIRM's reads that one crossing by others can cost, those that are refused
\* because the hold would not fit included; and f of them.
Losses == IF SettleWaits = 0 THEN 1 ELSE SettleWaits
Cost(f) == Losses * f

\* No frame is lost but by design; fewer requests of others come than a module
\* has tries, and they cost fewer reads than CONFIRM makes.
Healthy ==
    ~Lossy /\ ~Leftover /\ MaxForeign < MaxTries /\ Cost(MaxForeign) < ConfirmTries

\* The hub was moved off the group, or has not settled on it again.
Away == grp.ch # 0 /\ (hub.ch # grp.ch \/ ~hub.settled)
AwayNext == grp.ch # 0 /\ (hub'.ch # grp.ch \/ ~hub'.settled)

\* Reads of the module APPLY was sent to that may still fail
Ahead ==
    IF ~Reach(run.target) THEN Losses
    ELSE IF Chan[run.target] = 0 \/ hub.settled THEN 0 ELSE hub.wait

\* Modules the session may still cost a try
Watched(u) ==
    \/ run.ph = "enter" /\ u \in grp.members
    \/ run.ph = "enterCheck" /\ u \in grp.todo
    \/ /\ run.ph \in {"enterCheck", "stream", "repair", "finalize", "finalizeCheck"}
       /\ mods[u].st \in Open

\* Something has happened, or may happen, that costs it one.
Hurt(u) ==
    \/ ~quiet
    \/ Away
    \/ run.ph = "enter" /\ u \notin grp.todo /\ dev[u].state # "receiving"
    \/ run.ph \in {"enterCheck", "stream", "repair", "finalize"}
       /\ dev[u].state # "receiving"
    \/ run.ph = "finalizeCheck" /\ (dev[u].state # "verified" \/ grp.sub > 0)

\* Tries are paid for by requests of others.
TryInv ==
    /\ foreign <= MaxForeign
    /\ \A u \in Ids : mods[u].tries <= foreign
    /\ run.active =>
           /\ \A u \in Ids : Watched(u) /\ Hurt(u) => mods[u].tries < foreign
           /\ run.ph = "confirm" => run.tries + Ahead <= Cost(foreign)

\* A session has all that was sent, or is gone: there is nothing to repair.
SessionInv ==
    run.active =>
        /\ run.ph # "repairSend"
        /\ run.ph = "repair" => grp.missing = {}
        /\ \A u \in In(Open) :
             /\ \/ dev[u].state \in {"receiving", "timedOut"}
                \/ run.ph = "finalizeCheck" /\ dev[u].state = "verified"
             /\ dev[u].state = "receiving" =>
                  /\ run.ph = "stream" =>
                         \A c \in Chunks : c < grp.idx => dev[u].have[c] # 0
                  /\ run.ph \in {"repair", "finalize"} =>
                         \A c \in Chunks : dev[u].have[c] # 0

HealthInv == TryInv /\ SessionInv /\ HealthySucceeds

\* One more request costs as much as each before it.
LEMMA CostGrows ==
    /\ Losses \in Nat \ {0} /\ SettleWaits <= Losses
    /\ \A f \in Nat : /\ Cost(f) \in Nat
                     /\ Cost(f + 1) = Cost(f) + Losses
    /\ \A f, g \in Nat : f <= g => Cost(f) <= Cost(g)
<1>1. Losses \in Nat \ {0} /\ SettleWaits <= Losses
  BY Constants DEF Losses
<1>2. \A f \in Nat : Cost(f) \in Nat /\ Cost(f + 1) = Cost(f) + Losses
  BY <1>1 DEF Cost
<1>3. \A f, g \in Nat : f <= g => Cost(f) <= Cost(g)
  BY <1>1 DEF Cost
<1>4. QED
  BY <1>1, <1>2, <1>3

\* A read can only be lost while the hub is away from the module or not settled.
LEMMA AheadType ==
    ASSUME TypeOK PROVE Ahead \in Nat /\ Ahead <= Losses
<1>1. hub.wait \in 0..SettleWaits
  BY DEF TypeOK, HubType
<1>2. /\ hub.wait \in Nat /\ SettleWaits \in Nat /\ hub.wait <= SettleWaits
      /\ Losses \in Nat /\ SettleWaits <= Losses
  BY <1>1, CostGrows, Constants
<1>3. hub.wait <= Losses
  BY <1>2
<1>4. Ahead \in {Losses, 0, hub.wait}
  BY DEF Ahead
<1>5. QED
  BY <1>2, <1>3, <1>4

\* A module that loses a try it has is pending again.
LEMMA DroppedTries ==
    ASSUME Healthy, TypeOK, TryInv, NEW u \in Ids, mods[u].tries < foreign
    PROVE  /\ Dropped(mods[u]) \in RowType
           /\ Dropped(mods[u]).st = "pending"
           /\ Dropped(mods[u]).tries <= foreign
<1>1. /\ mods[u] \in RowType /\ mods[u].tries \in Nat /\ foreign \in Nat
      /\ MaxForeign \in Nat /\ MaxTries \in Nat
  BY OtaAssumption DEF TypeOK, RowType, OtaAssumption
<1>2. ~(mods[u].tries + 1 >= MaxTries)
  BY <1>1 DEF TryInv, Healthy
<1>3. PICK k \in Nat : k = mods[u].tries + 1
  BY <1>1
<1>4. Dropped(mods[u]) = [mods[u] EXCEPT !.tries = k, !.st = "pending"]
  BY <1>2, <1>3 DEF Dropped
<1>5. k <= foreign
  BY <1>1, <1>3
<1>6. QED
  BY <1>1, <1>4, <1>5 DEF RowType, ModStates

\* On the group's channel every member is reached, by a frame to it and by a
\* broadcast.
LEMMA ParkedReaches ==
    ASSUME OneChannel, Parked
    PROVE  /\ ~Away
           /\ \A u \in grp.members : Reach(u)
           /\ \A H : ~Lossy /\ grp.members \subseteq Ids /\ Broadcast(H)
                        => grp.members \subseteq H
<1>1. \A u \in grp.members : Chan[u] = 0 \/ (Chan[u] = hub.ch /\ hub.settled)
  BY DEF OneChannel, Parked
<1>2. QED
  BY <1>1 DEF Parked, Away, Reach, Broadcast

\* A frame to a member that is not heard finds the hub elsewhere or settling; one
\* that is heard leaves it settled on the group's channel.
LEMMA UnicastGroup ==
    ASSUME Healthy, OneChannel, TypeOK, NEW u \in grp.members, u \in Ids,
           NEW heard \in BOOLEAN, Unicast(u, heard)
    PROVE  /\ ~heard => Away
           /\ AwayNext => Away /\ ~heard
<1>1. Chan[u] = grp.ch /\ hub \in HubType
  BY DEF OneChannel, TypeOK
<1>2. ~heard => Away
  BY <1>1 DEF Unicast, Fate, Shut, Reach, Healthy, Away
<1>3. AwayNext => ~heard
  BY <1>1, HubAfterEffect DEF Unicast, AwayNext
<1>4. QED
  BY <1>2, <1>3

\* A chunk that is heard is there.
LEMMA TakingAll ==
    ASSUME NEW d \in [Ids -> DevType], NEW H, NEW c \in Chunks, NEW u \in Ids,
           u \in H, d[u].state = "receiving", run.img \in Images
    PROVE  Taking(d, H, c)[u].have[c] # 0
<1>1. d[u].have \in [Chunks -> Images \cup {0}] /\ run.img # 0
  BY Constants DEF DevType, DevRecord
<1>2. CASE d[u].have[c] = 0
  <2>1. Taking(d, H, c)[u] = [d[u] EXCEPT !.have[c] = run.img]
    BY <1>2 DEF Taking
  <2>2. QED
    BY <1>1, <2>1 DEF DevType, DevRecord
<1>3. CASE d[u].have[c] # 0
  BY <1>3 DEF Taking
<1>4. QED
  BY <1>2, <1>3

\* A module with nothing but chunks of its metadata's image verifies it.
LEMMA CheckedAll ==
    ASSUME NEW d \in [Ids -> DevType], NEW H, NEW u \in Ids, u \in H,
           d[u].state = "receiving",
           \A c \in Chunks : d[u].have[c] = d[u].meta /\ d[u].have[c] # 0
    PROVE  Checked(d, H)[u].state = "verified"
<1>1. Checked(d, H)[u] = [d[u] EXCEPT !.state = "verified", !.have = NoChunks]
  BY DEF Checked
<1>2. QED
  BY <1>1 DEF DevType, DevRecord

-----------------------------------------------------------------------------
(* The steps outside a session.                                            *)

LEMMA HealthOutside ==
    ASSUME HealthInv, GroupInv', foreign' = foreign,
           \/ ~run'.active
           \/ run'.ph \in {"pick", "probe", "meta", "apply", "waitApply"},
           \A u \in Ids : /\ mods'[u].tries <= foreign
                          /\ mods'[u].st \notin {"noReply", "gaveUp", "failed"}
    PROVE  HealthInv'
<1>1. HealthySucceeds'
  BY DEF HealthySucceeds, In
<1>2. TryInv'
  <2>1. run'.active => \A u \in Ids : ~Watched(u)'
    BY DEF Watched
  <2>2. QED
    BY <2>1 DEF HealthInv, TryInv
<1>3. SessionInv'
  BY DEF SessionInv, GroupInv, Outside, Open
<1>4. QED
  BY <1>1, <1>2, <1>3 DEF HealthInv

\* Steps that leave every row alone
LEMMA HealthRowsKept ==
    ASSUME HealthInv, mods' = mods
    PROVE  \A u \in Ids : /\ mods'[u].tries <= foreign
                          /\ mods'[u].st \notin {"noReply", "gaveUp", "failed"}
BY DEF HealthInv, TryInv, HealthySucceeds, In

LEMMA HealthPick ==
    ASSUME TypeOK, GroupInv, GroupInv', HealthInv
    PROVE  /\ PickApply \/ PickGroup \/ PickWait \/ PickFinish => HealthInv'
           /\ ApplyPutOff \/ FinalizeDone => HealthInv'
<1>1. run \in RunType
  BY DEF TypeOK
<1>2. PickApply \/ ApplyPutOff => HealthInv'
  <2>1. PickApply \/ ApplyPutOff => /\ run'.ph \in {"apply", "pick"} /\ mods' = mods
                                    /\ foreign' = foreign
    BY <1>1 DEF PickApply, ApplyPutOff, Silently, Quietly, RunType
  <2>2. QED
    BY <2>1, HealthOutside, HealthRowsKept
<1>3. PickGroup \/ PickWait => HealthInv'
  <2>1. PickGroup \/ PickWait => /\ run'.ph \in {"probe", "waitApply"} /\ mods' = mods
                                 /\ foreign' = foreign
    BY <1>1, GotoEffect DEF PickGroup, PickWait, Silently, Quietly, Phases
  <2>2. QED
    BY <2>1, HealthOutside, HealthRowsKept
<1>4. PickFinish => HealthInv'
  <2>1. ASSUME PickFinish PROVE run'.active = FALSE /\ mods' = mods /\ foreign' = foreign
    <3>1. PICK r \in {"ok", "failed"} : Finish(r)
      BY <2>1 DEF PickFinish
    <3>2. QED
      BY <2>1, <3>1, FinishEffect DEF PickFinish, Results, Quietly
  <2>2. QED
    BY <2>1, HealthOutside, HealthRowsKept
<1>5. FinalizeDone => HealthInv'
  <2>1. FinalizeDone => run'.ph = "pick" /\ mods' = mods /\ foreign' = foreign
    BY BackEffect DEF FinalizeDone, GroupDone, Quietly
  <2>2. QED
    BY <2>1, HealthOutside, HealthRowsKept
<1>6. QED
  BY <1>2, <1>3, <1>4, <1>5

\* The hub is parked on the group when PROBE asks: a member answers.
LEMMA HealthProbe ==
    ASSUME Healthy, TypeOK, GroupInv, OneChannel, HealthInv, GroupInv',
           NEW ok \in BOOLEAN, Probe(ok)
    PROVE  HealthInv'
<1>1. /\ This \in grp.todo /\ This \in Ids /\ mods[This].st = "pending"
      /\ run'.active /\ run'.ph \in {"probe", "meta", "pick"}
      /\ \A u \in Ids \ {This} : mods'[u] = mods[u]
  BY ProbeEffect
<1>2. mods \in [Ids -> RowType] /\ This \in grp.members /\ foreign' = foreign
  BY <1>1 DEF TypeOK, GroupInv, Probe, Quietly
<1>3. ok
  BY <1>1, <1>2, ParkedReaches, UnicastGroup DEF Probe
<1>4. PICK b : mods' = Set(This, [mods[This] EXCEPT !.before = b])
  BY <1>3 DEF Probe
<1>5. mods'[This].st = "pending" /\ mods'[This].tries = mods[This].tries
  BY <1>1, <1>2, <1>4 DEF Set, RowType
<1>6. \A u \in Ids : /\ mods'[u].tries <= foreign
                     /\ mods'[u].st \notin {"noReply", "gaveUp", "failed"}
  BY <1>1, <1>5 DEF HealthInv, TryInv, HealthySucceeds, In
<1>7. QED
  BY <1>1, <1>2, <1>6, HealthOutside

-----------------------------------------------------------------------------
(* Into the session.                                                       *)

\* META is sent on a quiet bus with the hub on the group: nobody is hurt yet.
LEMMA HealthMeta ==
    ASSUME TypeOK, GroupInv, OneChannel, HealthInv, GroupInv',
           NEW H \in SUBSET Ids, Meta(H)
    PROVE  HealthInv'
<1>1. /\ run \in RunType /\ grp \in GroupType
      /\ quiet /\ quiet' = quiet /\ hub' = hub /\ mods' = mods /\ foreign' = foreign
      /\ ~Away
  BY ParkedReaches DEF TypeOK, Meta, MayTransmit, Quietly
<1>2. /\ run'.ph = "enter"
      /\ grp'.members = grp.members /\ grp'.todo = grp.members /\ grp'.ch = grp.ch
  BY <1>1, GotoEffect DEF Meta, Phases, GroupType
<1>3. \A u \in Ids : ~(Watched(u)' /\ Hurt(u)')
  BY <1>1, <1>2 DEF Watched, Hurt, Away
<1>4. TryInv'
  BY <1>1, <1>2, <1>3 DEF HealthInv, TryInv
<1>5. SessionInv'
  BY <1>2 DEF SessionInv, GroupInv, Outside, Open
<1>6. QED
  BY <1>1, <1>4, <1>5, HealthRowsKept DEF HealthInv, HealthySucceeds, In

\* ENTER opens the session of whoever hears it; who does not was hurt.
LEMMA HealthEnter ==
    ASSUME Healthy, TypeOK, GroupInv, OneChannel, HealthInv,
           GroupInv', NEW heard \in BOOLEAN, Enter(heard)
    PROVE  HealthInv'
<1>1. /\ run \in RunType /\ grp \in GroupType /\ dev \in [Ids -> DevType]
      /\ run.active /\ run.ph = "enter" /\ quiet /\ quiet' = quiet
      /\ mods' = mods /\ foreign' = foreign
      /\ grp.todo # {} /\ grp.todo \subseteq grp.members
      /\ In({"session", "complete"}) = {}
  BY DEF TypeOK, Enter, At, MayTransmit, Quietly, GroupInv, Outside
<1>2. This \in grp.todo /\ This \in Ids /\ This \in grp.members
      /\ NextMember = grp.todo \ {This}
  BY <1>1, ThisIsMember DEF NextMember
<1>3. (~heard => Away) /\ (AwayNext => Away)
  BY <1>2, UnicastGroup DEF Enter
<1>4. /\ run'.active /\ grp'.members = grp.members /\ grp'.ch = grp.ch
      /\ \/ /\ run'.ph = "enter" /\ grp'.todo = grp.todo \ {This}
         \/ /\ run'.ph = "enterCheck" /\ grp'.todo = grp.members
            /\ grp.todo = {This}
  <2>1. \/ run' = run /\ grp' = [grp EXCEPT !.todo = NextMember]
        \/ /\ Goto("enterCheck") /\ grp' = [grp EXCEPT !.todo = grp.members]
           /\ NextMember = {}
    BY DEF Enter
  <2>2. QED
    BY <1>1, <1>2, <2>1, GotoEffect DEF Phases, GroupType
<1>5. /\ heard => dev'[This].state = "receiving"
      /\ \A u \in Ids \ {This} : dev'[u] = dev[u]
  BY <1>1, <1>2 DEF Enter, DevType, DevRecord
<1>6. ASSUME NEW u \in Ids, Watched(u)', Hurt(u)'
      PROVE  Watched(u) /\ Hurt(u)
  <2>1. u \in grp.members /\ Watched(u)
    BY <1>1, <1>4, <1>6 DEF Watched, In, Open
  <2>2. CASE Away
    BY <2>1, <2>2 DEF Hurt
  <2>3. CASE ~Away
    <3>1. /\ u \notin grp.todo \/ u = This
          /\ dev'[u].state # "receiving"
      BY <1>1, <1>3, <1>4, <1>6, <2>3 DEF Hurt, Away, AwayNext
    <3>2. u # This
      BY <1>3, <1>5, <2>3, <3>1
    <3>3. QED
      BY <1>1, <1>5, <2>1, <3>1, <3>2 DEF Hurt
  <2>4. QED
    BY <2>2, <2>3
<1>7. TryInv'
  BY <1>1, <1>4, <1>6 DEF HealthInv, TryInv
<1>8. SessionInv'
  BY <1>1, <1>4 DEF SessionInv, In, Open
<1>9. QED
  BY <1>1, <1>7, <1>8, HealthRowsKept DEF HealthInv, HealthySucceeds, In

\* The check after ENTER: who is not in session was hurt, and pays with a try.
LEMMA HealthEnterCheck ==
    ASSUME Healthy, TypeOK, GroupInv, OneChannel, HealthInv,
           GroupInv', NEW ok \in BOOLEAN, EnterCheck(ok)
    PROVE  HealthInv'
<1>1. /\ run \in RunType /\ grp \in GroupType /\ mods \in [Ids -> RowType]
      /\ quiet /\ quiet' = quiet /\ foreign' = foreign /\ dev' = dev
      /\ grp.todo # {} /\ grp.todo \subseteq grp.members
  BY DEF TypeOK, EnterCheck, At, MayTransmit, Quietly, GroupInv
<1>2. /\ This \in grp.todo /\ This \in Ids /\ This \in grp.members
      /\ NextMember = grp.todo \ {This} /\ mods[This].st = "pending"
      /\ run.active /\ run.ph = "enterCheck" /\ run'.active
      /\ \A u \in Ids \ {This} : mods'[u] = mods[u]
  BY <1>1, EnterCheckEffect DEF NextMember
<1>3. (~ok => Away) /\ (AwayNext => Away)
  BY <1>2, UnicastGroup DEF EnterCheck
<1>4. \/ /\ mods'[This].st = "session" /\ dev[This].state = "receiving"
         /\ mods'[This].tries = mods[This].tries /\ mods[This].tries <= foreign
      \/ mods'[This].st = "pending" /\ mods'[This].tries <= foreign
  <2>1. CASE ok /\ dev[This].state = "receiving"
    <3>1. mods' = Set(This, [mods[This] EXCEPT !.st = "session"])
      BY <2>1 DEF EnterCheck
    <3>2. mods'[This].st = "session" /\ mods'[This].tries = mods[This].tries
      BY <1>1, <1>2, <3>1 DEF Set, RowType
    <3>3. QED
      BY <1>2, <2>1, <3>2 DEF HealthInv, TryInv
  <2>2. CASE ~(ok /\ dev[This].state = "receiving")
    <3>1. mods' = Set(This, Dropped(mods[This]))
      BY <2>2 DEF EnterCheck
    <3>2. Watched(This) /\ Hurt(This)
      BY <1>2, <1>3, <2>2 DEF Watched, Hurt
    <3>3. mods[This].tries < foreign /\ TryInv
      BY <1>2, <3>2 DEF HealthInv, TryInv
    <3>4. QED
      BY <1>1, <1>2, <3>1, <3>3, DroppedTries, SetEffect
  <2>3. QED
    BY <2>1, <2>2
<1>5. \A u \in Ids : /\ mods'[u].tries <= foreign
                     /\ mods'[u].st \notin {"noReply", "gaveUp", "failed"}
  BY <1>2, <1>4 DEF HealthInv, TryInv, HealthySucceeds, In
<1>6. CASE run'.ph = "pick"
  BY <1>1, <1>5, <1>6, HealthOutside
<1>7. CASE run'.ph # "pick"
  <2>1. /\ grp'.ch = grp.ch
        /\ \/ /\ run'.ph = "enterCheck" /\ grp'.todo = grp.todo \ {This}
           \/ run'.ph = "stream" /\ grp'.todo = {} /\ grp'.idx = 0
    <3>1. PICK S \in SUBSET grp.members : S = Still({"session"})
      BY DEF Still
    <3>2. \/ run' = run /\ grp' = [grp EXCEPT !.todo = NextMember]
          \/ GroupDone
          \/ Goto("stream") /\ grp' = [grp EXCEPT !.todo = {}, !.members = S, !.idx = 0]
      BY <3>1 DEF EnterCheck
    <3>3. ~GroupDone
      BY <1>7, BackEffect DEF GroupDone
    <3>4. CASE run' = run /\ grp' = [grp EXCEPT !.todo = NextMember]
      BY <1>1, <1>2, <3>4 DEF GroupType
    <3>5. CASE Goto("stream") /\ grp' = [grp EXCEPT !.todo = {}, !.members = S, !.idx = 0]
      BY <1>1, <3>5, GotoEffect DEF GroupType, Phases
    <3>6. QED
      BY <3>2, <3>3, <3>4, <3>5
  <2>2. ASSUME NEW u \in Ids, Watched(u)', Hurt(u)'
        PROVE  mods'[u].tries < foreign
    <3>1. Away \/ dev[u].state # "receiving"
      BY <1>1, <1>3, <2>1, <2>2 DEF Hurt, Away, AwayNext
    <3>2. Watched(u) /\ Hurt(u)
      BY <1>2, <2>1, <2>2, <3>1 DEF Watched, Hurt
    <3>3. mods'[u].tries = mods[u].tries
      BY <1>2, <1>4, <2>1, <2>2 DEF Watched, Open
    <3>4. QED
      BY <1>2, <3>2, <3>3 DEF HealthInv, TryInv
  <2>3. TryInv'
    BY <1>1, <1>5, <2>1, <2>2 DEF HealthInv, TryInv
  <2>4. SessionInv'
    <3>1. \A u \in In(Open)' : dev[u].state \in {"receiving", "timedOut"}
      BY <1>2, <1>4 DEF HealthInv, SessionInv, In, Open
    <3>2. \A c \in Chunks : ~(c < 0)
      BY Constants
    <3>3. QED
      BY <1>1, <2>1, <3>1, <3>2 DEF SessionInv
  <2>5. QED
    BY <1>5, <2>3, <2>4 DEF HealthInv, HealthySucceeds, In
<1>8. QED
  BY <1>6, <1>7

-----------------------------------------------------------------------------
(* The session.                                                            *)

\* A chunk is broadcast with the hub on the group: every session has it.
LEMMA HealthStream ==
    ASSUME Healthy, TypeOK, GroupInv, OneChannel, HealthInv,
           NEW H \in SUBSET Ids, Stream(H)
    PROVE  HealthInv'
<1>1. /\ run \in RunType /\ grp \in GroupType /\ dev \in [Ids -> DevType]
      /\ run.active /\ run.ph = "stream" /\ quiet /\ quiet' = quiet
      /\ mods' = mods /\ foreign' = foreign /\ hub' = hub
      /\ dev' = Taking(dev, H, grp.idx) /\ grp.idx \in Chunks
      /\ grp.members \subseteq Ids /\ run.img \in Images
      /\ In({"session", "complete"}) \subseteq grp.members
  BY DEF TypeOK, Stream, At, MayTransmit, Quietly, GroupInv, Outside, GroupType
<1>2. ~Away /\ grp.members \subseteq H
  BY <1>1, ParkedReaches DEF Stream, Healthy
<1>. PICK i \in Nat : i = grp.idx
  BY <1>1, Constants
<1>. (\A c \in Chunks : c \in Nat /\ c < Total) /\ Total \in Nat
  BY Constants DEF Chunks
<1>3. /\ \/ /\ run'.ph = "stream" /\ grp'.idx = grp.idx + 1
         \/ /\ run'.ph = "repair" /\ grp'.missing = {} /\ grp.idx + 1 >= Total
      /\ run'.active /\ grp'.ch = grp.ch
  <2>1. \/ run' = run /\ grp' = [grp EXCEPT !.idx = grp.idx + 1]
        \/ /\ grp' = [grp EXCEPT !.idx = 0, !.round = 1, !.todo = grp.members,
                                 !.sub = 0, !.missing = {}]
           /\ Goto("repair") /\ ~(grp.idx + 1 < Total)
    BY DEF Stream
  <2>2. grp.idx + 1 \in Nat /\ Total \in Nat
    OBVIOUS
  <2>3. PICK k \in Nat : k = grp.idx + 1
    BY <2>2
  <2>4. CASE run' = run /\ grp' = [grp EXCEPT !.idx = k]
    BY <1>1, <2>3, <2>4 DEF GroupType
  <2>5. CASE /\ grp' = [grp EXCEPT !.idx = 0, !.round = 1, !.todo = grp.members,
                                   !.sub = 0, !.missing = {}]
             /\ Goto("repair") /\ ~(k < Total)
    <3>1. grp'.missing = {} /\ grp'.ch = grp.ch
      BY <1>1, <2>5 DEF GroupType
    <3>2. run'.ph = "repair" /\ run'.active
      BY <1>1, <2>5, GotoEffect DEF Phases
    <3>3. grp.idx + 1 >= Total
      BY <2>3, <2>5
    <3>4. QED
      BY <3>1, <3>2, <3>3
  <2>6. QED
    BY <2>1, <2>3, <2>4, <2>5
<1>4. \A u \in Ids : /\ dev'[u].state = dev[u].state
                     /\ \A c \in Chunks : dev'[u].have[c] \in {dev[u].have[c], run.img}
  BY <1>1, TakingEffect
<1>5. ASSUME NEW u \in In(Open), dev[u].state = "receiving"
      PROVE  \A c \in Chunks : c <= grp.idx => dev'[u].have[c] # 0
  <2>1. u \in Ids /\ u \in H
    BY <1>1, <1>2 DEF In, Open
  <2>2. dev'[u].have[grp.idx] # 0
    BY <1>1, <1>5, <2>1, TakingAll
  <2>3. \A c \in Chunks : c < grp.idx => dev'[u].have[c] # 0
    BY <1>1, <1>4, <1>5, <2>1, Constants DEF HealthInv, SessionInv
  <2>4. \A c \in Chunks : c <= grp.idx => c = grp.idx \/ c < grp.idx
    OBVIOUS
  <2>5. QED
    BY <2>2, <2>3, <2>4
<1>6. TryInv'
  <2>1. \A u \in Ids : Watched(u)' /\ Hurt(u)' => Watched(u) /\ Hurt(u)
    BY <1>1, <1>2, <1>3, <1>4 DEF Watched, Hurt, Away
  <2>2. QED
    BY <1>1, <1>3, <2>1 DEF HealthInv, TryInv
<1>7. SessionInv'
  <2>1. In(Open)' = In(Open)
    BY <1>1 DEF In
  <2>2. \A u \in In(Open) : u \in Ids /\ dev[u].state \in {"receiving", "timedOut"}
    BY <1>1 DEF HealthInv, SessionInv, In
  <2>3. run'.ph = "stream" => \A c \in Chunks : c < grp'.idx => c <= grp.idx
    BY <1>3
  <2>4. run'.ph = "repair" => \A c \in Chunks : c <= grp.idx
    BY <1>3
  <2>5. ASSUME NEW u \in In(Open)
        PROVE  /\ dev'[u].state \in {"receiving", "timedOut"}
               /\ dev'[u].state = "receiving" =>
                    /\ run'.ph = "stream" =>
                           \A c \in Chunks : c < grp'.idx => dev'[u].have[c] # 0
                    /\ run'.ph = "repair" => \A c \in Chunks : dev'[u].have[c] # 0
    BY <1>4, <1>5, <2>2, <2>3, <2>4
  <2>6. QED
    BY <1>3, <2>1, <2>5 DEF SessionInv
<1>8. QED
  BY <1>1, <1>6, <1>7, HealthRowsKept DEF HealthInv, HealthySucceeds, In

\* Between the reads: the next member, FINALIZE once all have been looked at.
LEMMA HealthSkip ==
    ASSUME TypeOK, HealthInv
    PROVE  /\ RepairRound => HealthInv'
           /\ RepairSkip \/ FinalizeSkip => HealthInv'
           /\ \A H \in SUBSET Ids : RepairSend(H) => HealthInv'
<1>1. run \in RunType /\ grp \in GroupType
  BY DEF TypeOK
<1>2. RepairRound => HealthInv'
  <2>1. ASSUME RepairRound
        PROVE  /\ run.active /\ run.ph = "repair" /\ run'.ph = "finalize"
               /\ mods' = mods /\ grp' = grp /\ hub' = hub /\ quiet' = quiet
               /\ dev' = dev /\ foreign' = foreign
    <3>1. run.active /\ run.ph = "repair" /\ grp.missing = {}
      BY <2>1 DEF RepairRound, At, HealthInv, SessionInv
    <3>2. Goto("finalize")
      BY <2>1, <3>1 DEF RepairRound
    <3>3. QED
      BY <1>1, <2>1, <3>1, <3>2, GotoEffect DEF RepairRound, Silently, Quietly, Phases
  <2>2. ASSUME RepairRound PROVE TryInv'
    <3>1. \A u \in Ids : Watched(u)' /\ Hurt(u)' => Watched(u) /\ Hurt(u)
      BY <2>1, <2>2 DEF Watched, Hurt, Away
    <3>2. QED
      BY <2>1, <2>2, <3>1 DEF HealthInv, TryInv
  <2>3. RepairRound => SessionInv'
    BY <2>1 DEF HealthInv, SessionInv, In
  <2>4. QED
    BY <2>1, <2>2, <2>3, HealthRowsKept DEF HealthInv, HealthySucceeds, In
<1>3. RepairSkip \/ FinalizeSkip => HealthInv'
  <2>1. ASSUME RepairSkip \/ FinalizeSkip
        PROVE  /\ run.active /\ run.ph \in {"repair", "finalizeCheck"} /\ run' = run
               /\ mods' = mods /\ hub' = hub /\ quiet' = quiet
               /\ dev' = dev /\ foreign' = foreign
               /\ grp'.sub = grp.sub /\ grp'.ch = grp.ch /\ grp'.missing = grp.missing
    BY <1>1, <2>1 DEF RepairSkip, FinalizeSkip, At, Silently, Quietly, GroupType
  <2>2. ASSUME RepairSkip \/ FinalizeSkip PROVE TryInv'
    <3>1. \A u \in Ids : Watched(u)' /\ Hurt(u)' => Watched(u) /\ Hurt(u)
      BY <2>1, <2>2 DEF Watched, Hurt, Away
    <3>2. QED
      BY <2>1, <2>2, <3>1 DEF HealthInv, TryInv
  <2>3. RepairSkip \/ FinalizeSkip => SessionInv'
    BY <2>1 DEF HealthInv, SessionInv, In
  <2>4. QED
    BY <2>1, <2>2, <2>3, HealthRowsKept DEF HealthInv, HealthySucceeds, In
<1>4. ASSUME NEW H \in SUBSET Ids, RepairSend(H) PROVE HealthInv'
  BY <1>4 DEF RepairSend, At, HealthInv, SessionInv
<1>5. QED
  BY <1>2, <1>3, <1>4

\* The reads of REPAIR are heard: a member is complete, or was hurt and pays.
LEMMA HealthRepair ==
    ASSUME Healthy, TypeOK, GroupInv, OneChannel, HealthInv,
           NEW H \in SUBSET Ids, NEW stateOk \in BOOLEAN, NEW mapOk \in BOOLEAN,
           RepairRead(H, stateOk, mapOk)
    PROVE  HealthInv'
<1>1. /\ run \in RunType /\ grp \in GroupType /\ dev \in [Ids -> DevType]
      /\ mods \in [Ids -> RowType]
      /\ run.active /\ run.ph = "repair" /\ run' = run /\ quiet /\ quiet' = quiet
      /\ foreign' = foreign /\ dev' = Taking(dev, H, 0) /\ grp.missing = {}
      /\ run.img \in Images /\ run.img # 0 /\ 0 \in Chunks
  BY Constants DEF TypeOK, RepairRead, At, MayTransmit, Quietly, GroupInv, HealthInv, SessionInv
<1>2. /\ This \in grp.members /\ This \in Ids /\ mods[This].st = "session"
      /\ \A u \in Ids \ {This} : mods'[u] = mods[u]
  BY RepairEffect DEF GroupInv
<1>3. stateOk /\ mapOk /\ ~AwayNext
  <2>1. ~Away
    BY <1>2, ParkedReaches DEF RepairRead
  <2>2. QED
    BY <1>2, <2>1, UnicastGroup DEF RepairRead
<1>4. \A u \in Ids : /\ dev'[u].state = dev[u].state
                     /\ \A c \in Chunks : dev'[u].have[c] \in {dev[u].have[c], run.img}
  BY <1>1, TakingEffect
<1>5. \A u \in In(Open) :
        /\ dev[u].state \in {"receiving", "timedOut"}
        /\ dev'[u].state = "receiving" => \A c \in Chunks : dev'[u].have[c] # 0
  BY <1>1, <1>4 DEF HealthInv, SessionInv, In
<1>6. This \in In(Open)
  BY <1>2 DEF In, Open
<1>7. /\ grp'.missing = {} /\ grp'.ch = grp.ch
      /\ mods'[This].tries <= foreign
      /\ \/ mods'[This].st = "pending"
         \/ mods'[This].st = "complete" /\ dev[This].state = "receiving"
  <2>1. CASE dev[This].state # "receiving"
    <3>1. /\ mods' = Set(This, Dropped(mods[This]))
          /\ grp' = [grp EXCEPT !.todo = NextMember]
      BY <1>3, <2>1 DEF RepairRead
    <3>2. Watched(This) /\ Hurt(This)
      BY <1>1, <1>2, <2>1 DEF Watched, Hurt, Open
    <3>3. mods[This].tries < foreign /\ TryInv
      BY <1>1, <1>2, <3>2 DEF HealthInv, TryInv
    <3>4. mods'[This].st = "pending" /\ mods'[This].tries <= foreign
      BY <1>1, <1>2, <3>1, <3>3, DroppedTries, SetEffect
    <3>5. grp'.missing = grp.missing /\ grp'.ch = grp.ch
      BY <1>1, <3>1 DEF GroupType
    <3>6. QED
      BY <1>1, <3>4, <3>5
  <2>2. CASE dev[This].state = "receiving"
    <3>1. Missing(This) = {}
      BY <1>2, <1>4, <1>5, <1>6, <2>2 DEF Missing
    <3>2. /\ mods' = Set(This, [mods[This] EXCEPT !.st = "complete"])
          /\ grp' = [grp EXCEPT !.sub = 0, !.todo = NextMember, !.missing = grp.missing]
      BY <1>3, <2>2, <3>1 DEF RepairRead
    <3>3. mods'[This].st = "complete" /\ mods'[This].tries = mods[This].tries
      BY <1>1, <1>2, <3>2 DEF Set, RowType
    <3>4. grp'.missing = grp.missing /\ grp'.ch = grp.ch
      BY <1>1, <3>2 DEF GroupType
    <3>5. QED
      BY <1>1, <1>2, <2>2, <3>3, <3>4 DEF HealthInv, TryInv
  <2>3. QED
    BY <2>1, <2>2
<1>8. \A u \in Ids : /\ mods'[u].tries <= foreign
                     /\ mods'[u].st \notin {"noReply", "gaveUp", "failed"}
  BY <1>2, <1>7 DEF HealthInv, TryInv, HealthySucceeds, In
<1>9. ASSUME NEW u \in Ids, Watched(u)', Hurt(u)'
      PROVE  mods'[u].tries < foreign
  <2>1. dev[u].state # "receiving"
    BY <1>1, <1>3, <1>4, <1>7, <1>9 DEF Hurt, Away, AwayNext
  <2>2. u # This
    BY <1>1, <1>7, <1>9, <2>1 DEF Watched, Open
  <2>3. Watched(u) /\ Hurt(u) /\ mods'[u] = mods[u]
    BY <1>1, <1>2, <1>9, <2>1, <2>2 DEF Watched, Hurt
  <2>4. QED
    BY <1>1, <2>3 DEF HealthInv, TryInv
<1>10. TryInv'
  BY <1>1, <1>8, <1>9 DEF HealthInv, TryInv
<1>11. \A u \in In(Open)' : u \in In(Open)
  BY <1>2, <1>6 DEF In
<1>12. SessionInv'
  BY <1>1, <1>4, <1>5, <1>7, <1>11 DEF SessionInv, In
<1>13. QED
  BY <1>8, <1>10, <1>12 DEF HealthInv, HealthySucceeds, In

\* FINALIZE finds every chunk of the run's image in a session that lasted.
LEMMA HealthFinalize ==
    ASSUME Healthy, TypeOK, GroupInv, OneChannel, ImageInv, HealthInv,
           NEW K \in SUBSET Ids, NEW H \in SUBSET Ids, Finalize(K, H)
    PROVE  HealthInv'
<1> DEFINE d == Taking(dev, K, 0)
<1>1. /\ run \in RunType /\ grp \in GroupType /\ dev \in [Ids -> DevType]
      /\ run.active /\ run.ph = "finalize" /\ quiet /\ quiet' = quiet /\ mods' = mods
      /\ foreign' = foreign /\ hub' = hub /\ dev' = Checked(d, H)
      /\ run.img \in Images /\ run.img # 0 /\ 0 \in Chunks
      /\ grp.members \subseteq Ids /\ In(Open) \subseteq grp.members
      /\ run.img \in Images \cup {0}
  BY Constants DEF TypeOK, Finalize, At, MayTransmit, Quietly, GroupInv, GroupType, Outside, Open
<1>2. ~Away /\ grp.members \subseteq H
  BY <1>1, ParkedReaches DEF Finalize, Healthy
<1>3. /\ run'.active /\ run'.ph = "finalizeCheck" /\ grp'.ch = grp.ch /\ grp'.sub = 0
      /\ grp'.members = grp.members
  BY <1>1, GotoEffect DEF Finalize, Phases, GroupType
<1>4. /\ d \in [Ids -> DevType]
      /\ \A u \in Ids : /\ d[u].state = dev[u].state /\ d[u].meta = dev[u].meta
                        /\ \A c \in Chunks : d[u].have[c] \in {dev[u].have[c], run.img}
  BY <1>1, TakingEffect
<1>5. ASSUME NEW u \in In(Open)
      PROVE  \/ dev[u].state = "receiving" /\ dev'[u].state = "verified"
             \/ dev[u].state = "timedOut" /\ dev'[u].state = "timedOut"
  <2>1. u \in Ids /\ u \in H /\ u \in grp.members
    BY <1>1, <1>2 DEF In
  <2>2. CASE dev[u].state = "receiving"
    <3>1. \A c \in Chunks : dev[u].have[c] = run.img
      BY <1>1, <2>1, <2>2
         DEF HealthInv, SessionInv, ImageInv, Collected, Healthy
    <3>2. dev[u].meta = run.img
      BY <1>1, <2>1 DEF ImageInv, Told, AfterMeta, Healthy
    <3>3. \A c \in Chunks : d[u].have[c] = d[u].meta /\ d[u].have[c] # 0
      BY <1>1, <1>4, <2>1, <3>1, <3>2
    <3>4. QED
      BY <1>1, <1>4, <2>1, <2>2, <3>3, CheckedAll
  <2>3. CASE dev[u].state # "receiving"
    <3>1. dev[u].state = "timedOut"
      BY <1>1, <2>3 DEF HealthInv, SessionInv
    <3>2. dev'[u] = d[u]
      BY <1>1, <1>4, <2>1, <2>3, CheckedEffect
    <3>3. QED
      BY <1>4, <2>1, <3>1, <3>2
  <2>4. QED
    BY <2>2, <2>3
<1>6. TryInv'
  <2>1. ASSUME NEW u \in Ids, Watched(u)', Hurt(u)' PROVE Watched(u) /\ Hurt(u)
    <3>1. u \in In(Open) /\ Watched(u)
      BY <1>1, <1>3, <2>1 DEF Watched, In
    <3>2. dev'[u].state # "verified"
      BY <1>1, <1>2, <1>3, <2>1 DEF Hurt, Away
    <3>3. QED
      BY <1>1, <1>5, <3>1, <3>2 DEF Hurt
  <2>2. QED
    BY <1>1, <1>3, <2>1 DEF HealthInv, TryInv
<1>7. SessionInv'
  BY <1>1, <1>3, <1>5 DEF SessionInv, In
<1>8. QED
  BY <1>1, <1>6, <1>7, HealthRowsKept DEF HealthInv, HealthySucceeds, In

\* The check after FINALIZE: verified, or hurt.
LEMMA HealthFinalizeRead ==
    ASSUME Healthy, TypeOK, GroupInv, OneChannel, HealthInv,
           NEW ok \in BOOLEAN, FinalizeRead(ok)
    PROVE  HealthInv'
<1>1. /\ run \in RunType /\ grp \in GroupType /\ mods \in [Ids -> RowType]
      /\ run.active /\ run.ph = "finalizeCheck" /\ run' = run /\ dev' = dev
      /\ quiet /\ quiet' = quiet /\ foreign' = foreign
  BY DEF TypeOK, FinalizeRead, At, MayTransmit, Quietly
<1>2. /\ This \in grp.members /\ This \in Ids /\ This \in In(Open)
      /\ \A u \in Ids \ {This} : mods'[u] = mods[u]
  BY FinalizeEffect DEF GroupInv, In, Open
<1>3. (~ok => Away) /\ (AwayNext => Away)
  BY <1>2, UnicastGroup DEF FinalizeRead
<1>4. dev[This].state \in {"receiving", "timedOut", "verified"}
  BY <1>1, <1>2 DEF HealthInv, SessionInv
<1>5. /\ Watched(This) /\ Hurt(This) =>
            mods[This].tries < foreign /\ TryInv
      /\ Watched(This) /\ mods[This].tries <= foreign
  BY <1>1, <1>2 DEF HealthInv, TryInv, Watched, In
<1>6. CASE ok \/ Silent
  <2>1. grp' = [grp EXCEPT !.sub = 0, !.todo = NextMember]
    BY <1>6 DEF FinalizeRead
  <2>2. grp'.sub = 0 /\ grp'.ch = grp.ch
    BY <1>1, <2>1 DEF GroupType
  <2>3. mods'[This].st \in {"verified", "pending"} /\ mods'[This].tries <= foreign
    <3>1. CASE ok /\ dev[This].state = "verified"
      <4>1. mods' = Set(This, [mods[This] EXCEPT !.st = "verified"])
        BY <3>1 DEF FinalizeRead, Outcome
      <4>2. mods'[This].st = "verified" /\ mods'[This].tries = mods[This].tries
        BY <1>1, <1>2, <4>1 DEF Set, RowType
      <4>3. QED
        BY <1>5, <4>2
    <3>2. CASE ~(ok /\ dev[This].state = "verified")
      <4>1. mods' = Set(This, Dropped(mods[This]))
        BY <1>4, <1>6, <3>2 DEF FinalizeRead, Outcome
      <4>2. Hurt(This)
        BY <1>1, <1>3, <3>2 DEF Hurt
      <4>3. mods[This].tries < foreign /\ TryInv
        BY <1>5, <4>2
      <4>4. QED
        BY <1>1, <1>2, <4>1, <4>3, DroppedTries, SetEffect
    <3>3. QED
      BY <3>1, <3>2
  <2>4. \A u \in Ids : /\ mods'[u].tries <= foreign
                       /\ mods'[u].st \notin {"noReply", "gaveUp", "failed"}
    BY <1>2, <2>3 DEF HealthInv, TryInv, HealthySucceeds, In
  <2>5. ASSUME NEW u \in Ids, Watched(u)', Hurt(u)' PROVE mods'[u].tries < foreign
    <3>1. (Away \/ dev[u].state # "verified") /\ u # This
      BY <1>1, <1>3, <2>2, <2>3, <2>5 DEF Hurt, Away, AwayNext, Watched, Open
    <3>2. Watched(u) /\ Hurt(u) /\ mods'[u] = mods[u]
      BY <1>1, <1>2, <2>5, <3>1 DEF Watched, Hurt
    <3>3. QED
      BY <1>1, <3>2 DEF HealthInv, TryInv
  <2>6. TryInv'
    BY <1>1, <2>4, <2>5 DEF HealthInv, TryInv
  <2>7. \A u \in In(Open)' : u \in In(Open)
    BY <1>2 DEF In
  <2>8. SessionInv'
    BY <1>1, <2>7 DEF HealthInv, SessionInv
  <2>9. QED
    BY <2>4, <2>6, <2>8 DEF HealthInv, HealthySucceeds, In
<1>7. CASE ~(ok \/ Silent)
  <2>1. mods' = mods /\ grp' = [grp EXCEPT !.sub = grp.sub + 1]
    BY <1>7 DEF FinalizeRead
  <2>2. Away
    BY <1>3, <1>7
  <2>3. \A u \in Ids : Watched(u)' => Watched(u) /\ Hurt(u)
    BY <1>1, <2>1, <2>2 DEF Watched, Hurt
  <2>4. TryInv'
    BY <1>1, <2>1, <2>3 DEF HealthInv, TryInv
  <2>5. SessionInv'
    BY <1>1, <2>1 DEF HealthInv, SessionInv, In
  <2>6. QED
    BY <2>1, <2>4, <2>5, HealthRowsKept DEF HealthInv, HealthySucceeds, In
<1>8. QED
  BY <1>6, <1>7

-----------------------------------------------------------------------------
(* After the session.                                                      *)

\* APPLY leaves the hub where CONFIRM will look, after a wait no settle outlasts.
LEMMA HealthApply ==
    ASSUME TypeOK, GroupInv, GroupInv', HealthInv, NEW heard \in BOOLEAN, ApplySend(heard)
    PROVE  HealthInv'
<1>1. /\ run \in RunType /\ mods' = mods /\ foreign' = foreign /\ foreign \in Nat
      /\ run' = [run EXCEPT !.ph = "confirm", !.tries = 0]
  BY DEF TypeOK, ApplySend, Quietly
<1>2. run'.ph = "confirm" /\ run'.tries = 0 /\ run'.target = run.target
  BY <1>1 DEF RunType
<1>3. Ahead' = 0
  <2>1. run.target \in Ids /\ hub \in HubType
    BY DEF ApplySend, At, GroupInv, In, TypeOK
  <2>2. PICK h \in HubType :
          /\ hub' = Outwaited(h)
          /\ Chan[run.target] # 0 => h.ch = Chan[run.target]
    BY <2>1, HubAfterEffect DEF ApplySend
  <2>3. hub'.wait = 0 /\ hub'.ch = h.ch
    BY <2>2, HubTypes
  <2>4. QED
    BY <1>2, <2>2, <2>3 DEF Ahead, Reach
<1>4. TryInv'
  BY <1>1, <1>2, <1>3, CostGrows DEF HealthInv, TryInv, Watched
<1>5. SessionInv'
  BY <1>2 DEF SessionInv, GroupInv, Outside, Open
<1>6. QED
  BY <1>1, <1>4, <1>5, HealthRowsKept DEF HealthInv, HealthySucceeds, In

\* CONFIRM is answered unless others moved the hub, and they cost it fewer reads
\* than it makes.
LEMMA HealthConfirm ==
    ASSUME Healthy, TypeOK, GroupInv, GroupInv', HealthInv,
           NEW ok \in BOOLEAN, Confirm(ok)
    PROVE  HealthInv'
<1> DEFINE u == run.target
<1>1. /\ run \in RunType /\ mods \in [Ids -> RowType] /\ foreign' = foreign
      /\ run.active /\ run.ph = "confirm" /\ u \in Ids /\ hub \in HubType
      /\ foreign \in Nat /\ MaxForeign \in Nat /\ ConfirmTries \in Nat
      /\ foreign <= MaxForeign /\ Cost(MaxForeign) < ConfirmTries
  BY ConfirmEffect, OtaAssumption
     DEF TypeOK, Confirm, Quietly, OtaAssumption, Healthy, HealthInv, TryInv
<1>2. PICK n \in Nat : n = run.tries
  BY <1>1 DEF RunType
<1>3. Cost(foreign) \in Nat /\ Cost(MaxForeign) \in Nat /\ Cost(foreign) <= Cost(MaxForeign)
  BY <1>1, CostGrows
<1>4. /\ Ahead \in Nat /\ n + Ahead <= Cost(foreign)
      /\ hub.wait \in Nat /\ SettleWaits \in Nat
  BY <1>1, <1>2, AheadType, Constants DEF HealthInv, TryInv, HubType
<1>5. CASE ok
  <2>1. PICK st \in {"updated", "same"} :
          mods' = Set(u, [mods[u] EXCEPT !.st = st])
    BY <1>5 DEF Confirm
  <2>2. /\ mods'[u].st = st /\ mods'[u].tries = mods[u].tries
        /\ \A v \in Ids \ {u} : mods'[v] = mods[v]
    BY <1>1, <2>1 DEF Set, RowType
  <2>3. \A v \in Ids : /\ mods'[v].tries <= foreign
                       /\ mods'[v].st \notin {"noReply", "gaveUp", "failed"}
    BY <1>1, <2>2 DEF HealthInv, TryInv, HealthySucceeds, In
  <2>4. run'.ph = "pick"
    BY <1>5, BackEffect DEF Confirm
  <2>5. QED
    BY <1>1, <2>3, <2>4, HealthOutside
<1>6. CASE ~ok
  <2>1. Chan[u] # 0 /\ (~Reach(u) \/ (Reach(u) /\ ~hub.settled /\ hub.wait > 0))
    BY <1>6 DEF Confirm, Fate, Shut, Healthy, Reach
  <2>2. Ahead > 0
    <3>1. Losses \in Nat /\ Losses # 0
      BY CostGrows
    <3>2. Ahead = Losses \/ (Ahead = hub.wait /\ hub.wait > 0)
      BY <2>1 DEF Ahead
    <3>3. QED
      BY <1>4, <3>1, <3>2
  <2>3. ~(n + 1 >= ConfirmTries)
    BY <1>1, <1>3, <1>4, <2>2
  <2>4. mods' = mods /\ run' = [run EXCEPT !.tries = n + 1]
    BY <1>2, <1>6, <2>3 DEF Confirm
  <2>5. run'.ph = "confirm" /\ run'.tries = n + 1 /\ run'.target = u
    BY <1>1, <2>4 DEF RunType
  <2>6. Ahead' <= Ahead - 1 /\ Ahead' \in Nat
    <3>1. PICK h \in HubType :
            /\ hub' = Paused(h) /\ h.ch = Chan[u] /\ ~h.settled
            /\ h.wait = IF Reach(u) THEN hub.wait ELSE SettleWaits
      BY <1>1, <1>6, <2>1, HubAfterEffect DEF Confirm
    <3>2. /\ hub'.ch = Chan[u] /\ ~hub'.settled
          /\ hub'.wait = IF h.wait = 0 THEN 0 ELSE h.wait - 1
      BY <3>1, HubTypes
    <3>3. Ahead' = hub'.wait
      BY <2>1, <2>5, <3>2 DEF Ahead, Reach
    <3>4. CASE Reach(u)
      BY <1>4, <2>1, <3>1, <3>2, <3>3, <3>4 DEF Ahead
    <3>5. CASE ~Reach(u)
      BY <1>4, <3>1, <3>2, <3>3, <3>5 DEF Ahead, Losses
    <3>6. QED
      BY <3>4, <3>5
  <2>7. run'.tries + Ahead' <= Cost(foreign)
    BY <1>2, <1>3, <1>4, <2>5, <2>6
  <2>8. TryInv'
    BY <1>1, <2>4, <2>5, <2>7 DEF HealthInv, TryInv, Watched
  <2>9. SessionInv'
    BY <2>5 DEF SessionInv, GroupInv, Outside, Open
  <2>10. QED
    BY <2>4, <2>8, <2>9, HealthRowsKept DEF HealthInv, HealthySucceeds, In
<1>7. QED
  BY <1>5, <1>6

-----------------------------------------------------------------------------
(* The console, the bridges and time.                                      *)

\* Steps that at most calm the bus down, cross to the group or wait for the hub
LEMMA HealthFrame ==
    ASSUME TypeOK, HealthInv,
           mods' = mods, grp' = grp, dev' = dev, foreign' = foreign,
           run'.active = run.active, run'.ph = run.ph, run'.tries = run.tries,
           quiet => quiet',
           Away' => Away,
           run.ph = "confirm" => Ahead' \in Nat /\ Ahead' <= Ahead
    PROVE  HealthInv'
<1>1. \A u \in Ids : Watched(u)' /\ Hurt(u)' => Watched(u) /\ Hurt(u)
  BY DEF Watched, Hurt
<1>2. /\ Ahead \in Nat /\ run.tries \in Nat
      /\ Cost(foreign) \in Nat /\ Cost(foreign)' = Cost(foreign)
  BY AheadType, CostGrows DEF TypeOK, RunType, Cost, Losses
<1>3. TryInv'
  BY <1>1, <1>2 DEF HealthInv, TryInv
<1>4. SessionInv'
  BY DEF HealthInv, SessionInv, In
<1>5. QED
  BY <1>3, <1>4, HealthRowsKept DEF HealthInv, HealthySucceeds, In

LEMMA HealthCalm ==
    ASSUME TypeOK, HealthInv
    PROVE  /\ RequestAbort \/ Lull \/ Settle \/ Park => HealthInv'
           /\ \A u \in Ids : Release(u) => HealthInv'
           /\ UNCHANGED vars => HealthInv'
<1>1. run \in RunType /\ hub \in HubType /\ Ahead \in Nat /\ Ahead <= Losses
  BY AheadType DEF TypeOK
<1>2. RequestAbort => HealthInv'
  <2>1. ASSUME RequestAbort
        PROVE  /\ run'.active = run.active /\ run'.ph = run.ph
               /\ run'.tries = run.tries /\ run'.target = run.target
    BY <1>1, <2>1 DEF RequestAbort, RunType
  <2>2. RequestAbort => hub' = hub /\ Away' = Away
    BY DEF RequestAbort, Away
  <2>3. RequestAbort => Ahead' = Ahead
    BY <2>1, <2>2 DEF Ahead, Reach
  <2>4. QED
    BY <1>1, <2>1, <2>2, <2>3, HealthFrame DEF RequestAbort
<1>3. ASSUME UNCHANGED <<run, grp, hub>> PROVE Away' = Away /\ Ahead' = Ahead
  BY <1>3 DEF Away, Ahead, Reach
<1>4. Lull => HealthInv'
  BY <1>1, <1>3, HealthFrame DEF Lull
<1>5. Settle => HealthInv'
  <2>1. Settle => hub'.ch = hub.ch /\ hub'.settled /\ run' = run /\ grp' = grp
    BY <1>1, HubTypes DEF Settle, HubType
  <2>2. Settle => (Away' => Away)
    BY <2>1 DEF Away
  <2>3. Settle => Ahead' \in Nat /\ Ahead' <= Ahead
    BY <1>1, <2>1, CostGrows DEF Ahead, Reach
  <2>4. QED
    BY <2>1, <2>2, <2>3, HealthFrame DEF Settle
<1>6. Park => HealthInv'
  <2>1. Park => Away /\ run.ph # "confirm" /\ run' = run
    BY DEF Park, At, Away, Silently, Quietly
  <2>2. QED
    BY <2>1, HealthFrame DEF Park, Silently, Quietly
<1>7. \A u \in Ids : Release(u) => HealthInv'
  BY <1>1, <1>3, HealthFrame DEF Release
<1>8. UNCHANGED vars => HealthInv'
  BY <1>1, <1>3, HealthFrame DEF vars
<1>9. QED
  BY <1>2, <1>4, <1>5, <1>6, <1>7, <1>8

\* A request of others is what pays for a try.
LEMMA HealthForeign ==
    ASSUME TypeOK, HealthInv, NEW v \in Ids, Foreign(v)
    PROVE  HealthInv'
<1>1. /\ run' = run /\ mods' = mods /\ grp' = grp /\ dev' = dev
      /\ foreign' = foreign + 1 /\ foreign < MaxForeign
      /\ foreign \in Nat /\ MaxForeign \in Nat
      /\ run \in RunType /\ mods \in [Ids -> RowType]
  BY OtaAssumption DEF TypeOK, Foreign, OtaAssumption
<1>2. run.tries \in Nat /\ \A u \in Ids : mods[u].tries \in Nat
  BY <1>1 DEF RunType, RowType
<1>3. \A u \in Ids : mods'[u].tries < foreign'
  BY <1>1, <1>2 DEF HealthInv, TryInv
<1>4. foreign' <= MaxForeign /\ \A u \in Ids : mods'[u].tries <= foreign'
  BY <1>1, <1>2 DEF HealthInv, TryInv
<1>5. run'.active /\ run'.ph = "confirm" => run'.tries + Ahead' <= Cost(foreign')
  <2>1. hub'.wait \in 0..SettleWaits
    <3>1. hub \in HubType /\ Chan[v] \in Nat /\ SettleWaits \in 0..SettleWaits
      BY Constants DEF TypeOK
    <3>2. QED
      BY <3>1, HubTypes DEF Foreign, HubType
  <2>2. Ahead' \in Nat /\ Ahead' <= Losses
    <3>1. /\ hub'.wait \in Nat /\ hub'.wait <= SettleWaits /\ SettleWaits \in Nat
          /\ Losses \in Nat /\ SettleWaits <= Losses
      BY <2>1, CostGrows, Constants
    <3>2. hub'.wait <= Losses
      BY <3>1
    <3>3. Ahead' \in {Losses, 0, hub'.wait}
      BY DEF Ahead, Losses
    <3>4. QED
      BY <3>1, <3>2, <3>3
  <2>3. run.active /\ run.ph = "confirm" => run.tries <= Cost(foreign)
    <3>1. Ahead \in Nat /\ Cost(foreign) \in Nat
      BY <1>1, AheadType, CostGrows
    <3>2. run.active /\ run.ph = "confirm" => run.tries + Ahead <= Cost(foreign)
      BY DEF HealthInv, TryInv
    <3>3. QED
      BY <1>2, <3>1, <3>2
  <2>4. Cost(foreign') = Cost(foreign) + Losses /\ Cost(foreign) \in Nat /\ Losses \in Nat
    BY <1>1, CostGrows
  <2>5. QED
    BY <1>1, <1>2, <2>2, <2>3, <2>4
<1>6. TryInv'
  BY <1>3, <1>4, <1>5 DEF TryInv
<1>7. SessionInv'
  BY <1>1 DEF HealthInv, SessionInv, In
<1>8. QED
  BY <1>1, <1>6, <1>7, HealthRowsKept DEF HealthInv, HealthySucceeds, In

\* A session expires only when others have kept the bus: that was paid for.
LEMMA HealthExpire ==
    ASSUME Healthy, TypeOK, HealthInv, NEW v \in Ids, Expire(v)
    PROVE  HealthInv'
<1>1. /\ run' = run /\ mods' = mods /\ grp' = grp /\ hub' = hub
      /\ quiet' = quiet /\ foreign' = foreign
      /\ dev \in [Ids -> DevType]
      /\ run.active => ~quiet
  BY DEF TypeOK, Expire, Healthy
<1>2. /\ dev'[v].state = "timedOut"
      /\ \A u \in Ids \ {v} : dev'[u] = dev[u]
  BY <1>1 DEF Expire, DevType, DevRecord
<1>3. TryInv'
  <2>1. run.active => \A u \in Ids : Watched(u)' => Watched(u) /\ Hurt(u)
    BY <1>1 DEF Watched, Hurt
  <2>2. QED
    BY <1>1, <2>1 DEF HealthInv, TryInv, Ahead, Reach
<1>4. SessionInv'
  <2>1. In(Open)' = In(Open) /\ In(Open) \subseteq Ids
    BY <1>1 DEF In
  <2>2. QED
    BY <1>1, <1>2, <2>1 DEF HealthInv, SessionInv
<1>5. QED
  BY <1>1, <1>3, <1>4, HealthRowsKept DEF HealthInv, HealthySucceeds, In

LEMMA HealthConsole ==
    ASSUME TypeOK, GroupInv', HealthInv
    PROVE  /\ \A img \in Images : Start(img) => HealthInv'
           /\ \A H \in SUBSET Ids : Abort(H) => HealthInv'
           /\ \A torn, cycled \in BOOLEAN : Reset(torn, cycled) => HealthInv'
<1>1. foreign \in Nat /\ mods \in [Ids -> RowType]
  BY DEF TypeOK
<1>2. mods' = Fresh => \A u \in Ids : /\ mods'[u].tries <= foreign
                                      /\ mods'[u].st \notin {"noReply", "gaveUp", "failed"}
  BY <1>1 DEF Fresh
<1>3. ASSUME NEW img \in Images, Start(img) PROVE HealthInv'
  <2>1. run'.ph = "pick" /\ mods' = Fresh /\ foreign' = foreign
    BY <1>3 DEF Start, NoRun, Rows
  <2>2. QED
    BY <1>2, <2>1, HealthOutside
<1>4. ASSUME NEW H \in SUBSET Ids, Abort(H) PROVE HealthInv'
  <2>1. run'.active = FALSE /\ foreign' = foreign
    BY <1>4, AbortEffect, FinishEffect DEF Results, Quietly
  <2>2. \A u \in Ids : /\ mods'[u].tries = mods[u].tries
                       /\ mods'[u].st \in {mods[u].st, "pending"}
    BY <1>1, <1>4, AbortEffect DEF RowType
  <2>3. \A u \in Ids : /\ mods'[u].tries <= foreign
                       /\ mods'[u].st \notin {"noReply", "gaveUp", "failed"}
    BY <2>2 DEF HealthInv, TryInv, HealthySucceeds, In
  <2>4. QED
    BY <2>1, <2>3, HealthOutside
<1>5. ASSUME NEW torn \in BOOLEAN, NEW cycled \in BOOLEAN, Reset(torn, cycled)
      PROVE  HealthInv'
  <2>1. run'.active = FALSE /\ mods' = Fresh /\ foreign' = foreign
    BY <1>5 DEF Reset, NoRun
  <2>2. QED
    BY <1>2, <2>1, HealthOutside
<1>6. QED
  BY <1>3, <1>4, <1>5

\* Every step keeps the tries paid for.
LEMMA HealthStep ==
    ASSUME Healthy, FlowInv, OneChannel, ImageInv, HealthInv, [Next]_vars
    PROVE  HealthInv'
<1>1. /\ TypeOK /\ GroupInv /\ GroupInv'
  BY FlowStep DEF FlowInv
<1>2. CASE Step
  BY <1>1, <1>2, HealthPick, HealthProbe, HealthMeta, HealthEnter, HealthEnterCheck,
     HealthStream, HealthSkip, HealthRepair, HealthFinalize, HealthFinalizeRead,
     HealthApply, HealthConfirm, HealthCalm, HealthConsole DEF Step
<1>3. CASE ~Step
  BY <1>1, <1>3, HealthCalm, HealthForeign, HealthExpire, HealthConsole DEF Next
<1>4. QED
  BY <1>2, <1>3

\* On a bus that loses no frame but to crossings and to a hub that settles for
\* longer than bus.hub_budget_ms, where other callers interfere less often than
\* dropMember() retries (MAX_TRIES) and their crossings cost fewer reads than
\* CONFIRM_TRIES, a run writes nobody off: no module ends as M_NOREPLY, M_GAVEUP
\* or M_FAILED, whatever the crossings, expired sessions, aborts and resets in
\* between.
THEOREM HealthyRunsSucceed ==
    ASSUME Healthy
    PROVE  Spec => []HealthySucceeds
<1>1. Init => OneChannel /\ ImageInv /\ HealthInv
  <2>1. Init => OneChannel /\ ImageInv
    BY StartTypes DEF Init, OneChannel, ImageInv, RecordedIsTrue, In, NoRun, NoGroup
  <2>2. MaxForeign \in Nat /\ 0 <= MaxForeign
    BY OtaAssumption DEF OtaAssumption
  <2>3. Init => HealthInv
    BY <2>2 DEF Init, HealthInv, TryInv, SessionInv, HealthySucceeds, In, NoRun, Fresh
  <2>4. QED
    BY <2>1, <2>3
<1>2. FlowInv /\ OneChannel /\ ImageInv /\ HealthInv /\ [Next]_vars
        => OneChannel' /\ ImageInv' /\ HealthInv'
  <2>1. NoLeftovers
    BY DEF NoLeftovers, Healthy
  <2>2. QED
    BY <2>1, ChannelStep, ImageStep, HealthStep DEF FlowInv
<1>3. HealthInv => HealthySucceeds
  BY DEF HealthInv
<1>4. QED
  BY <1>1, <1>2, <1>3, FlowAlways, PTL DEF Spec
=============================================================================
