------------------------------ MODULE EventLog ------------------------------
(***************************************************************************)
(* The event log (src/src/event_log.cpp): a ring of records on the QSPI    *)
(* flash, and the collector that follows it with LOG SINCE                 *)
(* (src/src/gw_console.cpp).                                               *)
(*                                                                         *)
(* A record's home follows from its number, so the head is not stored: a   *)
(* boot finds it by scanning.  A sector is erased when the first record of *)
(* it is written.  The power may fail, and the flash may report an error,  *)
(* in or between the erase and the program; an error turns the log off     *)
(* until the next boot.  A record whose erase is cut short reads blank or  *)
(* as it was.  One whose program is cut short has a damaged body, and its  *)
(* number may come out too large by a member of TornBy.                    *)
(*                                                                         *)
(* Coil writes pass a token bucket first; what it refuses is counted and   *)
(* reported by a summary record.                                           *)
(***************************************************************************)
EXTENDS Integers, FiniteSets, Sequences

CONSTANTS
    Sectors,       \* erase units of the window (384)
    PerSector,     \* records in one (256)
    WalkMax,       \* how far eventLog_oldest() walks (300)
    Burst,         \* COIL_EV_BURST
    Refill,        \* tokens per tick of time
    ReportEvery,   \* ticks between two summaries (60 s)
    Wants,         \* numbers of records a collector asks for at once
    TornBy,        \* by how much a torn number may exceed the real one
    MaxSeq,        \* bound on the records written
    MaxWrites,     \* bound on the coil writes of one boot
    Horizon,       \* bound on the uptime of one boot
    MaxFaults      \* bound on the resets and flash errors followed

ASSUME LogAssumption ==
    /\ {Sectors, PerSector} \subseteq Nat \ {0} /\ Sectors > 1
    /\ WalkMax \in Nat /\ WalkMax >= PerSector
    /\ {Burst, Refill, ReportEvery} \subseteq Nat \ {0}
    /\ Wants \subseteq Nat \ {0} /\ TornBy \subseteq Nat
    /\ {MaxSeq, MaxWrites, Horizon, MaxFaults} \subseteq Nat

VARIABLES
    phase,     \* the gateway: down, in eventLog_begin(), or up
    ok,        \* _ok
    next,      \* _nextSeq
    num,       \* the number in each record of the ring, Blank when erased
    body,      \* the rest of it
    up,        \* millis() of this boot
    bucket,    \* _coilTokens, _coilLastMs
    dropped,   \* _coilDropped
    reportAt,  \* _dropReportMs
    since      \* the number the collector goes on from

\* History: read by no guard but the bounds.
VARIABLES
    notes,     \* records anybody wanted written, which tells them apart
    faults,    \* resets and flash errors so far
    coils,     \* of this boot: coil writes seen, when they and the summaries
               \* of those refused cost a record
    got,       \* what the collector was sent: number and record
    told       \* the numbers a reply with gap= spoke of

flash == <<num, body>>
limits == <<bucket, dropped, reportAt>>
collector == <<since, got, told>>
vars == <<phase, ok, next, num, body, up, bucket, dropped, reportAt, since,
          notes, faults, coils, got, told>>

Records == Sectors * PerSector
Places == 0..(Records - 1)
Blank == -1
Damaged == 0

-----------------------------------------------------------------------------
(* The ring.                                                               *)

\* offsetOfSeq()
Home(s) == (s - 1) % Records
StartsSector(p) == p % PerSector = 0
SectorOf(p) == {q \in Places : q \div PerSector = p \div PerSector}

\* scanForHead(), pass 1: the sector whose first record has the largest number
Firsts == {p \in Places : StartsSector(p) /\ num[p] \notin {Blank, 0}}
Winner(p) == p \in Firsts /\ \A q \in Firsts : num[q] <= num[p]

\* Seeded fault: the walk leaves out the last record of the sector.
LastOfShort(p, q) ==
    /\ {q, q + 1} \subseteq SectorOf(p)
    /\ \A r \in p..q : num[r] # Blank
    /\ q + 2 \in SectorOf(p) => num[q + 1] = Blank

\* pass 2: q is its last record before the first blank one
LastOf(p, q) ==
    /\ q \in SectorOf(p)
    /\ \A r \in p..q : num[r] # Blank
    /\ q + 1 \in SectorOf(p) => num[q + 1] = Blank

ScanForHead ==
    IF Firsts = {} THEN 1
    ELSE num[CHOOSE q \in Places : \E p \in Places : Winner(p) /\ LastOf(p, q)] + 1

\* eventLog_read(newest - s): the record is still in its place
Reads(s) == ok /\ s \in 1..(next - 1) /\ next - s <= Records /\ num[Home(s)] = s

\* eventLog_oldest(): walk forward from the nominal oldest
Oldest ==
    LET newest == next - 1
        start  == IF newest >= Records THEN newest - (Records - 1) ELSE 1
        found  == {s \in start..(start + WalkMax - 1) : Reads(s)}
    IN  IF ~ok \/ newest = 0 THEN 0
        ELSE IF found = {} THEN newest
        ELSE CHOOSE s \in found : \A t \in found : s <= t

-----------------------------------------------------------------------------
(* Writing a record.                                                       *)

\* What eventLog_note() leaves on the flash when it gets as far as o
Steps == {"nothing", "erasing", "damaged", "written"}

\* Entering a sector erases it first; cut short, the erase is partial.
ToErase == IF StartsSector(Home(next)) THEN SectorOf(Home(next)) ELSE {}
MayErase(o) ==
    CASE o = "nothing" -> {{}}
      [] o = "erasing" -> SUBSET ToErase
      [] OTHER         -> {ToErase}

Torn(o) == IF o = "damaged" THEN {0} \cup TornBy ELSE {0}

Program(o) ==
    \E gone \in MayErase(o), t \in Torn(o) :
        LET here(p) == p = Home(next) /\ o \in {"damaged", "written"}
        IN  /\ num' = [p \in Places |-> IF here(p) THEN next + t
                                        ELSE IF p \in gone THEN Blank ELSE num[p]]
            /\ body' = [p \in Places |->
                           IF here(p) THEN IF o = "written" THEN notes + 1 ELSE Damaged
                           ELSE IF p \in gone THEN Blank ELSE body[p]]

\* eventLog_note() while the log is on: the record is there, or an error
\* somewhere on the way has turned the log off
Noted ==
    /\ next <= MaxSeq
    /\ notes' = notes + 1
    /\ \/ /\ Program("written")
          /\ next' = next + 1
          /\ UNCHANGED <<ok, faults>>
       \/ /\ faults < MaxFaults
          /\ \E o \in Steps : Program(o)
          /\ ok' = FALSE
          /\ faults' = faults + 1
          /\ UNCHANGED next

\* eventLog_note(): nothing when the log is off
Note == IF ok THEN Noted ELSE UNCHANGED <<ok, next, num, body, notes, faults>>

-----------------------------------------------------------------------------
(* The coil events.                                                        *)

NoCoils == [reports |-> <<>>, seen |-> 0, stored |-> <<>>]

\* Seeded fault: an idle bucket fills beyond the burst.
TokensUncapped == bucket.tokens + (up - bucket.at) * Refill

\* the tokens after the refill of eventLog_noteCoil()
Tokens ==
    LET t == bucket.tokens + (up - bucket.at) * Refill
    IN  IF t < Burst THEN t ELSE Burst

\* A TCP client wrote a coil: eventLog_noteCoil()
CoilWrite ==
    /\ phase = "up"
    /\ coils.seen < MaxWrites
    /\ ok
    /\ IF Tokens = 0
       THEN /\ dropped' = dropped + 1
            /\ bucket' = [tokens |-> 0, at |-> up]
            /\ coils' = [coils EXCEPT !.seen = @ + 1]
            /\ UNCHANGED <<ok, next, num, body, notes, faults>>
       ELSE /\ bucket' = [tokens |-> Tokens - 1, at |-> up]
            /\ Noted
            /\ coils' = [coils EXCEPT !.seen = @ + 1,
                                      !.stored = Append(@, up)]
            /\ UNCHANGED dropped
    /\ UNCHANGED <<phase, up, reportAt, collector>>

\* eventLog_update(): the summary of what was refused.  (The summary of the
\* healing is one more Event.)
SummaryDue == ok /\ dropped # 0 /\ up - reportAt >= ReportEvery

Summary ==
    /\ phase = "up"
    /\ SummaryDue
    /\ reportAt' = up
    /\ Noted
    /\ dropped' = 0
    /\ coils' = [coils EXCEPT !.reports = Append(@, up)]
    /\ UNCHANGED <<phase, up, bucket, collector>>

-----------------------------------------------------------------------------
(* Boots, other events, the collector, time.                               *)

\* eventLog_begin() up to its own record: the head is found, or the flash
\* does not answer and the log stays off.
Begin(works) ==
    /\ phase = "down"
    /\ ~works => faults < MaxFaults
    /\ faults' = IF works THEN faults ELSE faults + 1
    /\ ok' = works
    /\ next' = IF works THEN ScanForHead ELSE 1
    /\ phase' = "boot"
    /\ up' = 0
    /\ bucket' = [tokens |-> Burst, at |-> 0]
    /\ dropped' = 0 /\ reportAt' = 0
    /\ coils' = NoCoils
    /\ UNCHANGED <<flash, notes, collector>>

\* ... and the boot event
BootNote ==
    /\ phase = "boot"
    /\ phase' = "up"
    /\ Note
    /\ UNCHANGED <<up, limits, coils, collector>>

\* Any other part of the gateway notes something.
Event ==
    /\ phase = "up"
    /\ ok /\ Noted
    /\ UNCHANGED <<phase, up, limits, coils, collector>>

\* The power fails, or the gateway is reset, between two records or in one.
Down(o) ==
    /\ phase # "down"
    /\ faults < MaxFaults
    /\ faults' = faults + 1
    /\ o # "nothing" => ok /\ next <= MaxSeq
    /\ Program(o)
    /\ notes' = IF o = "nothing" THEN notes ELSE notes + 1
    /\ phase' = "down"
    /\ ok' = FALSE
    /\ UNCHANGED <<next, up, limits, coils, collector>>

Largest(set) == CHOOSE s \in set : \A t \in set : t <= s

\* Seeded fault: what lies before the oldest record is passed over in silence.
GapInside(passed, sent, skipped) == IF sent # passed THEN 1 ELSE 0

\* gap= of a reply that has passed some numbers and sent some of them
Gap(passed, sent, skipped) == IF skipped \/ sent # passed THEN 1 ELSE 0

\* doLogSince(): the reply to LOG SINCE <since> <want>.  Records that are gone
\* are passed over until want have been sent.
Reply(want) ==
    LET newest   == next - 1
        oldest   == Oldest
        from     == IF oldest > since + 1 THEN oldest ELSE since + 1
        readable == {s \in from..newest : Reads(s)}
        sent     == {s \in readable : Cardinality({t \in readable : t < s}) < want}
        passed   == from..(IF Cardinality(sent) = want THEN Largest(sent) ELSE newest)
    IN  IF since > newest
        THEN [sent |-> {}, next |-> newest, gap |-> 2]
        ELSE [sent |-> sent,
              next |-> IF sent = {} THEN since ELSE Largest(sent),
              gap  |-> Gap(passed, sent, from # since + 1)]

\* LOG SINCE, asked by a collector that goes on from next=
Collect(want) ==
    /\ phase = "up"
    /\ ok
    /\ LET reply == Reply(want)
       IN  /\ since' = reply.next
           /\ got' = got \cup {<<s, body[Home(s)]>> : s \in reply.sent}
           /\ told' = IF reply.gap = 0 THEN told ELSE told \cup ((since + 1)..reply.next)
    /\ UNCHANGED <<phase, ok, next, flash, up, limits, notes, faults, coils>>

Tick ==
    /\ phase = "up"
    /\ up < Horizon
    /\ up' = up + 1
    /\ UNCHANGED <<phase, ok, next, flash, limits, notes, faults, coils, collector>>

\* A board whose window has never been written
Init ==
    /\ phase = "down"
    /\ ok = FALSE
    /\ next = 1
    /\ num = [p \in Places |-> Blank] /\ body = [p \in Places |-> Blank]
    /\ up = 0
    /\ bucket = [tokens |-> Burst, at |-> 0]
    /\ dropped = 0 /\ reportAt = 0
    /\ since = 0
    /\ notes = 0 /\ faults = 0
    /\ coils = NoCoils
    /\ got = {} /\ told = {}

Next ==
    \/ \E works \in BOOLEAN : Begin(works)
    \/ BootNote
    \/ Event
    \/ CoilWrite
    \/ Summary
    \/ \E o \in Steps : Down(o)
    \/ \E want \in Wants : Collect(want)
    \/ Tick

Spec == Init /\ [][Next]_vars

-----------------------------------------------------------------------------
(* Properties.                                                             *)

\* The ring and the head a boot finds in it are the log event_log.h promises,
\* whatever the power or the flash did: no number is used twice, no record
\* changes, only the oldest are lost.
InRing ==
    LET newest == ScanForHead - 1
    IN  {s \in (newest - Records + 1)..newest : s > 0 /\ num[Home(s)] = s}
Promise == INSTANCE LogPromise WITH
    Keep <- Records - PerSector + 1,
    held <- [s \in InRing |-> body[Home(s)]]
KeepsLog == Promise!Spec

\* A collector that goes on from next= has every record up to there or was
\* told of a gap, and what it has is what the ring holds under that number,
\* resets, overwritten sectors and damaged slots included.
CollectorKnows ==
    /\ \A s \in 1..since : s \in told \/ \E r \in got : r[1] = s
    /\ LET head == ScanForHead IN \A r \in got : r[1] < head
    /\ \A r, q \in got : r[1] = q[1] => r = q
    /\ ok => \A r \in got : Reads(r[1]) => body[Home(r[1])] = r[2]

\* "Flash endurance and the ring's depth are what this protects": whatever the
\* clients do, no stretch of a boot costs more records for coil writes than one
\* burst and the refill of that time, and more for the summaries than fit in it.
CoilsPaced ==
    /\ \A i, j \in DOMAIN coils.stored : i <= j =>
           j - i + 1 <= Burst + Refill * (coils.stored[j] - coils.stored[i])
    /\ \A i, j \in DOMAIN coils.reports : i <= j =>
           (j - i) * ReportEvery <= coils.reports[j] - coils.reports[i]
=============================================================================
