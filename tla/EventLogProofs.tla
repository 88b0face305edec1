--------------------------- MODULE EventLogProofs ---------------------------
(***************************************************************************)
(* The log of event_log.cpp: coil writes are rationed, the ring implements *)
(* the promise of LogPromise, and a collector is told what it misses, for  *)
(* every geometry of the ring and every burst and refill.                  *)
(*                                                                         *)
(* CoilsPaced looks at any two records; the bucket knows only the last     *)
(* refill.  What the steps preserve ties the two: from any record on, the  *)
(* records stored and the tokens left are covered by one burst and the     *)
(* refill of the time since it.                                            *)
(*                                                                         *)
(* The ring rests on one predicate, Ring(num, n): what the flash holds     *)
(* when the next record is to be number n, whatever was cut short before.  *)
(* It determines n, the boot scan finds that n, and every step of a write, *)
(* a reset or an erase keeps it for n or for n + 1.                        *)
(***************************************************************************)
EXTENDS EventLog, FiniteSetTheorems, WellFoundedInduction, TLAPS

\* The limiter's own part of the types.
LimiterTypeOK ==
    /\ up \in Nat
    /\ bucket \in [tokens : 0..Burst, at : Nat]
    /\ reportAt \in Nat
    /\ coils \in [reports : Seq(Nat), seen : Nat, stored : Seq(Nat)]

\* The records stored up to now, with the tokens left at the last refill, are
\* covered from every one of them on.
Covers(stored, tokens, at) ==
    \A i \in 1..Len(stored) :
        /\ stored[i] <= at
        /\ Len(stored) - i + 1 + tokens <= Burst + Refill * (at - stored[i])

Paced(stored) ==
    \A i, j \in 1..Len(stored) : i <= j =>
        j - i + 1 <= Burst + Refill * (stored[j] - stored[i])

\* The summaries up to the last one lie ReportEvery apart.
Spaced(reports, at) ==
    \A i \in 1..Len(reports) : (Len(reports) - i) * ReportEvery <= at - reports[i]

Apart(reports) ==
    \A i, j \in 1..Len(reports) : i <= j =>
        (j - i) * ReportEvery <= reports[j] - reports[i]

LimiterInv ==
    /\ LimiterTypeOK
    /\ bucket.at <= up /\ reportAt <= up
    /\ Covers(coils.stored, bucket.tokens, bucket.at) /\ Paced(coils.stored)
    /\ Spaced(coils.reports, reportAt) /\ Apart(coils.reports)

limiter == <<up, bucket, reportAt, coils>>

-----------------------------------------------------------------------------
(* Arithmetic: the refill of two stretches is that of both.                *)

LEMMA RefillAdds ==
    ASSUME NEW r \in Nat, NEW a \in Nat, NEW b \in Nat, NEW c \in Nat
    PROVE  /\ r * (b - a) + r * (c - b) = r * (c - a)
           /\ r * (b - a) \in Int /\ r * (c - b) \in Int /\ r * (c - a) \in Int
           /\ r * (a - a) = 0
  BY SMT

LEMMA RefillStays ==
    ASSUME NEW r \in Nat, NEW b \in Nat, NEW c \in Nat, b <= c
    PROVE  /\ (c - b) * r = r * (c - b)
           /\ (c - b) * r \in Nat
  BY SMT

LEMMA OneMore ==
    ASSUME NEW r \in Nat, NEW n \in Nat
    PROVE  /\ (n + 1) * r = n * r + r
           /\ n * r \in Nat
  BY SMT

LEMMA Appended ==
    ASSUME NEW s \in Seq(Nat), NEW u \in Nat
    PROVE  /\ Append(s, u) \in Seq(Nat)
           /\ Len(Append(s, u)) = Len(s) + 1
           /\ Append(s, u)[Len(s) + 1] = u
           /\ \A i \in 1..Len(s) : Append(s, u)[i] = s[i] /\ s[i] \in Nat
           /\ Len(s) \in Nat
  BY SMT

-----------------------------------------------------------------------------
(* The bucket.                                                             *)

\* Time passes, and what is left is no more than was left and the refill.
LEMMA CoversLater ==
    ASSUME NEW s \in Seq(Nat), NEW t \in Nat, NEW a \in Nat,
           NEW u \in Nat, NEW t2 \in Int, a <= u,
           Covers(s, t, a), t2 <= t + Refill * (u - a)
    PROVE  Covers(s, t2, u)
  <1>1. SUFFICES ASSUME NEW i \in 1..Len(s)
                 PROVE  s[i] <= u /\ Len(s) - i + 1 + t2 <= Burst + Refill * (u - s[i])
    BY DEF Covers
  <1>2. PICK x \in Nat : x = s[i]
    OBVIOUS
  <1>3. PICK m \in Int : m = Len(s) - i + 1
    <2>1. Len(s) - i + 1 \in Int
      BY Appended
    <2>2. QED
      BY <2>1
  <1>4. x <= a /\ m + t <= Burst + Refill * (a - x)
    BY <1>2, <1>3 DEF Covers
  <1>5. Burst \in Nat /\ Refill \in Nat
    BY LogAssumption
  <1>6. /\ Refill * (a - x) + Refill * (u - a) = Refill * (u - x)
        /\ Refill * (a - x) \in Int /\ Refill * (u - a) \in Int /\ Refill * (u - x) \in Int
    BY <1>5, RefillAdds
  <1>7. x <= u /\ m + t2 <= Burst + Refill * (u - x)
    BY <1>4, <1>5, <1>6
  <1>8. QED
    BY <1>2, <1>3, <1>7

\* A record more, a token less.
LEMMA CoversOneMore ==
    ASSUME NEW s \in Seq(Nat), NEW t \in 1..Burst, NEW u \in Nat,
           Covers(s, t, u)
    PROVE  Covers(Append(s, u), t - 1, u)
  <1>1. SUFFICES ASSUME NEW i \in 1..(Len(s) + 1)
                 PROVE  /\ Append(s, u)[i] <= u
                        /\ Len(s) + 1 - i + 1 + (t - 1)
                               <= Burst + Refill * (u - Append(s, u)[i])
    BY Appended DEF Covers
  <1>2. Burst \in Nat /\ Refill \in Nat
    BY LogAssumption
  <1>3. CASE i = Len(s) + 1
    <2>1. Append(s, u)[i] = u /\ Refill * (u - u) = 0
      BY <1>2, <1>3, Appended, RefillAdds
    <2>2. QED
      BY <1>2, <1>3, <2>1, Appended
  <1>4. CASE i \in 1..Len(s)
    <2>1. /\ s[i] <= u
          /\ Len(s) - i + 1 + t <= Burst + Refill * (u - s[i])
      BY <1>4 DEF Covers
    <2>2. Append(s, u)[i] = s[i]
      BY <1>4, Appended
    <2>3. PICK m \in Int : m = Len(s) - i /\ Len(s) + 1 - i = m + 1
      <3>1. Len(s) - i \in Int /\ Len(s) + 1 - i = (Len(s) - i) + 1
        BY Appended
      <3>2. QED
        BY <3>1
    <2>4. m + 1 + t <= Burst + Refill * (u - s[i])
      BY <2>1, <2>3
    <2>5. m + 1 + 1 + (t - 1) = m + 1 + t
      BY <1>2
    <2>6. QED
      BY <2>1, <2>2, <2>3, <2>4, <2>5
  <1>5. QED
    BY <1>3, <1>4, Appended

LEMMA PacedOneMore ==
    ASSUME NEW s \in Seq(Nat), NEW t \in Nat, NEW u \in Nat,
           Paced(s), Covers(Append(s, u), t, u)
    PROVE  Paced(Append(s, u))
  <1>1. SUFFICES ASSUME NEW i \in 1..(Len(s) + 1), NEW j \in 1..(Len(s) + 1), i <= j
                 PROVE  j - i + 1 <= Burst + Refill * (Append(s, u)[j] - Append(s, u)[i])
    BY Appended DEF Paced
  <1>2. CASE j = Len(s) + 1
    <2>1. Append(s, u)[j] = u
      BY <1>2, Appended
    <2>2. Len(s) + 1 - i + 1 + t <= Burst + Refill * (u - Append(s, u)[i])
      BY Appended DEF Covers
    <2>3. PICK x \in Nat : x = Append(s, u)[i]
      BY Appended
    <2>4. PICK y \in Int : y = Burst + Refill * (u - x)
      <3>1. Burst \in Nat /\ Refill \in Nat
        BY LogAssumption
      <3>2. Refill * (u - x) \in Int
        BY <3>1, RefillAdds
      <3>3. Burst + Refill * (u - x) \in Int
        BY <3>1, <3>2
      <3>4. QED
        BY <3>3
    <2>5. j - i + 1 <= y
      BY <1>2, <2>2, <2>3, <2>4, Appended
    <2>6. QED
      BY <2>1, <2>3, <2>4, <2>5
  <1>3. CASE j \in 1..Len(s)
    <2>1. i \in 1..Len(s)
      BY <1>1, <1>3, Appended
    <2>2. Append(s, u)[i] = s[i] /\ Append(s, u)[j] = s[j]
      BY <1>3, <2>1, Appended
    <2>3. j - i + 1 <= Burst + Refill * (s[j] - s[i])
      BY <1>1, <1>3, <2>1 DEF Paced
    <2>4. QED
      BY <2>2, <2>3
  <1>4. QED
    BY <1>2, <1>3, Appended

\* What Tokens computes is at most the burst, and at most what was left and
\* the refill since.
LEMMA TokensBounded ==
    ASSUME LimiterTypeOK, bucket.at <= up
    PROVE  /\ Tokens \in 0..Burst
           /\ Tokens <= bucket.tokens + Refill * (up - bucket.at)
  <1>1. /\ bucket.tokens \in 0..Burst /\ bucket.at \in Nat /\ up \in Nat
        /\ Burst \in Nat /\ Refill \in Nat
    BY LogAssumption DEF LimiterTypeOK
  <1>2. PICK f \in Nat : f = (up - bucket.at) * Refill /\ f = Refill * (up - bucket.at)
    BY <1>1, RefillStays
  <1>3. Tokens = IF bucket.tokens + f < Burst THEN bucket.tokens + f ELSE Burst
    BY <1>2 DEF Tokens
  <1>4. Tokens \in 0..Burst /\ Tokens <= bucket.tokens + f
    BY <1>1, <1>3
  <1>5. QED
    BY <1>2, <1>4

\* A coil write that is refused leaves the records covered.
LEMMA RefusedKeeps ==
    ASSUME LimiterInv, Tokens = 0,
           bucket' = [tokens |-> 0, at |-> up],
           coils' = [coils EXCEPT !.seen = @ + 1],
           UNCHANGED <<up, reportAt>>
    PROVE  LimiterInv'
  <1>1. /\ bucket.tokens \in Nat /\ bucket.at \in Nat /\ up \in Nat
        /\ coils.stored \in Seq(Nat) /\ coils.seen \in Nat
        /\ 0 <= bucket.tokens + Refill * (up - bucket.at)
    BY TokensBounded, LogAssumption DEF LimiterInv, LimiterTypeOK
  <1>2. coils'.stored = coils.stored /\ coils'.reports = coils.reports
    BY DEF LimiterInv, LimiterTypeOK
  <1>3. LimiterTypeOK'
    <2>1. 0 \in 0..Burst
      BY LogAssumption
    <2>2. bucket' \in [tokens : 0..Burst, at : Nat]
      BY <1>1, <2>1
    <2>3. coils' \in [reports : Seq(Nat), seen : Nat, stored : Seq(Nat)]
      <3>1. coils.seen + 1 \in Nat
        BY <1>1
      <3>2. coils \in [reports : Seq(Nat), seen : Nat, stored : Seq(Nat)]
        BY DEF LimiterInv, LimiterTypeOK
      <3>3. QED
        BY <3>1, <3>2
    <2>4. QED
      BY <2>2, <2>3 DEF LimiterInv, LimiterTypeOK
  <1>4. Covers(coils.stored, 0, up)
    BY <1>1, CoversLater DEF LimiterInv
  <1>5. QED
    BY <1>1, <1>2, <1>3, <1>4 DEF LimiterInv, Covers, Paced, Spaced, Apart

\* A coil write that is stored costs a token of those that cover the rest.
LEMMA StoredKeeps ==
    ASSUME LimiterInv, Tokens # 0,
           bucket' = [tokens |-> Tokens - 1, at |-> up],
           coils' = [coils EXCEPT !.seen = @ + 1, !.stored = Append(@, up)],
           UNCHANGED <<up, reportAt>>
    PROVE  LimiterInv'
  <1>1. /\ bucket.tokens \in Nat /\ bucket.at \in Nat /\ up \in Nat
        /\ coils.stored \in Seq(Nat) /\ coils.seen \in Nat /\ Burst \in Nat
        /\ Tokens \in 1..Burst
        /\ Tokens <= bucket.tokens + Refill * (up - bucket.at)
    <2>1. /\ bucket.tokens \in 0..Burst /\ bucket.at \in Nat /\ up \in Nat
          /\ coils.stored \in Seq(Nat) /\ coils.seen \in Nat
      BY DEF LimiterInv, LimiterTypeOK
    <2>2. Burst \in Nat
      BY LogAssumption
    <2>3. /\ Tokens \in 0..Burst
          /\ Tokens <= bucket.tokens + Refill * (up - bucket.at)
      BY TokensBounded DEF LimiterInv
    <2>4. QED
      BY <2>1, <2>2, <2>3
  <1>2. coils'.stored = Append(coils.stored, up) /\ coils'.reports = coils.reports
    BY DEF LimiterInv, LimiterTypeOK
  <1>3. LimiterTypeOK'
    <2>1. bucket' \in [tokens : 0..Burst, at : Nat]
      BY <1>1
    <2>2. coils' \in [reports : Seq(Nat), seen : Nat, stored : Seq(Nat)]
      <3>1. Append(coils.stored, up) \in Seq(Nat) /\ coils.seen + 1 \in Nat
        BY <1>1, Appended
      <3>2. QED
        BY <3>1 DEF LimiterInv, LimiterTypeOK
    <2>3. QED
      BY <2>1, <2>2 DEF LimiterInv, LimiterTypeOK
  <1>4. Covers(coils.stored, Tokens, up)
    BY <1>1, CoversLater DEF LimiterInv
  <1>5. Covers(Append(coils.stored, up), Tokens - 1, up)
    BY <1>1, <1>4, CoversOneMore
  <1>6. Paced(Append(coils.stored, up))
    <2>1. Tokens - 1 \in Nat
      BY <1>1
    <2>2. QED
      BY <1>1, <1>5, <2>1, PacedOneMore DEF LimiterInv
  <1>7. bucket'.tokens = Tokens - 1 /\ bucket'.at = up
    OBVIOUS
  <1>8. Covers(coils.stored, bucket.tokens, bucket.at)' /\ Paced(coils.stored)'
    BY <1>2, <1>5, <1>6, <1>7 DEF Covers, Paced
  <1>9. Spaced(coils.reports, reportAt)' /\ Apart(coils.reports)'
    BY <1>2 DEF LimiterInv, Spaced, Apart
  <1>10. QED
    BY <1>1, <1>3, <1>7, <1>8, <1>9 DEF LimiterInv

-----------------------------------------------------------------------------
(* The summaries.                                                          *)

LEMMA SpacedOneMore ==
    ASSUME NEW s \in Seq(Nat), NEW a \in Nat, NEW u \in Nat,
           u - a >= ReportEvery, Spaced(s, a)
    PROVE  Spaced(Append(s, u), u)
  <1>1. SUFFICES ASSUME NEW i \in 1..(Len(s) + 1)
                 PROVE  (Len(s) + 1 - i) * ReportEvery <= u - Append(s, u)[i]
    BY Appended DEF Spaced
  <1>2. ReportEvery \in Nat
    BY LogAssumption
  <1>3. CASE i = Len(s) + 1
    <2>1. Append(s, u)[i] = u /\ Len(s) + 1 - i = 0
      BY <1>3, Appended
    <2>2. QED
      BY <1>2, <2>1
  <1>4. CASE i \in 1..Len(s)
    <2>1. PICK m \in Nat : m = Len(s) - i /\ Len(s) + 1 - i = m + 1
      <3>1. Len(s) - i \in Nat /\ Len(s) + 1 - i = (Len(s) - i) + 1
        BY <1>4, Appended
      <3>2. QED
        BY <3>1
    <2>2. PICK x \in Nat : x = s[i] /\ x = Append(s, u)[i]
      BY <1>4, Appended
    <2>3. m * ReportEvery <= a - x
      BY <1>4, <2>1, <2>2 DEF Spaced
    <2>4. (m + 1) * ReportEvery = m * ReportEvery + ReportEvery /\ m * ReportEvery \in Nat
      BY <1>2, OneMore
    <2>5. (m + 1) * ReportEvery <= u - x
      BY <1>2, <2>3, <2>4
    <2>6. QED
      BY <2>1, <2>2, <2>5
  <1>5. QED
    BY <1>3, <1>4, Appended

LEMMA ApartOneMore ==
    ASSUME NEW s \in Seq(Nat), NEW u \in Nat,
           Apart(s), Spaced(Append(s, u), u)
    PROVE  Apart(Append(s, u))
  <1>1. SUFFICES ASSUME NEW i \in 1..(Len(s) + 1), NEW j \in 1..(Len(s) + 1), i <= j
                 PROVE  (j - i) * ReportEvery <= Append(s, u)[j] - Append(s, u)[i]
    BY Appended DEF Apart
  <1>2. CASE j = Len(s) + 1
    BY <1>2, Appended DEF Spaced
  <1>3. CASE j \in 1..Len(s)
    <2>1. i \in 1..Len(s)
      BY <1>1, <1>3, Appended
    <2>2. Append(s, u)[i] = s[i] /\ Append(s, u)[j] = s[j]
      BY <1>3, <2>1, Appended
    <2>3. (j - i) * ReportEvery <= s[j] - s[i]
      BY <1>1, <1>3, <2>1 DEF Apart
    <2>4. QED
      BY <2>2, <2>3
  <1>4. QED
    BY <1>2, <1>3, Appended

\* A summary comes no sooner than ReportEvery after the one before.
LEMMA SummaryKeeps ==
    ASSUME LimiterInv, SummaryDue, reportAt' = up,
           coils' = [coils EXCEPT !.reports = Append(@, up)],
           UNCHANGED <<up, bucket>>
    PROVE  LimiterInv'
  <1>1. /\ up \in Nat /\ reportAt \in Nat /\ up - reportAt >= ReportEvery
        /\ coils.reports \in Seq(Nat)
    BY DEF LimiterInv, LimiterTypeOK, SummaryDue
  <1>2. coils'.stored = coils.stored /\ coils'.reports = Append(coils.reports, up)
    BY DEF LimiterInv, LimiterTypeOK
  <1>3. LimiterTypeOK'
    BY <1>1, Appended DEF LimiterInv, LimiterTypeOK
  <1>4. Spaced(Append(coils.reports, up), up)
    BY <1>1, SpacedOneMore DEF LimiterInv
  <1>5. Apart(Append(coils.reports, up))
    BY <1>1, <1>4, ApartOneMore DEF LimiterInv
  <1>6. Spaced(coils.reports, reportAt)' /\ Apart(coils.reports)'
    BY <1>2, <1>4, <1>5 DEF Spaced, Apart
  <1>7. Covers(coils.stored, bucket.tokens, bucket.at)' /\ Paced(coils.stored)'
    BY <1>2 DEF LimiterInv, Covers, Paced
  <1>8. QED
    BY <1>1, <1>3, <1>6, <1>7 DEF LimiterInv

-----------------------------------------------------------------------------
(* Every step.                                                             *)

LEMMA LimiterStep == LimiterInv /\ [Next]_vars => LimiterInv'
  <1>1. SUFFICES ASSUME LimiterInv, [Next]_vars
                 PROVE  LimiterInv'
    OBVIOUS
  <1>2. ASSUME UNCHANGED limiter
        PROVE  LimiterInv'
    BY <1>1, <1>2 DEF limiter, LimiterInv, LimiterTypeOK, Covers, Paced, Spaced, Apart
  <1>3. ASSUME NEW works \in BOOLEAN, Begin(works)
        PROVE  LimiterInv'
    <2>1. /\ up' = 0 /\ bucket' = [tokens |-> Burst, at |-> 0] /\ reportAt' = 0
          /\ coils' = [reports |-> <<>>, seen |-> 0, stored |-> <<>>]
      BY <1>3 DEF Begin, NoCoils
    <2>2. /\ coils'.stored = <<>> /\ coils'.reports = <<>>
          /\ Len(<<>>) = 0
      BY <2>1
    <2>3. LimiterTypeOK'
      BY <2>1, LogAssumption DEF LimiterTypeOK
    <2>4. /\ Covers(coils.stored, bucket.tokens, bucket.at)' /\ Paced(coils.stored)'
          /\ Spaced(coils.reports, reportAt)' /\ Apart(coils.reports)'
      BY <2>2 DEF Covers, Paced, Spaced, Apart
    <2>5. QED
      BY <2>1, <2>3, <2>4 DEF LimiterInv
  <1>4. CASE CoilWrite
    <2>1. CASE Tokens = 0
      BY <1>1, <1>4, <2>1, RefusedKeeps DEF CoilWrite
    <2>2. CASE Tokens # 0
      BY <1>1, <1>4, <2>2, StoredKeeps DEF CoilWrite
    <2>3. QED
      BY <2>1, <2>2
  <1>5. CASE Summary
    BY <1>1, <1>5, SummaryKeeps DEF Summary
  <1>6. CASE Tick
    <2>1. up' = up + 1 /\ UNCHANGED <<bucket, reportAt, coils>>
      BY <1>6 DEF Tick, limits
    <2>2. LimiterTypeOK' /\ (bucket.at <= up /\ reportAt <= up)'
      BY <1>1, <2>1 DEF LimiterInv, LimiterTypeOK
    <2>3. /\ Covers(coils.stored, bucket.tokens, bucket.at)' /\ Paced(coils.stored)'
          /\ Spaced(coils.reports, reportAt)' /\ Apart(coils.reports)'
      BY <1>1, <2>1 DEF LimiterInv, Covers, Paced, Spaced, Apart
    <2>4. QED
      BY <2>2, <2>3 DEF LimiterInv
  <1>7. CASE BootNote
    BY <1>2, <1>7 DEF BootNote, limits, limiter
  <1>8. CASE Event
    BY <1>2, <1>8 DEF Event, limits, limiter
  <1>9. ASSUME NEW o \in Steps, Down(o)
        PROVE  LimiterInv'
    BY <1>2, <1>9 DEF Down, limits, limiter
  <1>10. ASSUME NEW want \in Wants, Collect(want)
         PROVE  LimiterInv'
    BY <1>2, <1>10 DEF Collect, limits, limiter
  <1>11. CASE UNCHANGED vars
    BY <1>2, <1>11 DEF vars, limits, limiter
  <1>12. QED
    BY <1>1, <1>3, <1>4, <1>5, <1>6, <1>7, <1>8, <1>9, <1>10, <1>11 DEF Next

LEMMA LimiterInit == Init => LimiterInv
  <1>1. SUFFICES ASSUME Init
                 PROVE  LimiterInv
    OBVIOUS
  <1>2. /\ up = 0 /\ bucket = [tokens |-> Burst, at |-> 0] /\ reportAt = 0
        /\ coils = [reports |-> <<>>, seen |-> 0, stored |-> <<>>]
    BY <1>1 DEF Init, NoCoils
  <1>3. coils.stored = <<>> /\ coils.reports = <<>> /\ Len(<<>>) = 0
    BY <1>2
  <1>4. LimiterTypeOK
    BY <1>2, LogAssumption DEF LimiterTypeOK
  <1>5. /\ Covers(coils.stored, bucket.tokens, bucket.at) /\ Paced(coils.stored)
        /\ Spaced(coils.reports, reportAt) /\ Apart(coils.reports)
    BY <1>3 DEF Covers, Paced, Spaced, Apart
  <1>6. QED
    BY <1>2, <1>4, <1>5 DEF LimiterInv

\* Whatever the clients write and however the power and the flash behave, the
\* records eventLog_noteCoil() and its summaries cost stay within the burst and
\* the refill, for every burst, refill, period and size of the ring.
THEOREM CoilsArePaced == Spec => []CoilsPaced
  <1>1. LimiterInv => CoilsPaced
    <2>1. LimiterTypeOK => /\ DOMAIN coils.stored = 1..Len(coils.stored)
                           /\ DOMAIN coils.reports = 1..Len(coils.reports)
      BY DEF LimiterTypeOK
    <2>2. QED
      BY <2>1 DEF LimiterInv, CoilsPaced, Paced, Apart
  <1>2. QED
    BY <1>1, LimiterInit, LimiterStep, PTL DEF Spec

(***************************************************************************)
(* The ring.  A record's place and the beginning of its sector follow from *)
(* its number; Ring says what the flash holds when the next record is to   *)
(* be number n, whatever was cut short before.                             *)
(***************************************************************************)

\* The position of number s in its sector, and the first number of that sector.
Offset(s) == (s - 1) % PerSector
FirstOf(s) == s - Offset(s)

Ring(f, n) ==
    /\ f \in [Places -> Int]
    /\ \A p \in Places : f[p] # Blank =>
           f[p] \in 1..(n - 1) /\ f[p] >= n - Records /\ Home(f[p]) = p
    /\ \A s \in 1..(n - 1) : s >= FirstOf(n) - (Records - PerSector) => f[Home(s)] = s
    /\ Offset(n) # 0 => \A t \in n..(FirstOf(n) + PerSector - 1) : f[Home(t)] = Blank

\* Number n has just been written: from the sector after its own on, round the
\* ring to n, no number is missing, and what follows n in its sector is blank.
Whole(f, n) ==
    /\ \A s \in 1..n : s >= FirstOf(n) - (Records - PerSector) => f[Home(s)] = s
    /\ \A t \in (n + 1)..(FirstOf(n) + PerSector - 1) : f[Home(t)] = Blank

-----------------------------------------------------------------------------
(* Arithmetic of division.                                                 *)

\* Quotient and remainder.
LEMMA DivMod ==
    ASSUME NEW n \in Nat \ {0}, NEW a \in Int
    PROVE  a \div n \in Int /\ a % n \in 0..(n - 1) /\ a = n * (a \div n) + (a % n)
  OBVIOUS

\* There is one of each.
LEMMA DivUnique ==
    ASSUME NEW n \in Nat \ {0}, NEW q \in Int, NEW r \in 0..(n - 1)
    PROVE  (n * q + r) \div n = q /\ (n * q + r) % n = r
  <1> DEFINE a == n * q + r
             p == a \div n
             m == a % n
  <1>1. n * q \in Int /\ a \in Int
    OBVIOUS
  <1>2. p \in Int /\ m \in 0..(n - 1) /\ a = n * p + m
    BY <1>1
  <1>3. n * p \in Int /\ n * (p - q) = n * p - n * q /\ n * (q - p) = n * q - n * p
    BY <1>2
  <1>4. p = q
    <2>1. CASE p > q
      <3>1. p - q \in Nat \ {0}
        BY <1>2, <2>1
      <3>2. n * (p - q) >= n
        BY <3>1
      <3>3. QED
        BY <1>1, <1>2, <1>3, <3>2
    <2>2. CASE p < q
      <3>1. q - p \in Nat \ {0}
        BY <1>2, <2>2
      <3>2. n * (q - p) >= n
        BY <3>1
      <3>3. QED
        BY <1>1, <1>2, <1>3, <3>2
    <2>3. QED
      BY <1>2, <2>1, <2>2
  <1>5. m = r
    BY <1>1, <1>2, <1>4
  <1>6. QED
    BY <1>4, <1>5

\* A number and its remainder move together while the remainder stays one.
LEMMA ModShift ==
    ASSUME NEW n \in Nat \ {0}, NEW a \in Int, NEW d \in Int,
           (a % n) + d \in 0..(n - 1)
    PROVE  (a + d) % n = (a % n) + d
  <1>1. PICK q \in Int : a = n * q + (a % n)
    <2>1. a \div n \in Int /\ a = n * (a \div n) + (a % n)
      OBVIOUS
    <2>2. QED
      BY <2>1
  <1>2. a % n \in Int /\ n * q \in Int
    OBVIOUS
  <1>3. a + d = n * q + ((a % n) + d)
    BY <1>1, <1>2
  <1>4. QED
    BY <1>3, DivUnique

\* Whole turns do not show in the remainder.
LEMMA ModPeriod ==
    ASSUME NEW n \in Nat \ {0}, NEW a \in Int
    PROVE  (a + n) % n = a % n
  <1>1. PICK q \in Int : a = n * q + (a % n)
    <2>1. a \div n \in Int /\ a = n * (a \div n) + (a % n)
      OBVIOUS
    <2>2. QED
      BY <2>1
  <1>2. a % n \in 0..(n - 1) /\ n * q \in Int /\ n * (q + 1) = n * q + n
    OBVIOUS
  <1>3. PICK p \in Int : p = q + 1
    OBVIOUS
  <1>4. a + n = n * p + (a % n)
    BY <1>1, <1>2, <1>3
  <1>5. (n * p + (a % n)) % n = a % n
    BY <1>2, DivUnique
  <1>6. QED
    BY <1>4, <1>5

\* Two numbers less than a turn apart have different remainders.
LEMMA ModInjective ==
    ASSUME NEW n \in Nat \ {0}, NEW a \in Int, NEW b \in Int,
           a < b, b - a < n
    PROVE  a % n # b % n
  <1>1. SUFFICES ASSUME a % n = b % n PROVE FALSE
    OBVIOUS
  <1>2. /\ a \div n \in Int /\ a = n * (a \div n) + (a % n)
        /\ b \div n \in Int /\ b = n * (b \div n) + (b % n)
        /\ a % n \in Int /\ b % n \in Int
    OBVIOUS
  <1>3. PICK q \in Int, p \in Int : q = a \div n /\ p = b \div n
    BY <1>2
  <1>4. n * q \in Int /\ n * p \in Int /\ n * (p - q) = n * p - n * q
    OBVIOUS
  <1>5. n * (p - q) = b - a
    BY <1>1, <1>2, <1>3, <1>4
  <1>6. CASE p - q >= 1
    <2>1. n * (p - q) >= n
      BY <1>6
    <2>2. QED
      BY <1>5, <2>1
  <1>7. CASE p - q <= 0
    <2>1. n * (p - q) <= 0
      BY <1>7
    <2>2. QED
      BY <1>5, <2>1
  <1>8. QED
    BY <1>6, <1>7

\* The remainder of a remainder.
LEMMA ModMod ==
    ASSUME NEW k \in Nat \ {0}, NEW n \in Nat \ {0}, NEW a \in Int
    PROVE  (a % (k * n)) % n = a % n
  <1>1. k * n \in Nat \ {0}
    OBVIOUS
  <1>2. PICK q \in Int, m \in Int : m = a % (k * n) /\ a = (k * n) * q + m
    <2>1. a \div (k * n) \in Int /\ a % (k * n) \in Int
          /\ a = (k * n) * (a \div (k * n)) + (a % (k * n))
      BY <1>1
    <2>2. QED
      BY <2>1
  <1>3. PICK p \in Int, r \in 0..(n - 1) : r = m % n /\ m = n * p + r
    <2>1. m \div n \in Int /\ m % n \in 0..(n - 1) /\ m = n * (m \div n) + (m % n)
      OBVIOUS
    <2>2. QED
      BY <2>1
  <1>4. (k * n) * q = n * (k * q) /\ k * q \in Int
    OBVIOUS
  <1>5. n * (k * q + p) = n * (k * q) + n * p
    BY <1>4
  <1>6. a = n * (k * q + p) + r
    BY <1>2, <1>3, <1>4, <1>5
  <1>7. k * q + p \in Int
    BY <1>4
  <1>8. a % n = r
    BY <1>6, <1>7, DivUnique
  <1>9. QED
    BY <1>2, <1>3, <1>8

-----------------------------------------------------------------------------
(* Places and sectors.                                                     *)

LEMMA Geometry ==
    /\ Sectors \in Nat \ {0} /\ PerSector \in Nat \ {0}
    /\ Records \in Nat \ {0} /\ Records = Sectors * PerSector
    /\ Records >= PerSector + PerSector
    /\ Places = 0..(Records - 1)
  <1>1. Sectors \in Nat \ {0} /\ Sectors > 1 /\ PerSector \in Nat \ {0}
    BY LogAssumption DEF LogAssumption
  <1>2. Sectors * PerSector \in Nat \ {0} /\ Sectors * PerSector >= 2 * PerSector
    BY <1>1
  <1>3. QED
    BY <1>1, <1>2 DEF Records, Places

\* Every number has a place (offsetOfSeq()).
LEMMA HomeType == \A s \in Int : Home(s) \in Places
  BY Geometry DEF Home

\* Neighbours in the ring are neighbours on the flash, but for its end.
LEMMA HomeShift ==
    ASSUME NEW s \in Int, NEW d \in Int, Home(s) + d \in Places
    PROVE  Home(s + d) = Home(s) + d
  <1>1. PICK a \in Int : a = s - 1 /\ (s + d) - 1 = a + d
    OBVIOUS
  <1>2. Home(s) = a % Records /\ Home(s + d) = (a + d) % Records
    BY <1>1 DEF Home
  <1>3. (a % Records) + d \in 0..(Records - 1) /\ Records \in Nat \ {0}
    BY <1>2, Geometry
  <1>4. QED
    BY <1>2, <1>3, ModShift

\* Two numbers of one turn have different places.
LEMMA HomeInjective ==
    ASSUME NEW s \in Int, NEW t \in Int, s < t, t - s < Records
    PROVE  Home(s) # Home(t)
  <1>1. s - 1 \in Int /\ t - 1 \in Int /\ s - 1 < t - 1 /\ (t - 1) - (s - 1) < Records
    BY Geometry
  <1>2. QED
    BY <1>1, Geometry, ModInjective DEF Home

\* A turn later the place is the same.
LEMMA HomePeriod ==
    ASSUME NEW s \in Int
    PROVE  Home(s + Records) = Home(s)
  <1>1. s - 1 \in Int /\ (s + Records) - 1 = (s - 1) + Records
    BY Geometry
  <1>2. QED
    BY <1>1, Geometry, ModPeriod DEF Home

LEMMA OffsetType ==
    ASSUME NEW s \in Int
    PROVE  Offset(s) \in 0..(PerSector - 1) /\ FirstOf(s) \in Int /\ FirstOf(s) + Offset(s) = s
  <1>1. Offset(s) \in 0..(PerSector - 1)
    BY Geometry DEF Offset
  <1>2. QED
    BY <1>1 DEF FirstOf

\* The sector of a number's place is where the numbers of its sector go.
LEMMA SectorAt ==
    ASSUME NEW s \in Int
    PROVE  /\ StartsSector(Home(s)) <=> Offset(s) = 0
           /\ \A t \in FirstOf(s)..(FirstOf(s) + PerSector - 1) :
                 /\ Home(t) = Home(s) + (t - s)
                 /\ Home(t) \in SectorOf(Home(s))
           /\ \A q \in SectorOf(Home(s)) :
                 \E t \in FirstOf(s)..(FirstOf(s) + PerSector - 1) : q = Home(t)
  <1> DEFINE p == Home(s)
             k == p \div PerSector
             o == Offset(s)
  <1>1. p \in Places /\ p \in Int /\ p >= 0 /\ p < Records
    BY HomeType, Geometry
  <1>2. o \in 0..(PerSector - 1) /\ FirstOf(s) \in Int /\ FirstOf(s) + o = s
    BY OffsetType
  <1>3. p % PerSector = o
    <2>1. s - 1 \in Int
      OBVIOUS
    <2>2. QED
      BY <2>1, Geometry, ModMod DEF Home, Offset
  <1>4. k \in Int /\ p = PerSector * k + o
    BY <1>1, <1>3, Geometry, DivMod
  <1>5. k \in 0..(Sectors - 1)
    <2>1. PICK c \in Nat, n \in Nat \ {0} : c = Sectors /\ n = PerSector
      BY Geometry
    <2>2. p < c * n
      BY <1>1, <2>1, Geometry
    <2>3. CASE k < 0
      <3>1. n * k <= -n
        BY <1>4, <2>3
      <3>2. QED
        BY <1>1, <1>2, <1>4, <2>1, <3>1
    <2>4. CASE k >= c
      <3>1. n * k >= c * n
        BY <1>4, <2>4
      <3>2. QED
        BY <1>2, <1>4, <2>1, <2>2, <3>1
    <2>5. QED
      BY <1>4, <2>1, <2>3, <2>4
  <1>6. PICK b \in Nat : b = PerSector * k /\ b + PerSector <= Records
    <2>1. PICK c \in Nat, n \in Nat \ {0} : c = Sectors /\ n = PerSector
      BY Geometry
    <2>2. n * k \in Nat /\ n * (k + 1) = n * k + n /\ n * (k + 1) <= c * n
      BY <1>5, <2>1
    <2>3. QED
      BY <2>1, <2>2, Geometry
  <1> HIDE DEF p, k, o
  <1>7. StartsSector(p) <=> o = 0
    BY <1>3 DEF StartsSector
  <1>8. \A r \in 0..(PerSector - 1) : /\ b + r \in Places
                                      /\ (b + r) \div PerSector = k
    <2>1. PICK n \in Nat \ {0} : n = PerSector
      BY Geometry
    <2>2. ASSUME NEW r \in 0..(n - 1)
          PROVE  b + r \in Places /\ (b + r) \div n = k
      <3>1. b + r \in Places
        BY <1>6, <2>1, Geometry
      <3>2. (n * k + r) \div n = k
        BY <1>4, DivUnique
      <3>3. QED
        BY <1>6, <2>1, <3>1, <3>2
    <2>3. QED
      BY <2>1, <2>2
  <1>9. ASSUME NEW t \in FirstOf(s)..(FirstOf(s) + PerSector - 1)
        PROVE  Home(t) = p + (t - s) /\ Home(t) \in SectorOf(p)
    <2>1. t - FirstOf(s) \in 0..(PerSector - 1) /\ t - s \in Int
      BY <1>2, Geometry
    <2>2. p + (t - s) = b + (t - FirstOf(s))
      BY <1>2, <1>4, <1>6
    <2>3. p + (t - s) \in Places /\ (p + (t - s)) \div PerSector = k
      BY <1>8, <2>1, <2>2
    <2>4. Home(s + (t - s)) = p + (t - s)
      BY <2>1, <2>3, HomeShift DEF p
    <2>5. s + (t - s) = t
      BY <1>2
    <2>6. QED
      BY <2>3, <2>4, <2>5 DEF SectorOf, k
  <1>10. ASSUME NEW q \in SectorOf(p)
         PROVE  \E t \in FirstOf(s)..(FirstOf(s) + PerSector - 1) : q = Home(t)
    <2>1. q \in Places /\ q \in Int /\ q \div PerSector = k
      BY Geometry DEF SectorOf, k
    <2>2. PICK r \in 0..(PerSector - 1) : q = b + r
      <3>1. q % PerSector \in 0..(PerSector - 1) /\ q = b + (q % PerSector)
        BY <1>6, <2>1, Geometry, DivMod
      <3>2. QED
        BY <3>1
    <2>3. PICK t \in Int : t = FirstOf(s) + r
      BY <1>2, <2>2, Geometry
    <2>4. t \in FirstOf(s)..(FirstOf(s) + PerSector - 1)
      BY <1>2, <2>2, <2>3, Geometry
    <2>5. p + (t - s) = q
      BY <1>2, <1>4, <1>6, <2>2, <2>3
    <2>6. QED
      BY <1>9, <2>4, <2>5
  <1>11. QED
    BY <1>7, <1>9, <1>10 DEF p, o

\* The next number is in the same sector, or the first of the next one.
LEMMA NextOffset ==
    ASSUME NEW s \in Int
    PROVE  \/ Offset(s + 1) # 0 /\ FirstOf(s + 1) = FirstOf(s) /\ Offset(s) # PerSector - 1
           \/ Offset(s + 1) = 0 /\ FirstOf(s + 1) = s + 1 /\ FirstOf(s) + PerSector = s + 1
  <1>1. PerSector \in Nat \ {0}
    BY Geometry
  <1>2. Offset(s) \in 0..(PerSector - 1) /\ FirstOf(s) + Offset(s) = s /\ FirstOf(s) \in Int
    BY OffsetType
  <1>3. Offset(s) = (s - 1) % PerSector /\ Offset(s + 1) = ((s - 1) + 1) % PerSector
    BY DEF Offset
  <1>4. CASE Offset(s) < PerSector - 1
    <2>1. PICK a \in Int : a = s - 1
      OBVIOUS
    <2>2. (a % PerSector) + 1 \in 0..(PerSector - 1) /\ 1 \in Int
      BY <1>1, <1>2, <1>3, <1>4, <2>1
    <2>3. (a + 1) % PerSector = (a % PerSector) + 1
      BY <1>1, <2>2, ModShift
    <2>4. Offset(s + 1) = Offset(s) + 1
      BY <1>3, <2>1, <2>3
    <2>5. QED
      BY <1>1, <1>2, <1>4, <2>4 DEF FirstOf
  <1>5. CASE Offset(s) = PerSector - 1
    <2>1. PICK a \in Int : a = s - 1
      OBVIOUS
    <2>2. PICK d \in Int : d = 1 - PerSector
      BY <1>1
    <2>3. (a % PerSector) + d = 0 /\ 0 \in 0..(PerSector - 1)
      BY <1>1, <1>2, <1>3, <1>5, <2>1, <2>2
    <2>4. (a + d) % PerSector = 0
      BY <1>1, <2>3, ModShift
    <2>5. PICK c \in Int : c = a + d /\ c + PerSector = a + 1
      BY <1>1, <2>2
    <2>6. (c + PerSector) % PerSector = c % PerSector
      BY <1>1, ModPeriod
    <2>7. Offset(s + 1) = 0
      BY <1>3, <2>1, <2>4, <2>5, <2>6
    <2>8. QED
      BY <1>1, <1>2, <1>5, <2>7 DEF FirstOf
  <1>6. QED
    BY <1>1, <1>2, <1>4, <1>5

\* A sector begins with a number.
LEMMA FirstPositive ==
    ASSUME NEW s \in Nat \ {0}
    PROVE  FirstOf(s) \in 1..s
  <1>1. PICK a \in Nat : a = s - 1
    OBVIOUS
  <1>2. a % PerSector <= a
    <2>1. PICK n \in Nat \ {0} : n = PerSector
      BY Geometry
    <2>2. a \div n >= 0
      <3>1. a \div n \in Int /\ a % n \in 0..(n - 1) /\ a = n * (a \div n) + (a % n)
        BY DivMod
      <3>2. CASE a \div n <= -1
        <4>1. n * (a \div n) <= -n
          BY <3>1, <3>2
        <4>2. QED
          BY <3>1, <4>1
      <3>3. QED
        BY <3>1, <3>2
    <2>3. n * (a \div n) >= 0 /\ n * (a \div n) \in Int
      BY <2>2, DivMod
    <2>4. QED
      BY <2>1, <2>3, DivMod
  <1>3. Offset(s) = a % PerSector
    BY <1>1 DEF Offset
  <1>4. Offset(s) \in 0..(PerSector - 1)
    BY OffsetType
  <1>5. QED
    BY <1>1, <1>2, <1>3, <1>4, Geometry DEF FirstOf

-----------------------------------------------------------------------------
(* What the ring holds.                                                    *)

\* The newest record's sector holds all its numbers up to the newest.
LEMMA NewestSector ==
    ASSUME NEW f, NEW n \in Nat, n > 1, Ring(f, n)
    PROVE  /\ n - 1 \in Nat \ {0}
           /\ \A s \in FirstOf(n - 1)..(n - 1) : s \in 1..(n - 1) /\ f[Home(s)] = s
  <1>1. PICK m \in Nat \ {0} : m = n - 1 /\ n = m + 1
    OBVIOUS
  <1>2. FirstOf(m) \in 1..m /\ FirstOf(m) \in Int
    BY FirstPositive
  <1>3. FirstOf(n) - (Records - PerSector) <= FirstOf(m)
    <2>1. FirstOf(n) = FirstOf(m) \/ FirstOf(n) = FirstOf(m) + PerSector
      BY <1>1, NextOffset
    <2>2. QED
      BY <1>2, <2>1, Geometry
  <1>4. ASSUME NEW s \in FirstOf(m)..m
        PROVE  s \in 1..m /\ f[Home(s)] = s
    <2>1. s \in 1..m /\ s >= FirstOf(n) - (Records - PerSector)
      <3>1. FirstOf(n) \in Int
        BY OffsetType
      <3>2. QED
        BY <1>2, <1>3, <3>1, Geometry
    <2>2. QED
      BY <1>1, <2>1 DEF Ring
  <1>5. QED
    BY <1>1, <1>4

\* A flash can be the ring of one head only.
LEMMA RingUnique ==
    ASSUME NEW f, NEW n \in Nat \ {0}, NEW m \in Nat \ {0}, Ring(f, n), Ring(f, m)
    PROVE  n = m
  <1>1. ASSUME NEW a \in Nat \ {0}, NEW b \in Nat \ {0}, Ring(f, a), Ring(f, b), a < b
        PROVE  FALSE
    <2>1. b - 1 \in FirstOf(b - 1)..(b - 1) /\ b > 1 /\ b - 1 \in Nat \ {0}
      <3>1. PICK c \in Nat \ {0} : c = b - 1
        BY <1>1
      <3>2. FirstOf(c) \in 1..c
        BY FirstPositive
      <3>3. QED
        BY <1>1, <3>1, <3>2
    <2>2. f[Home(b - 1)] = b - 1
      BY <1>1, <2>1, NewestSector
    <2>3. Home(b - 1) \in Places
      BY <2>1, HomeType
    <2>4. f[Home(b - 1)] \in 1..(a - 1)
      BY <1>1, <2>1, <2>2, <2>3 DEF Ring, Blank
    <2>5. QED
      BY <1>1, <2>2, <2>4
  <1>2. QED
    BY <1>1

\* The first record of a sector has a number that begins one.
LEMMA FirstsBegin ==
    ASSUME NEW n \in Nat \ {0}, Ring(num, n), NEW p \in Firsts
    PROVE  num[p] \in 1..(n - 1) /\ p = Home(num[p]) /\ Offset(num[p]) = 0
  <1>1. p \in Places /\ StartsSector(p) /\ num[p] # Blank
    BY DEF Firsts
  <1>2. num[p] \in 1..(n - 1) /\ p = Home(num[p])
    BY <1>1 DEF Ring
  <1>3. QED
    BY <1>1, <1>2, SectorAt

\* Of two numbers the one that begins a sector lies in the other's or before it.
LEMMA BeginsBefore ==
    ASSUME NEW s \in Nat \ {0}, NEW t \in 1..s, Offset(t) = 0
    PROVE  t <= FirstOf(s)
  <1>1. SUFFICES ASSUME t > FirstOf(s) PROVE FALSE
    BY OffsetType
  <1>2. Offset(s) \in 0..(PerSector - 1) /\ FirstOf(s) + Offset(s) = s /\ FirstOf(s) \in Int
    BY OffsetType
  <1>3. PICK d \in 1..(PerSector - 1) : t = FirstOf(s) + d
    <2>1. t - FirstOf(s) \in 1..(PerSector - 1) /\ t = FirstOf(s) + (t - FirstOf(s))
      BY <1>1, <1>2, Geometry
    <2>2. QED
      BY <2>1
  <1>4. Offset(FirstOf(s)) = 0
    <2>1. PICK a \in Int, o \in Int : a = s - 1 /\ o = -Offset(s)
      BY <1>2
    <2>2. (a % PerSector) + o = 0 /\ 0 \in 0..(PerSector - 1)
      BY <1>2, <2>1, Geometry DEF Offset
    <2>3. (a + o) % PerSector = 0
      BY <2>2, Geometry, ModShift
    <2>4. FirstOf(s) - 1 = a + o
      BY <1>2, <2>1
    <2>5. QED
      BY <2>3, <2>4 DEF Offset
  <1>5. Offset(t) = d
    <2>1. PICK a \in Int : a = FirstOf(s) - 1
      BY <1>2
    <2>2. (a % PerSector) + d \in 0..(PerSector - 1) /\ (a % PerSector) + d = d /\ d \in Int
      BY <1>4, <2>1, Geometry DEF Offset
    <2>3. (a + d) % PerSector = d
      BY <2>2, Geometry, ModShift
    <2>4. t - 1 = a + d
      BY <1>2, <1>3, <2>1
    <2>5. QED
      BY <2>3, <2>4 DEF Offset
  <1>6. QED
    BY <1>3, <1>5

\* scanForHead() finds the head, whatever the ring has been through: the sector
\* with the largest first number is the newest record's, and there the first
\* blank slot follows it.
LEMMA ScanFinds ==
    ASSUME NEW n \in Nat \ {0}, Ring(num, n)
    PROVE  ScanForHead = n
  <1>1. CASE n = 1
    <2>1. Firsts = {}
      BY <1>1, FirstsBegin
    <2>2. QED
      BY <1>1, <2>1 DEF ScanForHead
  <1>2. CASE n # 1
    <2>1. PICK m \in Nat \ {0} : m = n - 1 /\ n = m + 1 /\ n > 1
      BY <1>2
    <2>2. PICK b \in 1..m : b = FirstOf(m)
      BY FirstPositive
    <2>3. m = b + Offset(m) /\ Offset(m) \in 0..(PerSector - 1) /\ b + PerSector - 1 >= m
      <3>1. m = b + Offset(m) /\ Offset(m) \in 0..(PerSector - 1)
        BY <2>2, OffsetType
      <3>2. QED
        BY <3>1, Geometry
    <2>4. \A s \in b..m : num[Home(s)] = s
      BY <2>1, <2>2, NewestSector
    <2>5. Offset(b) = 0 /\ FirstOf(b) = b
      <3>1. PICK a \in Int, o \in Int : a = m - 1 /\ o = -Offset(m)
        BY <2>3
      <3>2. (a % PerSector) + o = 0 /\ 0 \in 0..(PerSector - 1)
        BY <2>3, <3>1, Geometry DEF Offset
      <3>3. (a + o) % PerSector = 0
        BY <3>2, Geometry, ModShift
      <3>4. b - 1 = a + o
        BY <2>3, <3>1
      <3>5. QED
        BY <3>3, <3>4 DEF Offset, FirstOf
    <2>6. \A t \in b..(b + PerSector - 1) : /\ Home(t) = Home(b) + (t - b)
                                            /\ Home(t) \in SectorOf(Home(b))
      BY <2>5, SectorAt
    <2>7. \A q \in SectorOf(Home(b)) : \E t \in b..(b + PerSector - 1) : q = Home(t)
      BY <2>5, SectorAt
    <2>8. StartsSector(Home(b))
      BY <2>5, SectorAt
    <2>9. Home(b) \in Firsts
      <3>1. Home(b) \in Places /\ num[Home(b)] = b
        BY <2>4, HomeType
      <3>2. b # Blank /\ b # 0
        BY DEF Blank
      <3>3. QED
        BY <2>8, <3>1, <3>2 DEF Firsts
    <2>10. \A p \in Firsts : num[p] <= b
      <3>1. ASSUME NEW p \in Firsts
            PROVE  num[p] <= b
        <4>1. num[p] \in 1..(n - 1) /\ Offset(num[p]) = 0
          BY FirstsBegin
        <4>2. num[p] \in 1..m
          BY <2>1, <4>1
        <4>3. QED
          BY <2>2, <4>1, <4>2, BeginsBefore
      <3>2. QED
        BY <3>1
    <2>11. Winner(Home(b)) /\ \A p : Winner(p) => p = Home(b)
      <3>1. num[Home(b)] = b
        BY <2>4
      <3>2. Winner(Home(b))
        BY <2>9, <2>10, <3>1 DEF Winner
      <3>3. ASSUME NEW p, Winner(p)
            PROVE  p = Home(b)
        <4>1. p \in Firsts /\ b <= num[p] /\ num[p] <= b
          BY <2>9, <2>10, <3>1, <3>3 DEF Winner
        <4>2. num[p] \in Int /\ p = Home(num[p])
          BY <4>1, FirstsBegin
        <4>3. QED
          BY <4>1, <4>2
      <3>4. QED
        BY <3>2, <3>3
    <2>12. Home(m) = Home(b) + (m - b) /\ Home(m) \in SectorOf(Home(b)) /\ Home(m) \in Places
      BY <2>3, <2>6, HomeType
    <2>13. Home(b) \in Int /\ Home(b) \in Places
      BY HomeType, Geometry
    <2>14. Home(m) + 1 \in SectorOf(Home(b)) =>
              Home(m) + 1 = Home(n) /\ num[Home(n)] = Blank
      <3>1. SUFFICES ASSUME Home(m) + 1 \in SectorOf(Home(b))
                     PROVE  Home(m) + 1 = Home(n) /\ num[Home(n)] = Blank
        OBVIOUS
      <3>2. PICK t \in b..(b + PerSector - 1) : Home(m) + 1 = Home(t)
        BY <2>7, <3>1
      <3>3. t = n
        BY <2>1, <2>6, <2>12, <2>13, <3>2, Geometry
      <3>4. FirstOf(n) = b /\ Offset(n) # 0
        <4>1. b + PerSector # n
          BY <3>2, <3>3, Geometry
        <4>2. QED
          BY <2>1, <2>2, <4>1, NextOffset
      <3>5. n \in n..(FirstOf(n) + PerSector - 1)
        BY <3>2, <3>3, <3>4, Geometry
      <3>6. num[Home(n)] = Blank
        BY <3>4, <3>5 DEF Ring
      <3>7. QED
        BY <3>2, <3>3, <3>6
    <2>15. LastOf(Home(b), Home(m))
      <3>1. \A r \in Home(b)..Home(m) : num[r] # Blank
        <4>1. ASSUME NEW r \in Home(b)..Home(m)
              PROVE  num[r] # Blank
          <5>1. PICK t \in b..m : r = Home(b) + (t - b)
            <6>1. b + (r - Home(b)) \in b..m
              BY <2>12, <2>13
            <6>2. r = Home(b) + ((b + (r - Home(b))) - b)
              BY <2>12, <2>13
            <6>3. QED
              BY <6>1, <6>2
          <5>2. t \in b..(b + PerSector - 1)
            BY <2>3, Geometry
          <5>3. r = Home(t)
            BY <2>6, <5>1, <5>2
          <5>4. QED
            BY <2>4, <5>1, <5>3 DEF Blank
        <4>2. QED
          BY <4>1
      <3>2. QED
        BY <2>12, <2>14, <3>1 DEF LastOf
    <2>16. ASSUME NEW q \in Places, LastOf(Home(b), q)
           PROVE  q = Home(m)
      <3>1. PICK t \in b..(b + PerSector - 1) : q = Home(t) /\ q = Home(b) + (t - b)
        BY <2>6, <2>7, <2>16 DEF LastOf
      <3>2. CASE t < m
        <4>1. t + 1 \in b..m /\ t + 1 \in b..(b + PerSector - 1)
          BY <2>3, <3>1, <3>2, Geometry
        <4>2. q + 1 = Home(b) + ((t + 1) - b)
          BY <2>13, <3>1
        <4>3. Home(t + 1) = q + 1 /\ q + 1 \in SectorOf(Home(b))
          BY <2>6, <4>1, <4>2
        <4>4. num[q + 1] = t + 1
          BY <2>4, <4>1, <4>3
        <4>5. QED
          BY <2>16, <4>1, <4>3, <4>4 DEF LastOf, Blank
      <3>3. CASE t > m
        <4>1. n \in b..(b + PerSector - 1)
          BY <2>1, <3>1, <3>3, Geometry
        <4>2. Home(n) = Home(b) + (n - b) /\ Home(n) \in SectorOf(Home(b))
          BY <2>6, <4>1
        <4>3. Home(n) = Home(m) + 1
          BY <2>1, <2>12, <2>13, <4>2
        <4>4. num[Home(n)] = Blank
          BY <2>14, <4>2, <4>3
        <4>5. Home(n) \in Home(b)..q
          BY <2>1, <2>13, <3>1, <3>3, <4>1, <4>2
        <4>6. QED
          BY <2>16, <4>4, <4>5 DEF LastOf
      <3>4. CASE t = m
        BY <3>1, <3>4
      <3>5. QED
        BY <3>2, <3>3, <3>4, Geometry
    <2>17. (CHOOSE q \in Places : \E p \in Places : Winner(p) /\ LastOf(p, q)) = Home(m)
      <3>1. \A q \in Places : (\E p \in Places : Winner(p) /\ LastOf(p, q)) <=> q = Home(m)
        BY <2>11, <2>13, <2>15, <2>16
      <3>2. QED
        BY <2>12, <3>1
    <2>18. num[Home(m)] = m
      BY <2>3, <2>4
    <2>19. QED
      BY <2>1, <2>9, <2>17, <2>18 DEF ScanForHead
  <1>3. QED
    BY <1>1, <1>2

-----------------------------------------------------------------------------
(* A write, however far it gets.                                           *)

\* A torn number reads as no number, or as the one it was to be.
NoTornNumber == TornBy = {}

\* The oldest sector but one, and what follows it, is not where number n goes.
LEMMA OthersElsewhere ==
    ASSUME NEW n \in Nat \ {0}, Offset(n) = 0,
           NEW s \in 1..(n - 1), s >= n - (Records - PerSector)
    PROVE  Home(s) \notin SectorOf(Home(n))
  <1>1. SUFFICES ASSUME Home(s) \in SectorOf(Home(n)) PROVE FALSE
    OBVIOUS
  <1>2. PICK t \in FirstOf(n)..(FirstOf(n) + PerSector - 1) : Home(s) = Home(t)
    BY <1>1, SectorAt
  <1>3. FirstOf(n) = n
    BY DEF FirstOf
  <1>4. t \in Int /\ s \in Int /\ s < t /\ t - s < Records
    BY <1>2, <1>3, Geometry
  <1>5. QED
    BY <1>2, <1>4, HomeInjective
\* An erase that is cut short, or not begun, leaves the ring with its head.
LEMMA RingErased ==
    ASSUME NEW f, NEW g, NEW n \in Nat \ {0}, Ring(f, n), NEW gone,
           gone = {} \/ (Offset(n) = 0 /\ gone \subseteq SectorOf(Home(n))),
           g = [p \in Places |-> IF p \in gone THEN Blank ELSE f[p]]
    PROVE  Ring(g, n)
  <1>1. g \in [Places -> Int]
    BY DEF Ring, Blank
  <1>2. \A p \in Places : g[p] # Blank =>
           g[p] \in 1..(n - 1) /\ g[p] >= n - Records /\ Home(g[p]) = p
    BY DEF Ring
  <1>3. ASSUME NEW s \in 1..(n - 1), s >= FirstOf(n) - (Records - PerSector)
        PROVE  g[Home(s)] = s
    <2>1. f[Home(s)] = s /\ Home(s) \in Places
      BY <1>3, HomeType DEF Ring
    <2>2. Home(s) \notin gone
      <3>1. CASE gone = {}
        BY <3>1
      <3>2. CASE Offset(n) = 0 /\ gone \subseteq SectorOf(Home(n))
        <4>1. FirstOf(n) = n
          BY <3>2 DEF FirstOf
        <4>2. QED
          BY <1>3, <3>2, <4>1, OthersElsewhere
      <3>3. QED
        BY <3>1, <3>2
    <2>3. QED
      BY <2>1, <2>2
  <1>4. ASSUME Offset(n) # 0, NEW t \in n..(FirstOf(n) + PerSector - 1)
        PROVE  g[Home(t)] = Blank
    <2>1. f[Home(t)] = Blank
      BY <1>4 DEF Ring
    <2>2. t \in Int
      BY OffsetType, Geometry
    <2>3. Home(t) \in Places
      BY <2>2, HomeType
    <2>4. QED
      BY <2>1, <2>3
  <1>5. QED
    BY <1>1, <1>2, <1>3, <1>4 DEF Ring

\* A record that is programmed, whole or damaged, moves the head by one.
LEMMA RingWritten ==
    ASSUME NEW f, NEW g, NEW n \in Nat \ {0}, Ring(f, n), NEW gone,
           gone = IF Offset(n) = 0 THEN SectorOf(Home(n)) ELSE {},
           g = [p \in Places |-> IF p = Home(n) THEN n
                                 ELSE IF p \in gone THEN Blank ELSE f[p]]
    PROVE  Ring(g, n + 1) /\ Whole(g, n)
  <1>1. g \in [Places -> Int]
    BY DEF Ring, Blank
  <1>2. Home(n) \in Places /\ FirstOf(n) \in Int /\ FirstOf(n) <= n
        /\ n <= FirstOf(n) + PerSector - 1
    <2>1. Offset(n) \in 0..(PerSector - 1) /\ FirstOf(n) + Offset(n) = n /\ FirstOf(n) \in Int
      BY OffsetType
    <2>2. FirstOf(n) <= n /\ n <= FirstOf(n) + PerSector - 1
      BY <2>1, Geometry
    <2>3. QED
      BY <2>1, <2>2, HomeType
  <1>3. ASSUME NEW p \in Places, g[p] # Blank
        PROVE  g[p] \in 1..n /\ g[p] >= n + 1 - Records /\ Home(g[p]) = p
    <2>1. CASE p = Home(n)
      BY <2>1, Geometry
    <2>2. CASE p # Home(n)
      <3>1. g[p] = f[p] /\ f[p] # Blank
        BY <1>3, <2>2
      <3>2. f[p] \in 1..(n - 1) /\ f[p] >= n - Records /\ Home(f[p]) = p
        BY <3>1 DEF Ring
      <3>3. f[p] # n - Records
        <4>1. SUFFICES ASSUME f[p] = n - Records PROVE FALSE
          OBVIOUS
        <4>2. f[p] + Records = n
          BY <4>1, Geometry
        <4>3. Home(n) = p
          BY <3>2, <4>2, HomePeriod
        <4>4. QED
          BY <2>2, <4>3
      <3>4. QED
        BY <3>1, <3>2, <3>3, Geometry
    <2>3. QED
      BY <2>1, <2>2
  <1>4. ASSUME NEW s \in 1..n, s >= FirstOf(n) - (Records - PerSector)
        PROVE  g[Home(s)] = s
    <2>1. CASE s = n
      BY <1>2, <2>1
    <2>2. CASE s # n
      <3>1. s \in 1..(n - 1)
        BY <2>2
      <3>3. s >= FirstOf(n) - (Records - PerSector)
        BY <1>4
      <3>4. f[Home(s)] = s /\ Home(s) \in Places
        BY <3>1, <3>3, HomeType DEF Ring
      <3>5. Home(s) # Home(n)
        <4>1. n - s < Records
          BY <1>2, <1>4, Geometry
        <4>2. QED
          BY <3>1, <4>1, HomeInjective
      <3>6. Home(s) \notin gone
        <4>1. CASE Offset(n) = 0
          <5>1. FirstOf(n) = n
            BY <4>1 DEF FirstOf
          <5>2. QED
            BY <3>1, <3>3, <4>1, <5>1, OthersElsewhere
        <4>2. CASE Offset(n) # 0
          BY <4>2
        <4>3. QED
          BY <4>1, <4>2
      <3>7. QED
        BY <3>4, <3>5, <3>6
    <2>3. QED
      BY <2>1, <2>2
  <1>5. ASSUME NEW t \in (n + 1)..(FirstOf(n) + PerSector - 1)
        PROVE  g[Home(t)] = Blank
    <2>2. /\ t \in Int /\ n < t /\ t - n < Records
          /\ t \in FirstOf(n)..(FirstOf(n) + PerSector - 1)
          /\ t \in n..(FirstOf(n) + PerSector - 1)
      BY <1>2, Geometry
    <2>3. Home(t) # Home(n) /\ Home(t) \in Places
      BY <2>2, HomeInjective, HomeType
    <2>4. CASE Offset(n) = 0
      <3>1. Home(t) \in gone
        BY <2>2, <2>4, SectorAt
      <3>2. QED
        BY <2>3, <3>1
    <2>5. CASE Offset(n) # 0
      <3>1. f[Home(t)] = Blank
        BY <2>2, <2>5 DEF Ring
      <3>2. QED
        BY <2>3, <3>1
    <2>6. QED
      BY <2>4, <2>5
  <1>6. PICK m \in Nat \ {0} : m = n + 1 /\ m - 1 = n
    OBVIOUS
  <1>7. Ring(g, m)
    <2>1. \A p \in Places : g[p] # Blank =>
             g[p] \in 1..(m - 1) /\ g[p] >= m - Records /\ Home(g[p]) = p
      <3>1. n + 1 - Records = m - Records /\ 1..n = 1..(m - 1)
        BY <1>6, Geometry
      <3>2. QED
        BY <1>3, <3>1
    <2>2. \A s \in 1..(m - 1) : s >= FirstOf(m) - (Records - PerSector) => g[Home(s)] = s
      <3>1. FirstOf(m) >= FirstOf(n) /\ FirstOf(m) \in Int
        <4>1. FirstOf(m) = FirstOf(n) \/ FirstOf(m) = m
          BY <1>6, NextOffset
        <4>2. QED
          BY <1>2, <1>6, <4>1
      <3>2. QED
        BY <1>2, <1>4, <1>6, <3>1, Geometry
    <2>3. Offset(m) # 0 => \A t \in m..(FirstOf(m) + PerSector - 1) : g[Home(t)] = Blank
      <3>1. Offset(m) # 0 => FirstOf(m) = FirstOf(n)
        BY <1>6, NextOffset
      <3>2. QED
        BY <1>5, <1>6, <3>1
    <2>4. QED
      BY <1>1, <2>1, <2>2, <2>3 DEF Ring
  <1>8. Whole(g, n)
    BY <1>4, <1>5 DEF Whole
  <1>9. QED
    BY <1>6, <1>7, <1>8

\* What a write leaves: the ring with its head, less some of the sector that
\* is being entered, or with one record more.  Nothing else has changed.
LEMMA ProgramEffect ==
    ASSUME NoTornNumber, NEW n \in Nat \ {0}, n = next, Ring(num, n),
           NEW o \in Steps, Program(o)
    PROVE  /\ o \in {"nothing", "erasing"} =>
                /\ Ring(num', n)
                /\ \A p \in Places : num'[p] = Blank \/ (num'[p] = num[p] /\ body'[p] = body[p])
           /\ o \in {"damaged", "written"} =>
                /\ Ring(num', n + 1) /\ Whole(num', n)
                /\ \A p \in Places \ {Home(n)} :
                      num'[p] = Blank \/ (num'[p] = num[p] /\ body'[p] = body[p])
           /\ o = "nothing" => UNCHANGED num /\ \A p \in Places : body'[p] = body[p]
  <1>1. PICK gone \in MayErase(o), t \in Torn(o) :
           /\ num' = [p \in Places |->
                        IF p = Home(n) /\ o \in {"damaged", "written"} THEN n + t
                        ELSE IF p \in gone THEN Blank ELSE num[p]]
           /\ body' = [p \in Places |->
                         IF p = Home(n) /\ o \in {"damaged", "written"}
                         THEN IF o = "written" THEN notes + 1 ELSE Damaged
                         ELSE IF p \in gone THEN Blank ELSE body[p]]
    BY DEF Program
  <1>2. n + t = n
    BY <1>1 DEF Torn, NoTornNumber
  <1>3. Home(n) \in Places
    BY HomeType
  <1>4. num \in [Places -> Int]
    BY DEF Ring
  <1>5. ToErase = IF Offset(n) = 0 THEN SectorOf(Home(n)) ELSE {}
    BY SectorAt DEF ToErase
  <1>6. CASE o \in {"nothing", "erasing"}
    <2>1. gone = {} \/ (Offset(n) = 0 /\ gone \subseteq SectorOf(Home(n)))
      BY <1>1, <1>5, <1>6 DEF MayErase
    <2>2. num' = [p \in Places |-> IF p \in gone THEN Blank ELSE num[p]]
      BY <1>1, <1>6
    <2>3. Ring(num', n)
      BY <2>1, <2>2, RingErased
    <2>4. \A p \in Places : num'[p] = Blank \/ (num'[p] = num[p] /\ body'[p] = body[p])
      <3>1. body' = [p \in Places |-> IF p \in gone THEN Blank ELSE body[p]]
        BY <1>1, <1>6
      <3>2. QED
        BY <2>2, <3>1
    <2>5. o = "nothing" => gone = {}
      BY <1>1 DEF MayErase
    <2>6. o = "nothing" => num' = num /\ \A p \in Places : body'[p] = body[p]
      BY <1>1, <1>4, <2>2, <2>5
    <2>7. QED
      BY <1>6, <2>3, <2>4, <2>6
  <1>7. CASE o \in {"damaged", "written"}
    <2>1. gone = IF Offset(n) = 0 THEN SectorOf(Home(n)) ELSE {}
      BY <1>1, <1>5, <1>7 DEF MayErase
    <2>2. num' = [p \in Places |-> IF p = Home(n) THEN n
                                   ELSE IF p \in gone THEN Blank ELSE num[p]]
      BY <1>1, <1>2, <1>7
    <2>3. Ring(num', n + 1) /\ Whole(num', n)
      BY <2>1, <2>2, RingWritten
    <2>5. \A p \in Places \ {Home(n)} :
             num'[p] = Blank \/ (num'[p] = num[p] /\ body'[p] = body[p])
      <3>1. \A p \in Places \ {Home(n)} :
               body'[p] = IF p \in gone THEN Blank ELSE body[p]
        BY <1>1
      <3>2. QED
        BY <2>2, <3>1
    <2>6. QED
      BY <1>7, <2>3, <2>5
  <1>8. QED
    BY <1>6, <1>7 DEF Steps

-----------------------------------------------------------------------------
(* Every step: the flash stays the ring it was, or is one record longer.   *)

\* What is not lost has not changed.
Survives(p) == num'[p] = Blank \/ (num'[p] = num[p] /\ body'[p] = body[p])

Stays(n) ==
    /\ Ring(num', n)
    /\ ok' => next' = n
    /\ \A p \in Places : Survives(p)

Grows(n) ==
    /\ Ring(num', n + 1) /\ Whole(num', n)
    /\ ok' => next' = n + 1
    /\ \A p \in Places \ {Home(n)} : Survives(p)

\* The flash is the ring of some head, and the gateway's, while the log is on.
LogInv == \E n \in Nat \ {0} : Ring(num, n) /\ (ok => next = n)

\* A record, with the log on: it is there, or an error has turned the log off.
LEMMA NotedEffect ==
    ASSUME NoTornNumber, NEW n \in Nat \ {0}, Ring(num, n), n = next, ok, Noted
    PROVE  Stays(n) \/ Grows(n)
  <1>1. CASE Program("written") /\ next' = next + 1 /\ UNCHANGED <<ok, faults>>
    BY <1>1, ProgramEffect DEF Steps, Grows, Survives
  <1>2. ASSUME NEW o \in Steps, Program(o), ok' = FALSE
        PROVE  Stays(n) \/ Grows(n)
    <2>1. CASE o \in {"nothing", "erasing"}
      BY <1>2, <2>1, ProgramEffect DEF Stays, Survives
    <2>2. CASE o \in {"damaged", "written"}
      BY <1>2, <2>2, ProgramEffect DEF Grows, Survives
    <2>3. QED
      BY <2>1, <2>2 DEF Steps
  <1>3. QED
    BY <1>1, <1>2 DEF Noted

\* Nothing written, nothing lost.
LEMMA NothingProgrammed ==
    ASSUME NEW n \in Nat \ {0}, Ring(num, n), Program("nothing")
    PROVE  num' = num /\ \A p \in Places : body'[p] = body[p]
  <1>1. num' = [p \in Places |-> num[p]] /\ body' = [p \in Places |-> body[p]]
    BY DEF Program, MayErase
  <1>2. num \in [Places -> Int]
    BY DEF Ring
  <1>3. QED
    BY <1>1, <1>2

LEMMA LogStep ==
    ASSUME NoTornNumber, NEW n \in Nat \ {0}, Ring(num, n), ok => next = n, [Next]_vars
    PROVE  Stays(n) \/ Grows(n)
  <1>1. ASSUME UNCHANGED flash, ok' => next' = n
        PROVE  Stays(n)
    BY <1>1 DEF flash, Stays, Survives
  <1>2. ASSUME NEW works \in BOOLEAN, Begin(works)
        PROVE  Stays(n)
    <2>1. ScanForHead = n
      BY ScanFinds
    <2>2. QED
      BY <1>1, <1>2, <2>1 DEF Begin
  <1>3. CASE BootNote
    BY <1>1, <1>3, NotedEffect DEF BootNote, Note, flash
  <1>4. CASE Event
    BY <1>4, NotedEffect DEF Event
  <1>5. CASE CoilWrite
    BY <1>1, <1>5, NotedEffect DEF CoilWrite, flash
  <1>6. CASE Summary
    BY <1>6, NotedEffect DEF Summary, SummaryDue
  <1>7. ASSUME NEW o \in Steps, Down(o)
        PROVE  Stays(n) \/ Grows(n)
    <2>1. Program(o) /\ ok' = FALSE /\ (o # "nothing" => ok)
      BY <1>7 DEF Down
    <2>2. CASE o = "nothing"
      BY <2>1, <2>2, NothingProgrammed DEF Stays, Survives
    <2>3. CASE o = "erasing"
      BY <2>1, <2>3, ProgramEffect DEF Stays, Survives
    <2>4. CASE o \in {"damaged", "written"}
      BY <2>1, <2>4, ProgramEffect DEF Grows, Survives
    <2>5. QED
      BY <2>2, <2>3, <2>4 DEF Steps
  <1>8. ASSUME NEW want \in Wants, Collect(want)
        PROVE  Stays(n)
    BY <1>1, <1>8 DEF Collect
  <1>9. CASE Tick
    BY <1>1, <1>9 DEF Tick
  <1>10. CASE UNCHANGED vars
    BY <1>1, <1>10 DEF vars, flash
  <1>11. QED
    BY <1>2, <1>3, <1>4, <1>5, <1>6, <1>7, <1>8, <1>9, <1>10 DEF Next

\* A window that has never been written is the ring of record 1.
LEMMA LogInit == Init => LogInv
  <1>1. SUFFICES ASSUME Init PROVE Ring(num, 1) /\ (ok => next = 1)
    BY DEF LogInv
  <1>2. num = [p \in Places |-> Blank] /\ ~ok
    BY <1>1 DEF Init
  <1>3. \A s \in Int : Home(s) \in Places
    BY HomeType
  <1>4. num \in [Places -> Int] /\ \A p \in Places : num[p] = Blank
    BY <1>2 DEF Blank
  <1>5. Offset(1) = 0
    <2>1. 0 % PerSector = 0
      BY Geometry
    <2>2. QED
      BY <2>1 DEF Offset
  <1>6. QED
    BY <1>2, <1>4, <1>5 DEF Ring

LEMMA LogInvariant ==
    ASSUME NoTornNumber
    PROVE  Spec => []LogInv
  <1>1. LogInv /\ [Next]_vars => LogInv'
    <2>1. SUFFICES ASSUME NEW n \in Nat \ {0}, Ring(num, n), ok => next = n, [Next]_vars
                   PROVE  LogInv'
      BY DEF LogInv
    <2>2. CASE Stays(n)
      BY <2>2 DEF Stays, LogInv
    <2>3. CASE Grows(n)
      <3>1. n + 1 \in Nat \ {0}
        OBVIOUS
      <3>2. QED
        BY <2>3, <3>1 DEF Grows, LogInv
    <2>4. QED
      BY <2>1, <2>2, <2>3, LogStep
  <1>2. QED
    BY <1>1, LogInit, PTL DEF Spec

(***************************************************************************)
(* The log of event_log.h.  What can be read is numbered up to the head.   *)
(***************************************************************************)

RecordsOf(f, n) == {s \in 1..(n - 1) : f[Home(s)] = s}

HeadInv ==
    /\ ScanForHead \in Nat \ {0}
    /\ Ring(num, ScanForHead)
    /\ ok => next = ScanForHead
    /\ InRing = RecordsOf(num, ScanForHead)

LEMMA HeadFound == LogInv => HeadInv
  <1>1. SUFFICES ASSUME NEW n \in Nat \ {0}, Ring(num, n), ok => next = n
                 PROVE  HeadInv
    BY DEF LogInv
  <1>2. ScanForHead = n
    BY <1>1, ScanFinds
  <1>3. InRing = {s \in ((n - 1) - Records + 1)..(n - 1) : s > 0 /\ num[Home(s)] = s}
    BY <1>2 DEF InRing
  <1>4. \A s \in 1..(n - 1) : num[Home(s)] = s => s >= n - Records
    <2>1. ASSUME NEW s \in 1..(n - 1), num[Home(s)] = s
          PROVE  s >= n - Records
      <3>1. Home(s) \in Places /\ s # Blank
        BY HomeType DEF Blank
      <3>2. QED
        BY <1>1, <2>1, <3>1 DEF Ring
    <2>2. QED
      BY <2>1
  <1>5. InRing = RecordsOf(num, n)
    <2>1. (n - 1) - Records + 1 = n - Records /\ n - Records \in Int
      BY Geometry
    <2>2. ASSUME NEW s
          PROVE  s \in InRing <=> s \in RecordsOf(num, n)
      BY <1>3, <1>4, <2>1 DEF RecordsOf
    <2>3. QED
      BY <2>2
  <1>6. QED
    BY <1>1, <1>2, <1>5 DEF HeadInv

LEMMA HeadInvariant ==
    ASSUME NoTornNumber
    PROVE  Spec => []HeadInv
  BY LogInvariant, HeadFound, PTL

\* The newest record can be read, so the promise's head is the ring's.
LEMMA NewestRead ==
    ASSUME NEW f, NEW n \in Nat \ {0}, Ring(f, n), NEW log,
           DOMAIN log = RecordsOf(f, n)
    PROVE  Promise!Newest(log) = n - 1
  <1>1. CASE n = 1
    <2>1. DOMAIN log = {}
      BY <1>1 DEF RecordsOf
    <2>2. QED
      BY <1>1, <2>1 DEF Promise!Newest
  <1>2. CASE n # 1
    <2>1. PICK m \in Nat \ {0} : m = n - 1
      BY <1>2
    <2>2. FirstOf(m) \in 1..m
      BY FirstPositive
    <2>3. f[Home(m)] = m
      BY <1>2, <2>1, <2>2, NewestSector
    <2>4. m \in DOMAIN log /\ \A q \in DOMAIN log : q \in 1..m
      BY <2>1, <2>3 DEF RecordsOf
    <2>5. (CHOOSE r \in DOMAIN log : \A q \in DOMAIN log : q <= r) = m
      <3>1. \A q \in DOMAIN log : q <= m
        BY <2>4
      <3>2. \A r \in DOMAIN log : (\A q \in DOMAIN log : q <= r) <=> r = m
        BY <2>4, <3>1
      <3>3. QED
        BY <2>4, <3>2
    <2>6. QED
      BY <2>1, <2>4, <2>5 DEF Promise!Newest
  <1>3. QED
    BY <1>1, <1>2

\* Right after number n was written the ring holds an unbroken run up to it.
LEMMA WholeRun ==
    ASSUME NEW f, NEW n \in Nat \ {0}, Ring(f, n + 1), Whole(f, n)
    PROVE  RecordsOf(f, n + 1) = {s \in 1..n : s >= FirstOf(n) - (Records - PerSector)}
  <1>1. FirstOf(n) \in Int
    BY OffsetType
  <1>2. ASSUME NEW s \in 1..n, f[Home(s)] = s
        PROVE  s >= FirstOf(n) - (Records - PerSector)
    <2>1. SUFFICES ASSUME s < FirstOf(n) - (Records - PerSector) PROVE FALSE
      BY <1>1, Geometry
    <2>2. Home(s) \in Places /\ s # Blank
      BY HomeType DEF Blank
    <2>3. s >= n + 1 - Records
      BY <1>2, <2>2, Geometry DEF Ring
    <2>4. s + Records \in (n + 1)..(FirstOf(n) + PerSector - 1)
      BY <1>1, <2>1, <2>3, Geometry
    <2>5. f[Home(s + Records)] = Blank
      BY <2>4 DEF Whole
    <2>6. QED
      BY <1>2, <2>2, <2>5, HomePeriod
  <1>3. (n + 1) - 1 = n
    OBVIOUS
  <1>4. QED
    BY <1>2, <1>3 DEF RecordsOf, Whole

\* What Promise sees of the ring (the substitution for held).
Held == [s \in InRing |-> body[Home(s)]]

\* A step that loses what is old, at most, is one the promise allows.
LEMMA StaysPromised ==
    ASSUME HeadInv, HeadInv', NEW n, n = ScanForHead, Stays(n)
    PROVE  Promise!Next
  <1>1. n \in Nat \ {0} /\ Ring(num, n) /\ InRing = RecordsOf(num, n)
    BY DEF HeadInv
  <1>2. Ring(num', n) /\ \A p \in Places : Survives(p)
    BY DEF Stays
  <1>3. ScanForHead' = n
    BY <1>1, <1>2, RingUnique DEF HeadInv
  <1>4. InRing' = RecordsOf(num', n)
    BY <1>3 DEF HeadInv
  <1>5. ASSUME NEW s \in RecordsOf(num', n)
        PROVE  s \in RecordsOf(num, n) /\ body'[Home(s)] = body[Home(s)]
    <2>1. s \in 1..(n - 1) /\ num'[Home(s)] = s
      BY DEF RecordsOf
    <2>2. Home(s) \in Places /\ s # Blank
      BY <2>1, HomeType DEF Blank
    <2>3. QED
      BY <1>2, <2>1, <2>2 DEF Survives, RecordsOf
  <1>6. ASSUME NEW r \in (n - (Records - PerSector))..(n - 1), r > 0
        PROVE  r \in RecordsOf(num', n)
    <2>1. FirstOf(n) \in Int /\ FirstOf(n) <= n
      BY <1>1, FirstPositive, OffsetType
    <2>2. r \in 1..(n - 1) /\ r >= FirstOf(n) - (Records - PerSector)
      BY <1>1, <1>6, <2>1, Geometry
    <2>3. QED
      BY <1>2, <2>2 DEF Ring, RecordsOf
  <1> DEFINE was == Held
             now == [s \in RecordsOf(num', n) |-> body'[Home(s)]]
  <1>7. DOMAIN was = RecordsOf(num, n) /\ DOMAIN now = RecordsOf(num', n)
    BY <1>1 DEF Held
  <1>8. Promise!Newest(was) = n - 1
    BY <1>1, <1>7, NewestRead
  <1>9. \A r \in DOMAIN was \cap DOMAIN now : now[r] = was[r]
    BY <1>1, <1>5, <1>7 DEF Held
  <1>10. (n - 1) - ((Records - PerSector + 1) - 1) + 1 = n - (Records - PerSector)
    BY <1>1, Geometry
  <1> HIDE DEF was, now
  <1>11. Promise!Kept(was, now, n - 1, (Records - PerSector + 1) - 1)
    BY <1>6, <1>7, <1>9, <1>10 DEF Promise!Kept
  <1>12. Promise!FrontLost(was, now)
    BY <1>5, <1>7, <1>8, <1>11 DEF Promise!FrontLost
  <1>13. now = Held'
    BY <1>4 DEF now, Held
  <1>14. QED
    BY <1>12, <1>13 DEF Promise!Next, was, Held

\* So is one that writes the next record.
LEMMA GrowsPromised ==
    ASSUME HeadInv, HeadInv', NEW n, n = ScanForHead, Grows(n)
    PROVE  Promise!Next
  <1>1. n \in Nat \ {0} /\ Ring(num, n) /\ InRing = RecordsOf(num, n)
    BY DEF HeadInv
  <1>2. /\ Ring(num', n + 1) /\ Whole(num', n)
        /\ \A p \in Places \ {Home(n)} : Survives(p)
        /\ n + 1 \in Nat \ {0}
    BY <1>1 DEF Grows
  <1>3. ScanForHead' = n + 1
    BY <1>2, RingUnique DEF HeadInv
  <1>4. InRing' = RecordsOf(num', n + 1)
    BY <1>3 DEF HeadInv
  <1>5. RecordsOf(num', n + 1) = {s \in 1..n : s >= FirstOf(n) - (Records - PerSector)}
    BY <1>1, <1>2, WholeRun
  <1>6. FirstOf(n) \in 1..n
    BY <1>1, FirstPositive
  <1>7. num'[Home(n)] = n
    <2>1. n \in 1..n /\ n >= FirstOf(n) - (Records - PerSector)
      BY <1>1, <1>6, Geometry
    <2>2. QED
      BY <1>2, <2>1 DEF Whole
  <1>8. ASSUME NEW s \in RecordsOf(num', n + 1), s # n
        PROVE  s \in RecordsOf(num, n) /\ body'[Home(s)] = body[Home(s)]
    <2>1. s \in 1..((n + 1) - 1) /\ num'[Home(s)] = s
      BY DEF RecordsOf
    <2>2. s \in 1..(n - 1)
      BY <1>1, <1>8, <2>1
    <2>3. Home(s) \in Places /\ s # Blank
      BY <2>2, HomeType DEF Blank
    <2>4. Home(s) # Home(n)
      BY <1>7, <1>8, <2>1
    <2>5. QED
      BY <1>2, <2>1, <2>2, <2>3, <2>4 DEF Survives, RecordsOf
  <1>9. n \notin RecordsOf(num, n)
    BY <1>1 DEF RecordsOf
  <1> DEFINE was == Held
             now == [s \in RecordsOf(num', n + 1) |-> body'[Home(s)]]
  <1>10. DOMAIN was = RecordsOf(num, n) /\ DOMAIN now = RecordsOf(num', n + 1)
    BY <1>1 DEF Held
  <1>11. Promise!Newest(was) = n - 1
    BY <1>1, <1>10, NewestRead
  <1>12. \A r \in DOMAIN was \cap DOMAIN now : now[r] = was[r]
    BY <1>1, <1>8, <1>9, <1>10 DEF Held
  <1> HIDE DEF was, now
  <1>13. n \in DOMAIN now /\ DOMAIN now \subseteq DOMAIN was \cup {n}
    <2>1. n \in DOMAIN now
      BY <1>1, <1>5, <1>6, <1>10, Geometry
    <2>2. QED
      BY <1>8, <1>10, <2>1
  <1>14. \A r \in DOMAIN now : r..n \subseteq DOMAIN now
    <2>1. ASSUME NEW r \in DOMAIN now, NEW s \in r..n
          PROVE  s \in DOMAIN now
      <3>1. r \in 1..n /\ r >= FirstOf(n) - (Records - PerSector)
        BY <1>5, <1>10
      <3>2. s \in 1..n /\ s >= FirstOf(n) - (Records - PerSector)
        BY <1>6, <3>1, Geometry
      <3>3. QED
        BY <1>5, <1>10, <3>2
    <2>2. QED
      BY <2>1
  <1>15. Promise!Kept(was, now, n, Records - PerSector + 1)
    <2>1. n - (Records - PerSector + 1) + 1 = n - (Records - PerSector)
      BY <1>1, Geometry
    <2>2. ASSUME NEW r \in (n - (Records - PerSector))..n, r > 0
          PROVE  r \in DOMAIN now
      BY <1>1, <1>5, <1>6, <1>10, <2>2, Geometry
    <2>3. QED
      BY <1>12, <2>1, <2>2 DEF Promise!Kept
  <1>16. Promise!Newest(was) + 1 = n
    BY <1>1, <1>11
  <1>17. Promise!Appended(was, now)
    BY <1>13, <1>14, <1>15, <1>16 DEF Promise!Appended
  <1>18. now = Held'
    BY <1>4 DEF now, Held
  <1>19. QED
    BY <1>17, <1>18 DEF Promise!Next, was, Held

\* The ring and the head a boot finds in it are the log event_log.h promises,
\* for every number and size of sectors and whatever the power or the flash
\* does in an erase or a program: numbers go up by one for ever, no record
\* changes, and only the oldest are lost.
THEOREM RingKeepsPromise ==
    ASSUME NoTornNumber
    PROVE  Spec => KeepsLog
  <1>1. Init => Promise!Init
    <2>1. SUFFICES ASSUME Init PROVE Promise!Init
      OBVIOUS
    <2>2. HeadInv
      BY <2>1, LogInit, HeadFound
    <2>3. \A p \in Places : num[p] = Blank
      BY <2>1 DEF Init
    <2>4. InRing = {}
      <3>1. ASSUME NEW s \in InRing PROVE FALSE
        <4>1. s \in Nat /\ s # 0 /\ num[Home(s)] = s
          BY <2>2, <3>1 DEF HeadInv, RecordsOf
        <4>2. Home(s) \in Places /\ s # Blank
          BY <4>1, HomeType DEF Blank
        <4>3. QED
          BY <2>3, <4>1, <4>2
      <3>2. QED
        BY <3>1
    <2>5. QED
      BY <2>4 DEF Promise!Init
  <1>2. HeadInv /\ HeadInv' /\ [Next]_vars => [Promise!Next]_Held
    <2>1. SUFFICES ASSUME HeadInv, HeadInv', [Next]_vars PROVE Promise!Next
      OBVIOUS
    <2>2. PICK n \in Nat \ {0} : n = ScanForHead /\ Ring(num, n) /\ (ok => next = n)
      BY <2>1 DEF HeadInv
    <2>3. Stays(n) \/ Grows(n)
      BY <2>1, <2>2, LogStep
    <2>4. QED
      BY <2>1, <2>2, <2>3, StaysPromised, GrowsPromised
  <1>3. QED
    BY <1>1, <1>2, HeadInvariant, PTL DEF Spec, KeepsLog, Promise!Spec, Held

(***************************************************************************)
(* The collector.  What it has been sent is what the ring holds under that *)
(* number, as long as the ring holds it.                                   *)
(***************************************************************************)

CollectorInv ==
    /\ since \in Nat
    /\ \A r \in got : r[1] \in 1..(ScanForHead - 1)
    /\ \A r \in got : num[Home(r[1])] = r[1] => body[Home(r[1])] = r[2]
    /\ \A s \in 1..since : s \in told \/ \E r \in got : r[1] = s
    /\ \A r, q \in got : r[1] = q[1] => r = q
    /\ \A r \in got : r = <<r[1], r[2]>>

\* Every step but a LOG SINCE leaves what the collector has true.
LEMMA CollectorKept ==
    ASSUME HeadInv, HeadInv', CollectorInv, UNCHANGED collector,
           NEW n, n = ScanForHead, Stays(n) \/ Grows(n)
    PROVE  CollectorInv'
  <1>1. n \in Nat \ {0} /\ Ring(num, n)
    BY DEF HeadInv
  <1>2. CASE Stays(n)
    <2>1. ScanForHead' = n
      BY <1>1, <1>2, RingUnique DEF Stays, HeadInv
    <2>2. ASSUME NEW r \in got, num'[Home(r[1])] = r[1]
          PROVE  body'[Home(r[1])] = r[2]
      <3>1. r[1] \in 1..(n - 1)
        BY DEF CollectorInv
      <3>2. Home(r[1]) \in Places /\ r[1] # Blank
        BY <3>1, HomeType DEF Blank
      <3>3. QED
        BY <1>2, <2>2, <3>2 DEF Stays, Survives, CollectorInv
    <2>3. QED
      BY <2>1, <2>2 DEF CollectorInv, collector
  <1>3. CASE Grows(n)
    <2>1. n + 1 \in Nat \ {0} /\ Ring(num', n + 1) /\ Whole(num', n)
      BY <1>1, <1>3 DEF Grows
    <2>2. ScanForHead' = n + 1
      BY <2>1, RingUnique DEF HeadInv
    <2>3. num'[Home(n)] = n
      <3>1. FirstOf(n) \in 1..n
        BY <1>1, FirstPositive
      <3>2. n \in 1..n /\ n >= FirstOf(n) - (Records - PerSector)
        BY <1>1, <3>1, Geometry
      <3>3. QED
        BY <2>1, <3>2 DEF Whole
    <2>4. ASSUME NEW r \in got, num'[Home(r[1])] = r[1]
          PROVE  body'[Home(r[1])] = r[2]
      <3>1. r[1] \in 1..(n - 1)
        BY DEF CollectorInv
      <3>2. Home(r[1]) \in Places /\ r[1] # Blank /\ Home(r[1]) # Home(n)
        BY <1>1, <2>3, <2>4, <3>1, HomeType DEF Blank
      <3>3. QED
        BY <1>3, <2>4, <3>2 DEF Grows, Survives, CollectorInv
    <2>5. \A r \in got : r[1] \in 1..((n + 1) - 1)
      BY <1>1 DEF CollectorInv
    <2>6. QED
      BY <2>2, <2>4, <2>5 DEF CollectorInv, collector
  <1>4. QED
    BY <1>2, <1>3

\* The largest of the numbers that were sent.
LEMMA LargestSent ==
    ASSUME NEW S, NEW n \in Nat, S \subseteq 1..n, S # {}
    PROVE  Largest(S) \in S /\ \A t \in S : t <= Largest(S)
  <1>1. PICK x \in {n - s : s \in S} :
           \A y \in {n - s : s \in S} : ~(<<y, x>> \in OpToRel(<, Nat))
    <2>1. \A s \in S : n - s \in Nat
      OBVIOUS
    <2>2. {n - s : s \in S} \subseteq Nat
      BY <2>1
    <2>3. PICK s \in S : TRUE
      OBVIOUS
    <2>4. n - s \in {n - t : t \in S}
      BY <2>3
    <2>5. {n - t : t \in S} # {}
      BY <2>4
    <2>6. QED
      BY <2>2, <2>5, WFMin, NatLessThanWellFounded
  <1>2. PICK m \in S : x = n - m
    BY <1>1
  <1>3. \A t \in S : t <= m
    <2>1. ASSUME NEW t \in S PROVE t <= m
      <3>1. n - t \in Nat /\ n - m \in Nat /\ t \in Nat /\ m \in Nat
        OBVIOUS
      <3>2. ~(n - t < n - m)
        BY <1>1, <1>2, <3>1 DEF OpToRel
      <3>3. QED
        BY <3>1, <3>2
    <2>2. QED
      BY <2>1
  <1>4. QED
    BY <1>3 DEF Largest

\* What LOG SINCE answers: everything up to next=, or gap=.
LEMMA ReplyTold ==
    ASSUME HeadInv, ok, since \in Nat, NEW want \in Wants
    PROVE  LET reply == Reply(want)
           IN  /\ reply.next \in Nat
               /\ \A s \in reply.sent : s \in 1..(ScanForHead - 1) /\ num[Home(s)] = s
               /\ reply.gap = 0 => (since + 1)..reply.next \subseteq reply.sent
  <1> DEFINE newest == next - 1
             oldest == Oldest
             from == IF oldest > since + 1 THEN oldest ELSE since + 1
             readable == {s \in from..newest : Reads(s)}
             sent == {s \in readable : Cardinality({t \in readable : t < s}) < want}
             passed == from..(IF Cardinality(sent) = want THEN Largest(sent) ELSE newest)
  <1>1. next = ScanForHead /\ newest \in Nat
    BY DEF HeadInv
  <1>2. \A s \in sent : s \in 1..newest /\ s \in from..newest /\ num[Home(s)] = s
    BY DEF Reads
  <1>3. CASE since > newest
    <2>1. Reply(want) = [sent |-> {}, next |-> newest, gap |-> 2]
      BY <1>3 DEF Reply
    <2>2. QED
      BY <1>1, <2>1
  <1>4. CASE ~(since > newest)
    <2>1. Reply(want) = [sent |-> sent,
                         next |-> IF sent = {} THEN since ELSE Largest(sent),
                         gap |-> Gap(passed, sent, from # since + 1)]
      BY <1>4 DEF Reply
    <2> HIDE DEF sent, passed, readable, oldest, newest
    <2>2. sent \subseteq 1..newest
      BY <1>2
    <2>3. sent # {} => /\ Largest(sent) \in sent /\ Largest(sent) \in 1..newest
                       /\ \A t \in sent : t <= Largest(sent)
      BY <1>1, <2>2, LargestSent
    <2>4. ASSUME Reply(want).gap = 0
          PROVE  (since + 1)..Reply(want).next \subseteq sent
      <3>1. from = since + 1 /\ sent = passed
        BY <2>1, <2>4 DEF Gap
      <3>2. CASE sent = {}
        BY <2>1, <3>2
      <3>3. CASE sent # {}
        <4>1. Reply(want).next = Largest(sent) /\ Largest(sent) \in 1..newest
          BY <2>1, <2>3, <3>3
        <4>2. passed = (since + 1)..(IF Cardinality(sent) = want THEN Largest(sent)
                                     ELSE newest)
          BY <3>1 DEF passed
        <4>3. (since + 1)..Largest(sent) \subseteq passed
          BY <1>1, <4>1, <4>2
        <4>4. QED
          BY <3>1, <4>1, <4>3
      <3>4. QED
        BY <3>2, <3>3
    <2>5. Reply(want).next \in Nat /\ Reply(want).sent = sent
      BY <1>1, <2>1, <2>3
    <2>6. \A s \in sent : s \in 1..(ScanForHead - 1) /\ num[Home(s)] = s
      BY <1>1, <1>2 DEF newest
    <2>7. QED
      BY <2>4, <2>5, <2>6
  <1>5. QED
    BY <1>3, <1>4

\* A LOG SINCE leaves the collector with the truth.
LEMMA CollectTrue ==
    ASSUME HeadInv, HeadInv', CollectorInv, NEW want \in Wants, Collect(want)
    PROVE  CollectorInv'
  <1>1. PICK reply : reply = Reply(want)
    OBVIOUS
  <1>2. /\ since' = reply.next
        /\ got' = got \cup {<<s, body[Home(s)]>> : s \in reply.sent}
        /\ told' = IF reply.gap = 0 THEN told ELSE told \cup ((since + 1)..reply.next)
        /\ ok /\ num' = num /\ body' = body
    BY <1>1 DEF Collect, flash
  <1>3. /\ since \in Nat /\ reply.next \in Nat
        /\ \A s \in reply.sent : s \in 1..(ScanForHead - 1) /\ num[Home(s)] = s
        /\ reply.gap = 0 => (since + 1)..reply.next \subseteq reply.sent
    BY <1>1, <1>2, ReplyTold DEF CollectorInv
  <1>4. ScanForHead' = ScanForHead
    <2>1. Ring(num', ScanForHead) /\ Ring(num', ScanForHead')
          /\ ScanForHead \in Nat \ {0} /\ ScanForHead' \in Nat \ {0}
      BY <1>2 DEF HeadInv
    <2>2. QED
      BY <2>1, RingUnique
  <1>5. \A r \in got' : \/ r \in got
                        \/ \E s \in reply.sent : r = <<s, body[Home(s)]>>
    BY <1>2
  <1>6. ASSUME NEW r \in got'
        PROVE  /\ r[1] \in 1..(ScanForHead - 1)
               /\ num[Home(r[1])] = r[1] => body[Home(r[1])] = r[2]
               /\ r = <<r[1], r[2]>>
    <2>1. CASE r \in got
      BY <2>1 DEF CollectorInv
    <2>2. ASSUME NEW s \in reply.sent, r = <<s, body[Home(s)]>>
          PROVE  /\ r[1] \in 1..(ScanForHead - 1)
                 /\ num[Home(r[1])] = r[1] => body[Home(r[1])] = r[2]
                 /\ r = <<r[1], r[2]>>
      BY <1>3, <2>2
    <2>3. QED
      BY <1>5, <2>1, <2>2
  <1>7. ASSUME NEW r \in got', NEW q \in got', r[1] = q[1]
        PROVE  r = q
    <2>1. CASE r \in got /\ q \in got
      BY <1>7, <2>1 DEF CollectorInv
    <2>2. ASSUME num[Home(r[1])] = r[1]
          PROVE  r = q
      <3>1. r[2] = body[Home(r[1])] /\ q[2] = body[Home(q[1])]
        BY <1>6, <1>7, <2>2
      <3>2. QED
        BY <1>6, <1>7, <3>1
    <2>3. r \notin got \/ q \notin got => num[Home(r[1])] = r[1]
      BY <1>3, <1>5, <1>7
    <2>4. QED
      BY <2>1, <2>2, <2>3
  <1>8. ASSUME NEW s \in 1..reply.next
        PROVE  s \in told' \/ \E r \in got' : r[1] = s
    <2>1. CASE s \in 1..since
      BY <1>2, <2>1 DEF CollectorInv
    <2>2. CASE s \in (since + 1)..reply.next
      <3>1. CASE reply.gap = 0
        <4>1. s \in reply.sent
          BY <1>3, <2>2, <3>1
        <4>2. <<s, body[Home(s)]>> \in got' /\ <<s, body[Home(s)]>>[1] = s
          BY <1>2, <4>1
        <4>3. QED
          BY <4>2
      <3>2. CASE reply.gap # 0
        BY <1>2, <2>2, <3>2
      <3>3. QED
        BY <3>1, <3>2
    <2>3. QED
      BY <1>3, <2>1, <2>2
  <1>9. QED
    BY <1>2, <1>3, <1>4, <1>6, <1>7, <1>8 DEF CollectorInv

\* A collector that goes on from next= has every record up to there or was told
\* of a gap, and what it has is what the ring holds under that number.
THEOREM CollectorIsTold ==
    ASSUME NoTornNumber
    PROVE  Spec => []CollectorKnows
  <1>1. Init => CollectorInv
    BY DEF Init, CollectorInv
  <1>2. HeadInv /\ HeadInv' /\ CollectorInv /\ [Next]_vars => CollectorInv'
    <2>1. SUFFICES ASSUME HeadInv, HeadInv', CollectorInv, [Next]_vars PROVE CollectorInv'
      OBVIOUS
    <2>2. PICK n \in Nat \ {0} : n = ScanForHead /\ Ring(num, n) /\ (ok => next = n)
      BY <2>1 DEF HeadInv
    <2>3. Stays(n) \/ Grows(n)
      BY <2>1, <2>2, LogStep
    <2>4. ASSUME NEW want \in Wants, Collect(want)
          PROVE  CollectorInv'
      BY <2>1, <2>4, CollectTrue
    <2>5. CASE UNCHANGED collector
      BY <2>1, <2>2, <2>3, <2>5, CollectorKept
    <2>6. (\E want \in Wants : Collect(want)) \/ UNCHANGED collector
      BY <2>1 DEF Next, Begin, BootNote, Event, CoilWrite, Summary, Down, Tick, vars,
                  collector
    <2>7. QED
      BY <2>4, <2>5, <2>6
  <1>3. HeadInv /\ CollectorInv => CollectorKnows
    BY DEF HeadInv, CollectorInv, CollectorKnows, Reads
  <1>4. QED
    BY <1>1, <1>2, <1>3, HeadInvariant, PTL DEF Spec
=============================================================================
