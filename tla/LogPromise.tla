----------------------------- MODULE LogPromise -----------------------------
(***************************************************************************)
(* What the event log promises (src/include/event_log.h): records are      *)
(* numbered 1, 2, 3, ... for ever, a record never changes once it is       *)
(* there, and only the oldest ones are lost, at least Keep staying.        *)
(***************************************************************************)
EXTENDS Integers

CONSTANT Keep          \* records never given up once written, more than one

VARIABLE held          \* the records that can still be read, by number

Newest(log) ==
    IF DOMAIN log = {} THEN 0
    ELSE CHOOSE r \in DOMAIN log : \A q \in DOMAIN log : q <= r

\* What is lost is old: of the records up to new the last n are there, and none
\* has changed.
Kept(was, now, new, n) ==
    /\ \A r \in (new - n + 1)..new : r > 0 => r \in DOMAIN now
    /\ \A r \in DOMAIN was \cap DOMAIN now : now[r] = was[r]

\* A record is written, at the cost of some of the oldest: from the oldest one
\* that is left to the new one none is missing.
Appended(was, now) ==
    LET new == Newest(was) + 1
    IN  /\ new \in DOMAIN now
        /\ DOMAIN now \subseteq DOMAIN was \cup {new}
        /\ \A r \in DOMAIN now : r..new \subseteq DOMAIN now
        /\ Kept(was, now, new, Keep)

\* A write that fails may cost the oldest records all the same.
FrontLost(was, now) ==
    /\ DOMAIN now \subseteq DOMAIN was
    /\ Kept(was, now, Newest(was), Keep - 1)

Init == held = [r \in {} |-> 0]

\* (The log before and after the step, each looked at once.)
Next ==
    \E was \in {held}, now \in {held'} :
        Appended(was, now) \/ FrontLost(was, now)

Spec == Init /\ [][Next]_held
=============================================================================
