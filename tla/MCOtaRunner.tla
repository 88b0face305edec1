---------------------------- MODULE MCOtaRunner -----------------------------
(* Small instances of OtaRunner for TLC.                                   *)
EXTENDS OtaRunner

\* Two modules on one hub channel
OneRow == [u \in 1..2 |-> 1]
\* Two modules on different channels
TwoRows == [u \in 1..2 |-> u]
\* One module on the hub
OneModule == [u \in {1} |-> 1]
\* Two rows, the first of two modules
TwoAndOne == [u \in 1..3 |-> IF u = 3 THEN 2 ELSE 1]
=============================================================================
