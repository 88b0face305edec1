------------------------------ MODULE MCRtuHub ------------------------------
(* Small instances of RtuHub for TLC.                                      *)
EXTENDS RtuHub

\* A unit on each of two channels, and one wired straight to the bus
HubChannels == [u \in 1..3 |-> IF u = 3 THEN 0 ELSE u]

Hub(retry, settle, gap, budget) ==
    [retry |-> retry, settle |-> settle, gap |-> gap, budget |-> budget]

\* A master that will not wait out a switch, one that will wait for one in-line
\* attempt but not for two, and one without a deadline
ThreeMasters == {Hub(2, 4, 1, 5), Hub(3, 4, 0, 7), Hub(3, 4, 0, 0)}
=============================================================================
