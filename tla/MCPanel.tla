------------------------------ MODULE MCPanel ------------------------------
(* Small instances of Panel for TLC.                                       *)
EXTENDS Panel

Cfg(act, lamps, out, slots) ==
    [act |-> act, lamps |-> lamps, out |-> out, slots |-> slots,
     enabled |-> TRUE]

Fact(fault, traffic, ota) ==
    [fault |-> fault, traffic |-> traffic, ota |-> ota, link |-> FALSE,
     client |-> FALSE]

\* Facts that put the gateway's states and an update in reach
QuietOrUpdate == {Fact(FALSE, FALSE, FALSE), Fact(FALSE, FALSE, TRUE)}

\* White button resets, yellow runs the lamp test; the shelf is on output 1,
\* or is moved to output 2; lamps on or off.
ResetAndTest == <<"reset", "lamp_test">>
ShelfConfigs ==
    {Cfg(ResetAndTest, TRUE, <<"shelf", "busy">>, 0),
     Cfg(ResetAndTest, FALSE, <<"shelf", "busy">>, 0),
     Cfg(ResetAndTest, TRUE, <<"reset", "shelf">>, 0)}

\* Sweeps and resets, on a cabinet that a SAVE may shrink or grow.
SweepConfigs ==
    {Cfg(<<"all_unlock", "all_8">>, TRUE, <<"sweep", "none">>, 3),
     Cfg(<<"reset", "all_off">>, TRUE, <<"sweep", "none">>, 2)}

\* A cabinet of either kind, edited within its kind
ShelfOrSweeps == ShelfConfigs \cup SweepConfigs
EditsOfAKind == (ShelfConfigs \X ShelfConfigs) \cup (SweepConfigs \X SweepConfigs)
=============================================================================
