------------------------------ MODULE MCClock ------------------------------
(* Small instances of Clock for TLC: a day of three minutes, a week of two  *)
(* days, four days in all of which two are believable.                      *)
EXTENDS Clock

Schedules(slots, minutes, days, server) ==
    [days |-> days, server |-> server, enabled |-> TRUE, armed |-> slots,
     hhmm |-> minutes, net |-> server]

\* Two slots on one minute of every day, without a LAN; one of them moved, on
\* odd days only, with a server; the first again, with a server
TwoSlots ==
    {Schedules({1, 2}, <<1, 1>>, {}, FALSE),
     Schedules({1, 2}, <<1, 2>>, {1}, TRUE),
     Schedules({1, 2}, <<1, 1>>, {}, TRUE)}
\* One slot a day
OneSlot == {Schedules({1}, <<1>>, {}, FALSE)}
=============================================================================
