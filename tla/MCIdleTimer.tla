---------------------------- MODULE MCIdleTimer ----------------------------
(* IdleTimer for TLC: a timeout of five polls leaves room for a hold, a     *)
(* blocked handler and several polls inside one countdown; three source ids *)
(* are one more than the timer can hold at once, so a leaked one shows.     *)
EXTENDS IdleTimer

Ticks   == 5
Sources == 1 .. 3
=============================================================================
