----------------------------- MODULE MCDevices -----------------------------
(***************************************************************************)
(* Two devices of the kernel: the console (Console) and the clock chip     *)
(* (Clock).  They share no state, so a behaviour is one of the one or of   *)
(* the other.                                                              *)
(*                                                                         *)
(* The clock starts before a leap day of a 400-year, an ordinary and a     *)
(* leap year, before a new year, before a month end, and before the day    *)
(* on which the seconds since 1970 no longer fit an int.                   *)
(***************************************************************************)
EXTENDS Console, Clock

VARIABLE part

MCStartDates == {<<27, 2, 0>>, <<27, 2, 23>>, <<27, 2, 24>>, <<30, 12, 9>>, <<29, 4, 37>>, <<18, 1, 38>>}

DevicesInit == /\ Init /\ ClockInit
               /\ \/ part = "clock"
                  \/ part = "console" /\ rtc = <<27, 2, 24>> /\ chip.bcd

DevicesNext == /\ UNCHANGED part
               /\ \/ part = "console" /\ Next /\ UNCHANGED cvars
                  \/ part = "clock" /\ ClockNext /\ UNCHANGED vars

DevicesSpec == DevicesInit /\ [][DevicesNext]_<<vars, cvars, part>> /\ Fairness
=============================================================================
