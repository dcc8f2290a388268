-------------------------------- MODULE Clock --------------------------------
(***************************************************************************)
(* The time that the modules about windows, limits and leases read.        *)
(***************************************************************************)
EXTENDS Integers

VARIABLE clock

ClockInit == clock = 1

\* Time passes, up to a bound.
Tick(last) == clock < last /\ clock' = clock + 1
=============================================================================
