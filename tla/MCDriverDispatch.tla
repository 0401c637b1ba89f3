---------------------------- MODULE MCDriverDispatch ----------------------------
(* The instances of DriverDispatch that TLC checks. *)
EXTENDS DriverDispatch

(* Disabled, every call times out, and the smallest frequency that leaves calls
   to succeed; DriverDispatchProofs covers the others, the default of 5 too.  *)
MCFreqs == {-1, 0, 1, 2}
=============================================================================
