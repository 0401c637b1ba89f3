------------------------- MODULE MCNotificationStore -------------------------
(* The instances of NotificationStore that TLC checks.  A list never holds
   more than one entry per identifier, so the state space is finite without a
   constraint.                                                              *)
EXTENDS NotificationStore
=============================================================================
