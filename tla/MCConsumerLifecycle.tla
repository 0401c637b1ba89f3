------------------------- MODULE MCConsumerLifecycle -------------------------
(* The instances of ConsumerLifecycle that TLC checks. *)
EXTENDS ConsumerLifecycle
=============================================================================
