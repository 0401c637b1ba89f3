----------------------------- MODULE DispatchClaims -----------------------------
(***************************************************************************)
(* What the parts of the driver that work on a dispatch have in common:    *)
(* the goroutines of the claimed partitions (ConsumeClaim of               *)
(* services/driver/consumer.go), which process one message after the       *)
(* other, and the drivers that each dispatch chooses from.                 *)
(***************************************************************************)
EXTENDS Integers

CONSTANTS Claims,       \* goroutines that process dispatch requests
          Drivers       \* how many drivers FindDriverIDs returns

ASSUME DriversAssumption == Drivers \in Nat \ {0}

=============================================================================
