----------------------------- MODULE DriverDispatch -----------------------------
(***************************************************************************)
(* The work on a dispatch in the driver: processDispatchRequest of         *)
(* services/driver/consumer.go, in the goroutines of all claimed           *)
(* partitions at once.  A goroutine looks its drivers up (DriverStore),    *)
(* which may fail, then has the routes of all of them found and chooses    *)
(* one (BestETA), which may fail too, and takes the next message.  The     *)
(* goroutines share the error simulator of the store and the worker pool.  *)
(*                                                                         *)
(* Which messages come, and the notifications, are in DispatchFlow.        *)
(***************************************************************************)
EXTENDS DriverStore, BestETA

VARIABLE part           \* the part of its dispatch each goroutine is at

vars == <<storeVars, poolVars, part>>

Parts == {"none", "lookup", "route"}

(* The goroutine waits for a message: its first, or the one after a dispatch
   that was dropped, or answered with a driver or an error.                 *)
Free(c) == \/ part[c] = "none"
           \/ part[c] = "lookup" /\ lookup[c].stage = "failed"
           \/ part[c] = "route" /\ call[c].stage = "answered"

-----------------------------------------------------------------------------
Init == /\ StoreInit
        /\ PoolInit
        /\ part = [c \in Claims |-> "none"]

(* A message is there for this group: its drivers are looked up. *)
FindDrivers(c) ==
    /\ Free(c)
    /\ Begin(c)
    /\ part' = [part EXCEPT ![c] = "lookup"]
    /\ UNCHANGED poolVars

(* Locations are asked for one after the other. *)
Locate(c) ==
    /\ part[c] = "lookup"
    /\ GetDriver(c) \/ Timeout(c)
    /\ UNCHANGED <<poolVars, part>>

(* All are located: bestETA.Get is called. *)
FindBest(c) ==
    /\ part[c] = "lookup"
    /\ lookup[c].stage = "found"
    /\ Start(c)
    /\ part' = [part EXCEPT ![c] = "route"]
    /\ UNCHANGED storeVars

(* The calls of Get and the workers of the pool go on. *)
PoolWorks ==
    /\ \/ \E c \in Claims : Choose(c) \/ \E w \in Workers : Submit(c, w)
       \/ \E w \in Workers : Work(w)
    /\ UNCHANGED <<storeVars, part>>

Next == \/ \E c \in Claims : FindDrivers(c) \/ Locate(c) \/ FindBest(c)
        \/ PoolWorks

Spec == Init /\ [][Next]_vars

(* A lookup sleeps for a random but bounded time, and goes on. *)
FairSpec == /\ Spec
            /\ PoolFairness
            /\ \A c \in Claims : WF_vars(Locate(c)) /\ WF_vars(FindBest(c))

-----------------------------------------------------------------------------
TypeOK == /\ StoreTypeOK
          /\ PoolTypeOK
          /\ part \in [Claims -> Parts]

(* processDispatchRequest returns: lookups end, the dispatches that share the
   pool do not wait for one another, and a failed route does not leave its
   caller waiting.                                                           *)
DispatchReturns == \A c \in Claims : (part[c] = "lookup") ~> Free(c)

=============================================================================
