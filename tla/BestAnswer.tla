------------------------------ MODULE BestAnswer ------------------------------
(***************************************************************************)
(* What services/driver/best_eta.go promises to a dispatch: the route of   *)
(* every driver is asked for once, and the answer, given when all of them  *)
(* are known, is a driver none is faster than, or a failure if one of the  *)
(* routes could not be found.                                              *)
(***************************************************************************)
EXTENDS Integers

CONSTANTS Callers,      \* dispatches
          Drivers,      \* how many drivers each of them chooses from
          ETAs,         \* times a driver may need
          Error,        \* outcome of a route that could not be found
          Pending       \* outcome of a route that is not known yet

VARIABLES outcome,      \* per caller, the outcome of each driver's route
          answer        \* per caller: 0 before, the driver, or Error

DriverSet == 1..Drivers

Fastest(o) == {d \in DriverSet : \A e \in DriverSet : o[d] <= o[e]}

Init == /\ outcome = [c \in Callers |-> [d \in DriverSet |-> Pending]]
        /\ answer = [c \in Callers |-> 0]

(* A dispatch begins. *)
Ask(c) == /\ outcome' = [outcome EXCEPT ![c] = [d \in DriverSet |-> Pending]]
          /\ answer' = [answer EXCEPT ![c] = 0]

(* A route becomes known, once. *)
Learn(c) == /\ answer[c] = 0
            /\ \E d \in DriverSet, o \in ETAs \cup {Error} :
                  /\ outcome[c][d] = Pending
                  /\ outcome' = [outcome EXCEPT ![c][d] = o]
            /\ UNCHANGED answer

(* The answer takes all routes into account. *)
Answer(c) == /\ answer[c] = 0
             /\ \A d \in DriverSet : outcome[c][d] # Pending
             /\ IF \E d \in DriverSet : outcome[c][d] = Error
                THEN answer' = [answer EXCEPT ![c] = Error]
                ELSE \E d \in Fastest(outcome[c]) : answer' = [answer EXCEPT ![c] = d]
             /\ UNCHANGED outcome

Next == \E c \in Callers : Ask(c) \/ Learn(c) \/ Answer(c)

AnswerSpec == Init /\ [][Next]_<<outcome, answer>>

=============================================================================
