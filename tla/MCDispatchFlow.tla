----------------------------- MODULE MCDispatchFlow -----------------------------
(* The instances of DispatchFlow that TLC checks. *)
EXTENDS DispatchFlow, FiniteSets

Forks == Groups \ {Baseline}

(* Bound: the driver alone, with sessions that end and crash and a message that
   is there twice ...                                                        *)
DriverAlone == /\ \A g \in Forks : session[g] = "closed" /\ interrupted[g] = 0
               /\ rerouted = {}

(* ... or the driver and its forks with one message and changing routes, where
   no Store fails.                                                           *)
WithForks == /\ \A p \in Partitions : Len(topic[p]) <= 1
             /\ \A g \in Groups : session[g] # "closing" /\ interrupted[g] = 0
             /\ \A c \in Claims : committed[c] = 0
             /\ unstored = {}

(* Bound: the calls of the route service for one dispatch that are under way at
   the same time have read the same list.                                    *)
OneListRead == /\ \A c \in Claims : Cardinality(seen[c]) <= 1
               /\ \A r \in Requests : Cardinality(lateSeen[r]) <= 1

DriverAloneOrWithForks == OneListRead /\ (DriverAlone \/ WithForks)
=============================================================================
