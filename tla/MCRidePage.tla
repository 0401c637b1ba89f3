------------------------------ MODULE MCRidePage ------------------------------
(* The instances of RidePage that TLC checks. *)
EXTENDS RidePage, TLC

CONSTANTS d1, d2, p2

(* One driver is a second away, as with the fast route, the other 3m20s. *)
MCETA == [d \in Drivers |-> IF d = d1 THEN 1 ELSE 200]

-----------------------------------------------------------------------------
(* Bounds of the run on safety.  On the form anything is chosen, and rides are
   requested that no notification follows; ...                               *)
NoPolls == \A p \in Polls : poll[p] = NoPoll

Form == NoPolls /\ ~overlapped /\ stored = 0 /\ \A r \in Rides : flow[r] = 1

(* ... otherwise there is one location, *)
Plain == /\ locations = {42}
         /\ selected.pickup # NaN
         /\ selected.dropoff \in {Unselected, selected.pickup}

Quiet == poll[p2] = NoPoll /\ ~overlapped

Storing == \E r \in Rides : seen[r] # {}

(* and either two rides, whose polls do not overlap and whose Stores do, until
   the notification that one replaced is stored again, or fail; *)
TwoRides == /\ Plain /\ Quiet /\ disturbed = 0
            /\ \/ /\ ~missed /\ stored <= 4
                  /\ stored > 2 => \A r \in Rides : post[r] = "sent"
               \/ stored <= 2 /\ (missed => ~overwritten /\ ~Storing)

OneRide == Plain /\ lastRequestID = 2 /\ selected = NothingSelected

(* or one ride with overlapping polls, *)
Overlaps == /\ OneRide /\ stored <= 2 /\ Len(shown) <= 3 /\ disturbed = 0
            /\ missed => ~Storing

(* a repeated delivery after the key expired, whose driver may be another one, *)
Again == /\ OneRide /\ Quiet /\ stored <= 3
         /\ \A k \in DOMAIN about : about[k].step \in {3, 5}

(* or all its notifications, with a repeated delivery or an expiry. *)
Complete == /\ OneRide /\ Quiet /\ disturbed <= 1
            /\ Storing => NoPolls
            /\ \A k \in DOMAIN about : about[k].plate # d2

RidesBound == Form \/ TwoRides \/ Overlaps \/ Again \/ Complete
-----------------------------------------------------------------------------
(* Bounds of the run on liveness.  Until the ride is requested the page does not
   poll; ...                                                                 *)
Requesting == lastRequestID = 1 /\ page # "failed" /\ NoPolls

(* ... then polls overlap while every notification is stored, *)
OverlapsLive == /\ OneRide /\ post[1] = "sent" /\ ~missed /\ disturbed = 0
                /\ Storing => NoPolls

(* or they do not, and anything may happen to the ride. *)
SingleLive == OneRide /\ Quiet /\ stored <= 2 /\ (Storing => NoPolls)

LiveBound == Requesting \/ OverlapsLive \/ SingleLive
=============================================================================
