------------------------------ MODULE AppendLog ------------------------------
(***************************************************************************)
(* What a user of the notification store may expect of it: every session   *)
(* has a log of the steps reported for it, named by their identifiers,     *)
(* that only ever grows at its end and in which a step occurs at most      *)
(* once.  NotificationStore implements it for the sessions whose writers   *)
(* overlap on the same step only.                                          *)
(***************************************************************************)
EXTENDS Naturals, Sequences

CONSTANTS Sessions, IDs

(* log[s] is the history of session s *)
VARIABLE log

Recorded(l) == {l[i] : i \in DOMAIN l}

LogInit == log = [s \in Sessions |-> <<>>]

(* A step that was not reported yet is recorded at the end of the log. *)
Record(s, id) ==
    /\ id \notin Recorded(log[s])
    /\ log' = [log EXCEPT ![s] = Append(@, id)]

LogNext == \E s \in Sessions, id \in IDs : Record(s, id)

LogSpec == LogInit /\ [][LogNext]_log
=============================================================================
