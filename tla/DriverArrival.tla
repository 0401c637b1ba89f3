---------------------------- MODULE DriverArrival ----------------------------
(***************************************************************************)
(* How the time a driver needs travels as text.                            *)
(*                                                                         *)
(* The driver service writes it with Go's Duration.String into the body of *)
(* its notification ("Driver T712345C arriving in 3m20s"), and the page    *)
(* reads it back with a regular expression (useGetRequestArrival.tsx).     *)
(* Times are whole seconds: the route service answers in seconds.          *)
(***************************************************************************)
EXTENDS Integers

(* The texts that Duration.String writes: an optional sign, and the hours, the
   minutes and the seconds, the leading ones left out when they are zero.    *)
Durations == [negative : BOOLEAN, hours : Nat, minutes : 0..59, seconds : 0..59]

Duration(eta) ==
    LET all == IF eta < 0 THEN -eta ELSE eta
    IN  [negative |-> eta < 0,
         hours    |-> all \div 3600,
         minutes  |-> (all % 3600) \div 60,
         seconds  |-> all % 60]

(* mutant: the pattern has no minutes *)
SecondsOnly(d) == IF d.negative /\ d.hours = 0 THEN -d.seconds ELSE d.seconds

(* What the page makes of such a text.  The pattern knows no hours: it matches
   from the minutes on when hours are written, and a sign, which stands before
   the hours, is then not next to what it matches.                           *)
Seconds(d) ==
    LET total == d.minutes * 60 + d.seconds
    IN  IF d.negative /\ d.hours = 0 THEN -total ELSE total

(* The times that the page can show. *)
Readable == (-3599)..3599
=============================================================================
