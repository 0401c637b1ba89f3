-------------------------- MODULE MCLocationDatabase --------------------------
(* The instances of LocationDatabase that TLC checks. *)
EXTENDS LocationDatabase, TLC

(* The seed of database.go with the order of its identifiers (1, 123, 567,
   392, 731) and with gaps that the creations of a run cannot close.         *)
MCSeed == << [id |-> 1,  name |-> "My Home"],
             [id |-> 5,  name |-> "Rachel's"],
             [id |-> 13, name |-> "Amazing Coffee"],
             [id |-> 9,  name |-> "Trom Chocolatier"],
             [id |-> 17, name |-> "Japanese Desserts"] >>

MCNames == {"My Home", "Rachel's", "Amazing Coffee", "Trom Chocolatier",
            "Japanese Desserts", "New Place"}

Symmetry == Permutations(Requests)
=============================================================================
