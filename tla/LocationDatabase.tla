--------------------------- MODULE LocationDatabase ---------------------------
(***************************************************************************)
(* The location service over MySQL: services/location/database.go, called  *)
(* by the handlers of server.go.                                           *)
(*                                                                         *)
(* There is no migration: the first query that fails because the table     *)
(* does not exist (error 1146) creates it, inserts the seed row by row and *)
(* is tried again.  Requests run concurrently, each SQL statement is       *)
(* atomic, and no transaction or lock surrounds the setup, so two requests *)
(* may set up the table at once, or one may use it half seeded.  Any error *)
(* during the setup panics, which net/http recovers: the request is        *)
(* aborted where it stands.  MySQL keeps its data in an emptyDir           *)
(* (k8s/base/mysql/mysql.yaml), so a restart of its pod loses the table.   *)
(***************************************************************************)
EXTENDS Integers, Sequences

CONSTANTS Requests,     \* HTTP requests, each handled by its own goroutine
          Seed,         \* the rows of the seed, in order
          Names,        \* names of locations
          IDs           \* identifiers a client may name

Rows == [id : Nat, name : Names]

(* The seed as the code has it: rows of distinct identifiers and names. *)
ASSUME SeedAssumption ==
    /\ Seed \in Seq(Rows)
    /\ Seed # <<>>
    /\ \A i, j \in DOMAIN Seed :
          Seed[i].id = Seed[j].id \/ Seed[i].name = Seed[j].name => i = j

VARIABLES exists,       \* MySQL: whether the table exists
          rows,         \* MySQL: its rows
          nextID,       \* MySQL: its AUTO_INCREMENT counter
          stored,       \* indices of Seed inserted since it was created
          req,          \* where each request is
          disturbed     \* what happened to the database, see Disturbances

table == <<exists, rows, nextID, stored, disturbed>>
vars == <<exists, rows, nextID, stored, disturbed, req>>

(* MySQL restarted; since then a client sent an INSERT; and a setup failed
   between two rows for a reason of its own.                                *)
Disturbances == {"restart", "create", "fail"}

Operations == [kind : {"list"}] \cup [kind : {"get", "delete"}, id : IDs]
                \cup [kind : {"create"}, name : Names]

New == [stage |-> "new"]
Done == [stage |-> "done"]
Creating(op) == [stage |-> "create table", op |-> op]
Seeding(op, k) == [stage |-> "seed", op |-> op, next |-> k]
Retrying(op) == [stage |-> "retry", op |-> op]

Calls == [stage : {"new", "done"}]
            \cup [stage : {"create table", "retry"}, op : Operations]
            \cup [stage : {"seed"}, op : Operations, next : DOMAIN Seed]

InSetup(r) == req[r].stage \in {"create table", "seed"}

(* PRIMARY KEY (id), UNIQUE KEY (name). *)
Conflicts(row) == \E o \in rows : o.id = row.id \/ o.name = row.name

-----------------------------------------------------------------------------
Init == /\ exists = FALSE
        /\ rows = {}
        /\ nextID = 1
        /\ stored = {}
        /\ disturbed = {}
        /\ req = [r \in Requests |-> New]

(* The statements of List, Get, Create and Delete on an existing table.
   Create takes the next identifier, which is used up also when the name is
   taken and the INSERT fails.                                              *)
Select(op) == op.kind \in {"list", "get"} /\ UNCHANGED <<rows, nextID, disturbed>>

Insert(op) ==
    /\ op.kind = "create"
    /\ LET row == [id |-> nextID, name |-> op.name]
       IN  rows' = IF Conflicts(row) THEN rows ELSE rows \cup {row}
    /\ nextID' = nextID + 1
    /\ disturbed' = disturbed \cup {"create"}

Remove(op) ==
    /\ op.kind = "delete"
    /\ rows' = {o \in rows : o.id # op.id}
    /\ UNCHANGED <<nextID, disturbed>>

Perform(op) == /\ Select(op) \/ Insert(op) \/ Remove(op)
               /\ UNCHANGED <<exists, stored>>

(* The first attempt of a request: error 1146 leads to the setup. *)
Query(r, op) ==
    /\ req[r].stage = "new"
    /\ \/ /\ exists
          /\ Perform(op)
          /\ req' = [req EXCEPT ![r] = Done]
       \/ /\ ~exists
          /\ req' = [req EXCEPT ![r] = Creating(op)]
          /\ UNCHANGED table

(* mutant: the loop over the seed starts at its second row *)
CreateTableSkip(r) ==
    /\ req[r].stage = "create table"
    /\ exists' = TRUE
    /\ req' = [req EXCEPT ![r] = Seeding(req[r].op, 2)]
    /\ UNCHANGED <<rows, nextID, stored, disturbed>>

(* CREATE TABLE IF NOT EXISTS *)
CreateTable(r) ==
    /\ req[r].stage = "create table"
    /\ exists' = TRUE
    /\ req' = [req EXCEPT ![r] = Seeding(req[r].op, 1)]
    /\ UNCHANGED <<rows, nextID, stored, disturbed>>

(* Delete is not tried again after the setup: it just succeeds. *)
AfterSetup(op) == IF op.kind = "delete" THEN Done ELSE Retrying(op)

AfterSeed(op, k) == IF k = Len(Seed) THEN AfterSetup(op) ELSE Seeding(op, k + 1)

(* mutants: INSERT IGNORE, and a loop that runs past the seed *)
SeedIgnore(r) ==
    /\ req[r].stage = "seed"
    /\ LET k == req[r].next
       IN  /\ IF Conflicts(Seed[k])
              THEN UNCHANGED <<rows, nextID, stored>>
              ELSE /\ rows' = rows \cup {Seed[k]}
                   /\ nextID' = IF Seed[k].id < nextID THEN nextID ELSE Seed[k].id + 1
                   /\ stored' = stored \cup {k}
           /\ req' = [req EXCEPT ![r] = AfterSeed(req[r].op, k)]
    /\ UNCHANGED <<exists, disturbed>>
SeedPast(r) ==
    /\ req[r].stage = "seed" /\ exists /\ ~Conflicts(Seed[req[r].next])
    /\ rows' = rows \cup {Seed[req[r].next]}
    /\ nextID' = nextID + 1
    /\ stored' = stored \cup {req[r].next}
    /\ req' = [req EXCEPT ![r] = Seeding(req[r].op, req[r].next + 1)]
    /\ UNCHANGED <<exists, disturbed>>

(* One row of the seed goes in; an explicit identifier moves the counter. *)
SeedRow(r) ==
    /\ req[r].stage = "seed"
    /\ exists
    /\ LET k == req[r].next
       IN  /\ ~Conflicts(Seed[k])
           /\ rows' = rows \cup {Seed[k]}
           /\ nextID' = IF Seed[k].id < nextID THEN nextID ELSE Seed[k].id + 1
           /\ stored' = stored \cup {k}
           /\ req' = [req EXCEPT ![r] = AfterSeed(req[r].op, k)]
    /\ UNCHANGED <<exists, disturbed>>

(* The row, or its name, is already there, or the table is gone. *)
SeedPanics(r) ==
    /\ req[r].stage = "seed"
    /\ ~exists \/ Conflicts(Seed[req[r].next])
    /\ req' = [req EXCEPT ![r] = Done]
    /\ UNCHANGED table

(* The second and last attempt. *)
Retry(r) ==
    /\ req[r].stage = "retry"
    /\ \/ exists /\ Perform(req[r].op)
       \/ ~exists /\ UNCHANGED table
    /\ req' = [req EXCEPT ![r] = Done]

(* Another error of a statement, or a crash of the service, ends a request. *)
Fail(r) ==
    /\ req[r].stage \notin {"new", "done"}
    /\ req' = [req EXCEPT ![r] = Done]
    /\ disturbed' = IF req[r].stage = "seed" THEN disturbed \cup {"fail"} ELSE disturbed
    /\ UNCHANGED <<exists, rows, nextID, stored>>

(* MySQL restarts on an empty volume. *)
Restart ==
    /\ exists
    /\ exists' = FALSE
    /\ rows' = {}
    /\ nextID' = 1
    /\ stored' = {}
    /\ disturbed' = {"restart"}
    /\ UNCHANGED req

Setup(r) == CreateTable(r) \/ SeedRow(r) \/ SeedPanics(r)

Next ==
    \/ \E r \in Requests : \/ \E op \in Operations : Query(r, op)
                           \/ Setup(r) \/ Retry(r) \/ Fail(r)
    \/ Restart

Spec == Init /\ [][Next]_vars

-----------------------------------------------------------------------------
(* A request past the first attempt knows its operation and, while it seeds,
   its place in the seed; rows are inserted under identifiers the counter
   has passed.                                                              *)
TypeOK == /\ exists \in BOOLEAN
          /\ rows \subseteq Rows
          /\ nextID \in Nat
          /\ stored \subseteq DOMAIN Seed
          /\ req \in [Requests -> Calls]
          /\ disturbed \subseteq Disturbances
          /\ \A o \in rows : o.id < nextID

SetupOver == exists /\ \A r \in Requests : ~InSetup(r)

(* "seeding database" (setupDB): any number of first requests may set up the
   table at once, panic at each other's rows, and meet restarts of MySQL:
   once the setup is over every location of the seed has been inserted,
   unless a client created a location or a setup failed before it was.      *)
AllSeeded == SetupOver /\ disturbed \subseteq {"restart"} => stored = DOMAIN Seed

(* The dispatch test counts on the locations 1 and 731: nothing but a failure
   keeps a part of the seed out.                                            *)
SeedSurvivesCreate == SetupOver /\ "fail" \notin disturbed => stored = DOMAIN Seed

(* A request whose setup went through finds a complete seed when it tries
   again, whoever else wrote to the table or failed meanwhile, as long as
   MySQL did not restart: the setup panics rather than to go on over a row it
   did not insert.                                                          *)
RetrySeeded ==
    "restart" \notin disturbed =>
        \A r \in Requests : req[r].stage = "retry" => stored = DOMAIN Seed

=============================================================================
