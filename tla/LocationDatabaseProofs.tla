------------------------ MODULE LocationDatabaseProofs ------------------------
(***************************************************************************)
(* Proofs about LocationDatabase, for any seed of distinct rows and any    *)
(* number of requests.                                                     *)
(***************************************************************************)
EXTENDS LocationDatabase, TLAPS

(* What a request may be, seen from its stage. *)
LEMMA CallStages ==
    ASSUME NEW call \in Calls
    PROVE  /\ call.stage = "create table" => call.op \in Operations
           /\ call.stage = "retry" => call.op \in Operations
           /\ call.stage = "seed" => call.op \in Operations /\ call.next \in DOMAIN Seed
BY DEF Calls

LEMMA SeedRows ==
    /\ Len(Seed) \in Nat \ {0}
    /\ DOMAIN Seed = 1..Len(Seed)
    /\ \A k \in DOMAIN Seed : /\ Seed[k] \in Rows
                              /\ Seed[k].id \in Nat
                              /\ Seed[k].name \in Names
<1>1. /\ Len(Seed) \in Nat /\ DOMAIN Seed = 1..Len(Seed)
      /\ \A k \in DOMAIN Seed : Seed[k] \in Rows
  BY SeedAssumption
<1>2. Len(Seed) # 0
  BY SeedAssumption
<1>3. \A o \in Rows : o.id \in Nat /\ o.name \in Names
  BY DEF Rows
<1>. QED  BY <1>1, <1>2, <1>3

LEMMA RequestStages ==
    ASSUME TypeOK, NEW r \in Requests
    PROVE  /\ req[r] \in Calls
           /\ req[r].stage = "create table" => req[r].op \in Operations
           /\ req[r].stage = "retry" => req[r].op \in Operations
           /\ req[r].stage = "seed" => /\ req[r].op \in Operations
                                       /\ req[r].next \in DOMAIN Seed
                                       /\ req[r].next \in Nat
<1>1. req[r] \in Calls
  BY DEF TypeOK
<1>2. DOMAIN Seed \subseteq Nat
  BY SeedRows
<1>. QED  BY <1>1, <1>2, CallStages

LEMMA StagesAreCalls ==
    /\ New \in Calls /\ Done \in Calls
    /\ \A op \in Operations : Creating(op) \in Calls /\ Retrying(op) \in Calls
    /\ \A op \in Operations, k \in DOMAIN Seed : Seeding(op, k) \in Calls
BY DEF New, Done, Creating, Retrying, Seeding, Calls

(* What follows the insertion of a row of the seed. *)
LEMMA AfterSeedIsCall ==
    ASSUME NEW op \in Operations, NEW k \in DOMAIN Seed
    PROVE  /\ AfterSeed(op, k) \in Calls
           /\ AfterSeed(op, k).stage \in {"seed", "retry", "done"}
           /\ k = Len(Seed) => AfterSeed(op, k).stage # "seed"
           /\ k # Len(Seed) => AfterSeed(op, k) = Seeding(op, k + 1)
           /\ k # Len(Seed) => k + 1 \in DOMAIN Seed
<1>1. k # Len(Seed) => k + 1 \in DOMAIN Seed
  BY SeedRows
<1>2. AfterSetup(op) \in Calls /\ AfterSetup(op).stage \in {"retry", "done"}
  BY StagesAreCalls DEF AfterSetup, Done, Retrying
<1>3. k # Len(Seed) => Seeding(op, k + 1) \in Calls /\ Seeding(op, k + 1).stage = "seed"
  BY <1>1, StagesAreCalls DEF Seeding
<1>. QED  BY <1>1, <1>2, <1>3 DEF AfterSeed

-----------------------------------------------------------------------------
(* Type correctness. *)
LEMMA PerformTypes ==
    ASSUME TypeOK, NEW op \in Operations, Perform(op)
    PROVE  /\ rows' \subseteq Rows /\ nextID' \in Nat /\ disturbed' \subseteq Disturbances
           /\ \A o \in rows' : o.id < nextID'
<1>1. CASE Select(op)
  BY <1>1 DEF Select, TypeOK
<1>2. CASE Insert(op)
  <2>. DEFINE row == [id |-> nextID, name |-> op.name]
  <2>1. row \in Rows /\ row.id = nextID
    BY <1>2 DEF Insert, TypeOK, Rows, Operations
  <2>2. rows' \subseteq rows \cup {row}
    BY <1>2 DEF Insert
  <2>3. \A o \in rows : o.id \in Nat /\ o.id < nextID
    BY DEF TypeOK, Rows
  <2>4. nextID' = nextID + 1 /\ nextID \in Nat
    BY <1>2 DEF Insert, TypeOK
  <2>5. disturbed' \subseteq Disturbances
    BY <1>2 DEF Insert, TypeOK, Disturbances
  <2>. QED  BY <2>1, <2>2, <2>3, <2>4, <2>5 DEF TypeOK
<1>3. CASE Remove(op)
  BY <1>3 DEF Remove, TypeOK
<1>. QED  BY <1>1, <1>2, <1>3 DEF Perform

LEMMA SeedRowTypes ==
    ASSUME TypeOK, NEW r \in Requests, SeedRow(r)
    PROVE  TypeOK'
<1>. DEFINE k == req[r].next
<1>1. k \in DOMAIN Seed /\ req[r].op \in Operations
  BY CallStages DEF SeedRow, TypeOK
<1>2. Seed[k] \in Rows /\ Seed[k].id \in Nat
  BY <1>1, SeedRows
<1>3. rows' = rows \cup {Seed[k]} /\ stored' = stored \cup {k} /\ UNCHANGED <<exists, disturbed>>
  BY DEF SeedRow
<1>4. nextID' \in Nat /\ nextID <= nextID' /\ Seed[k].id < nextID'
  BY <1>2 DEF SeedRow, TypeOK
<1>5. \A o \in rows' : o.id < nextID'
  <2>1. \A o \in rows : o.id \in Nat /\ o.id < nextID /\ nextID \in Nat
    BY DEF TypeOK, Rows
  <2>. QED  BY <2>1, <1>2, <1>3, <1>4
<1>6. req' \in [Requests -> Calls]
  BY <1>1, AfterSeedIsCall DEF SeedRow, TypeOK
<1>. QED  BY <1>1, <1>2, <1>3, <1>4, <1>5, <1>6 DEF TypeOK

LEMMA StepTypes == TypeOK /\ [Next]_vars => TypeOK'
<1>. SUFFICES ASSUME TypeOK, [Next]_vars PROVE TypeOK'
  OBVIOUS
<1>1. ASSUME NEW r \in Requests, NEW op \in Operations, Query(r, op)
      PROVE  TypeOK'
  <2>1. req' \in [Requests -> Calls]
    BY <1>1, StagesAreCalls DEF Query, TypeOK
  <2>2. CASE exists /\ Perform(op)
    BY <2>1, <2>2, PerformTypes DEF Perform, TypeOK
  <2>3. CASE UNCHANGED table
    BY <2>1, <2>3 DEF table, TypeOK
  <2>. QED  BY <1>1, <2>2, <2>3 DEF Query
<1>2. ASSUME NEW r \in Requests, CreateTable(r)
      PROVE  TypeOK'
  <2>0. 1 \in DOMAIN Seed
    BY SeedRows
  <2>1. req[r].op \in Operations /\ 1 \in DOMAIN Seed
    BY <1>2, <2>0, RequestStages DEF CreateTable
  <2>2. Seeding(req[r].op, 1) \in Calls
    BY <2>1, StagesAreCalls
  <2>. QED  BY <1>2, <2>2 DEF CreateTable, TypeOK
<1>3. ASSUME NEW r \in Requests, SeedPanics(r) \/ Fail(r)
      PROVE  TypeOK'
  BY <1>3, StagesAreCalls DEF SeedPanics, Fail, table, TypeOK, Disturbances
<1>4. ASSUME NEW r \in Requests, Retry(r)
      PROVE  TypeOK'
  <2>1. req' \in [Requests -> Calls]
    BY <1>4, StagesAreCalls DEF Retry, TypeOK
  <2>2. req[r].op \in Operations
    BY <1>4, CallStages DEF Retry, TypeOK
  <2>3. CASE Perform(req[r].op)
    BY <2>1, <2>2, <2>3, PerformTypes DEF Perform, TypeOK
  <2>4. CASE UNCHANGED table
    BY <2>1, <2>4 DEF table, TypeOK
  <2>. QED  BY <1>4, <2>3, <2>4 DEF Retry
<1>5. CASE Restart
  BY <1>5 DEF Restart, TypeOK, Disturbances
<1>6. CASE UNCHANGED vars
  BY <1>6 DEF vars, TypeOK
<1>. QED  BY <1>1, <1>2, <1>3, <1>4, <1>5, <1>6, SeedRowTypes
          DEF Next, Setup

LEMMA InitTypes == Init => TypeOK
<1>. SUFFICES ASSUME Init PROVE TypeOK
  OBVIOUS
<1>1. exists \in BOOLEAN /\ rows = {} /\ nextID \in Nat /\ stored = {} /\ disturbed = {}
  BY DEF Init
<1>2. req \in [Requests -> Calls]
  BY StagesAreCalls DEF Init
<1>. QED  BY <1>1, <1>2 DEF TypeOK

(* The type invariant of every run of the location service: what a request
   remembers belongs to its stage, and identifiers are below the counter.    *)
THEOREM LocationTypeCorrect == Spec => []TypeOK
BY InitTypes, StepTypes, PTL DEF Spec

-----------------------------------------------------------------------------
(* The setup while nobody creates and none fails.  Seeding requests come one behind another: when
   the row of index j is in and the row of index i > j never was, somebody is
   between them, on the way to i.  The table itself counts as row 0.  The one
   in front never meets a row of its own index, and the ones behind who do
   leave the others to finish.                                              *)
Covered(j, i) == \E r \in Requests : /\ req[r].stage = "seed"
                                     /\ j < req[r].next /\ req[r].next <= i

RowsComeFromSeed == \A o \in rows : \E i \in stored : o = Seed[i]

NoTableNoRows == ~exists => stored = {} /\ rows = {}

EveryGapCovered ==
    exists => \A i \in DOMAIN Seed \ stored : \A j \in stored \cup {0} :
                 j < i => Covered(j, i)

SetupInv == TypeOK /\ RowsComeFromSeed /\ NoTableNoRows /\ EveryGapCovered

Calm == disturbed \subseteq {"restart"}

CalmInv == TypeOK /\ (Calm => SetupInv)

LEMMA StoredIndices == TypeOK => \A j \in stored \cup {0} : j \in Nat
BY SeedRows DEF TypeOK

(* A request that leaves the setup, or takes a step outside of it, and that
   is not seeding, uncovers nothing.                                        *)
LEMMA CoverKept ==
    ASSUME SetupInv, NEW r \in Requests, NEW c, stored' = stored, exists' = exists,
           req' = [req EXCEPT ![r] = c], req[r].stage # "seed"
    PROVE  EveryGapCovered'
<1>. SUFFICES ASSUME exists,
                     NEW i \in DOMAIN Seed \ stored, NEW j \in stored \cup {0}, j < i
              PROVE  Covered(j, i)'
  BY DEF EveryGapCovered
<1>1. PICK q \in Requests : req[q].stage = "seed" /\ j < req[q].next /\ req[q].next <= i
  BY DEF SetupInv, EveryGapCovered, Covered
<1>2. req'[q] = req[q]
  BY <1>1 DEF SetupInv, TypeOK
<1>. QED  BY <1>1, <1>2 DEF Covered

LEMMA CreateTableCovers ==
    ASSUME SetupInv, NEW r \in Requests, CreateTable(r)
    PROVE  EveryGapCovered'
<1>1. CASE exists
  BY <1>1, CoverKept DEF CreateTable
<1>2. CASE ~exists
  <2>1. stored' = {}
    BY <1>2 DEF CreateTable, SetupInv, NoTableNoRows
  <2>2. req'[r].stage = "seed" /\ req'[r].next = 1
    BY DEF CreateTable, SetupInv, TypeOK, Seeding
  <2>. QED  BY <2>1, <2>2, SeedRows DEF EveryGapCovered, Covered
<1>. QED  BY <1>1, <1>2 DEF SetupInv, TypeOK

(* The row goes in: whoever is behind it is covered as before, and the request
   itself covers what is ahead of it.                                       *)
LEMMA SeedRowCovers ==
    ASSUME SetupInv, NEW r \in Requests, SeedRow(r)
    PROVE  EveryGapCovered'
<1>. DEFINE k == req[r].next
<1>1. k \in DOMAIN Seed /\ req[r].op \in Operations /\ k \in Nat
  BY RequestStages DEF SeedRow, SetupInv
<1>2. exists /\ stored' = stored \cup {k} /\ req[r].stage = "seed"
  BY DEF SeedRow
<1>3. req' = [req EXCEPT ![r] = AfterSeed(req[r].op, k)]
  BY DEF SeedRow
<1>4. k # Len(Seed) => req'[r].stage = "seed" /\ req'[r].next = k + 1
  BY <1>1, <1>3, AfterSeedIsCall DEF SetupInv, TypeOK, Seeding
<1>. SUFFICES ASSUME NEW i \in DOMAIN Seed \ stored', NEW j \in stored' \cup {0}, j < i
              PROVE  Covered(j, i)'
  BY DEF EveryGapCovered
<1>5. i \in DOMAIN Seed \ stored /\ i # k /\ i \in Nat /\ i <= Len(Seed) /\ Len(Seed) \in Nat
  BY <1>2, SeedRows
<1>6. ASSUME k < i PROVE req'[r].stage = "seed" /\ k < req'[r].next /\ req'[r].next <= i
  BY <1>1, <1>4, <1>5, <1>6
<1>7. CASE j = k
  BY <1>6, <1>7 DEF Covered
<1>8. CASE j # k
  <2>1. j \in stored \cup {0} /\ j \in Nat
    BY <1>2, <1>8, StoredIndices DEF SetupInv
  <2>2. PICK q \in Requests : req[q].stage = "seed" /\ j < req[q].next /\ req[q].next <= i
    BY <1>2, <1>5, <2>1 DEF SetupInv, EveryGapCovered, Covered
  <2>3. CASE q = r
    <3>1. j < k /\ k < i
      BY <1>1, <1>5, <2>2, <2>3
    <3>2. j < req'[r].next
      BY <1>1, <1>4, <1>5, <2>1, <3>1
    <3>. QED  BY <1>6, <3>1, <3>2 DEF Covered
  <2>4. CASE q # r
    <3>1. req'[q] = req[q]
      BY <1>3, <2>4 DEF SetupInv, TypeOK
    <3>. QED  BY <2>2, <3>1 DEF Covered
  <2>. QED  BY <2>3, <2>4
<1>. QED  BY <1>7, <1>8

(* A request that panics met a row that another one inserted: that other
   one, or those it left behind it, covers the rest.                        *)
LEMMA SeedPanicsCovers ==
    ASSUME SetupInv, NEW r \in Requests, SeedPanics(r)
    PROVE  EveryGapCovered'
<1>. DEFINE k == req[r].next
<1>1. k \in DOMAIN Seed /\ k \in Nat
  BY RequestStages DEF SeedPanics, SetupInv
<1>2. stored' = stored /\ exists' = exists /\ req' = [req EXCEPT ![r] = Done]
  BY DEF SeedPanics, table
<1>. SUFFICES ASSUME exists,
                     NEW i \in DOMAIN Seed \ stored, NEW j \in stored \cup {0}, j < i
              PROVE  Covered(j, i)'
  BY <1>2 DEF EveryGapCovered
<1>3. k \in stored
  <2>1. PICK o \in rows : o.id = Seed[k].id \/ o.name = Seed[k].name
    BY DEF SeedPanics, Conflicts
  <2>2. PICK m \in stored : o = Seed[m]
    BY DEF SetupInv, RowsComeFromSeed
  <2>. QED  BY <1>1, <2>1, <2>2, SeedAssumption DEF SetupInv, TypeOK
<1>4. i \in Nat /\ j \in Nat /\ i # k
  BY <1>3, SeedRows, StoredIndices DEF SetupInv
<1>5. PICK q \in Requests : req[q].stage = "seed" /\ j < req[q].next /\ req[q].next <= i
  BY DEF SetupInv, EveryGapCovered, Covered
<1>6. CASE q # r
  <2>1. req'[q] = req[q]
    BY <1>2, <1>6 DEF SetupInv, TypeOK
  <2>. QED  BY <1>5, <2>1 DEF Covered
<1>7. CASE q = r
  <2>1. j < k /\ k < i
    BY <1>1, <1>4, <1>5, <1>7
  <2>2. PICK p \in Requests : req[p].stage = "seed" /\ k < req[p].next /\ req[p].next <= i
    BY <1>3, <2>1 DEF SetupInv, EveryGapCovered, Covered
  <2>3. p # r
    BY <1>1, <2>2
  <2>4. req'[p] = req[p] /\ req[p].next \in Nat
    BY <1>2, <2>2, <2>3, RequestStages DEF SetupInv, TypeOK
  <2>5. j < req[p].next
    BY <1>1, <1>4, <2>1, <2>2, <2>4
  <2>. QED  BY <2>2, <2>4, <2>5 DEF Covered
<1>. QED  BY <1>6, <1>7

(* The rest of the invariant, action by action. *)
LEMMA PerformKeepsRows ==
    ASSUME TypeOK, NEW op \in Operations, Perform(op), Calm'
    PROVE  Calm /\ rows' \subseteq rows /\ stored' = stored /\ exists' = exists
BY DEF Perform, Select, Insert, Remove, Calm

LEMMA ShrinkingRows ==
    ASSUME SetupInv, rows' \subseteq rows, stored' = stored, exists' \/ exists' = exists
    PROVE  RowsComeFromSeed' /\ NoTableNoRows'
BY DEF SetupInv, RowsComeFromSeed, NoTableNoRows

LEMMA SetupStep == CalmInv /\ [Next]_vars => CalmInv'
<1>. SUFFICES ASSUME CalmInv, [Next]_vars, Calm' PROVE SetupInv'
  BY StepTypes DEF CalmInv
<1>0. TypeOK /\ TypeOK' /\ (Calm => SetupInv)
  BY StepTypes DEF CalmInv
<1>1. ASSUME NEW r \in Requests, NEW op \in Operations, Query(r, op)
      PROVE  SetupInv'
  <2>1. Calm /\ rows' \subseteq rows /\ stored' = stored /\ exists' = exists
    BY <1>0, <1>1, PerformKeepsRows DEF Query, table, Calm
  <2>2. EveryGapCovered'
    BY <1>0, <1>1, <2>1, CoverKept DEF Query
  <2>. QED  BY <1>0, <2>1, <2>2, ShrinkingRows DEF SetupInv
<1>2. ASSUME NEW r \in Requests, CreateTable(r)
      PROVE  SetupInv'
  <2>1. Calm
    BY <1>2 DEF CreateTable, Calm
  <2>. QED  BY <1>0, <1>2, <2>1, CreateTableCovers, ShrinkingRows DEF CreateTable, SetupInv
<1>3. ASSUME NEW r \in Requests, SeedRow(r)
      PROVE  SetupInv'
  <2>1. Calm
    BY <1>3 DEF SeedRow, Calm
  <2>2. RowsComeFromSeed' /\ NoTableNoRows'
    BY <1>0, <1>3, <2>1 DEF SeedRow, SetupInv, RowsComeFromSeed, NoTableNoRows
  <2>. QED  BY <1>0, <1>3, <2>1, <2>2, SeedRowCovers DEF SetupInv
<1>4. ASSUME NEW r \in Requests, SeedPanics(r)
      PROVE  SetupInv'
  <2>1. Calm
    BY <1>4 DEF SeedPanics, table, Calm
  <2>2. RowsComeFromSeed' /\ NoTableNoRows'
    BY <1>0, <1>4, <2>1 DEF SeedPanics, table, SetupInv, RowsComeFromSeed, NoTableNoRows
  <2>. QED  BY <1>0, <1>4, <2>1, <2>2, SeedPanicsCovers DEF SetupInv
<1>5. ASSUME NEW r \in Requests, Retry(r)
      PROVE  SetupInv'
  <2>1. req[r].op \in Operations
    BY <1>0, <1>5, RequestStages DEF Retry
  <2>2. Calm /\ rows' \subseteq rows /\ stored' = stored /\ exists' = exists
    BY <1>0, <1>5, <2>1, PerformKeepsRows DEF Retry, table, Calm
  <2>3. EveryGapCovered'
    BY <1>0, <1>5, <2>2, CoverKept DEF Retry
  <2>. QED  BY <1>0, <2>2, <2>3, ShrinkingRows DEF SetupInv
<1>6. ASSUME NEW r \in Requests, Fail(r)
      PROVE  SetupInv'
  <2>1. Calm /\ req[r].stage # "seed"
    BY <1>6 DEF Fail, Calm
  <2>2. EveryGapCovered'
    BY <1>0, <1>6, <2>1, CoverKept DEF Fail
  <2>. QED  BY <1>0, <1>6, <2>1, <2>2, ShrinkingRows DEF Fail, SetupInv
<1>7. CASE Restart
  BY <1>0, <1>7 DEF Restart, SetupInv, RowsComeFromSeed, NoTableNoRows, EveryGapCovered
<1>8. CASE UNCHANGED vars
  BY <1>0, <1>8 DEF vars, Calm, SetupInv, RowsComeFromSeed, NoTableNoRows,
                    EveryGapCovered, Covered
<1>. QED  BY <1>1, <1>2, <1>3, <1>4, <1>5, <1>6, <1>7, <1>8 DEF Next, Setup

LEMMA SetupInit == Init => CalmInv
<1>. SUFFICES ASSUME Init PROVE CalmInv
  OBVIOUS
<1>1. exists = FALSE /\ rows = {} /\ stored = {}
  BY DEF Init
<1>2. RowsComeFromSeed /\ NoTableNoRows /\ EveryGapCovered
  BY <1>1 DEF RowsComeFromSeed, NoTableNoRows, EveryGapCovered
<1>. QED  BY <1>2, InitTypes DEF CalmInv, SetupInv

LEMMA SetupImplies == CalmInv => AllSeeded
<1>. SUFFICES ASSUME SetupInv, exists, \A r \in Requests : ~InSetup(r),
                     NEW i \in DOMAIN Seed, i \notin stored
              PROVE  FALSE
  BY DEF AllSeeded, SetupOver, CalmInv, Calm, SetupInv, TypeOK
<1>1. 0 < i
  BY SeedRows
<1>2. Covered(0, i)
  BY <1>1 DEF SetupInv, EveryGapCovered
<1>. QED  BY <1>2 DEF Covered, InSetup

(* However many first requests set up the table at once, and each time MySQL
   loses it, the whole seed ends up in it: two setups never leave each other's
   rows out, unless a client creates a location or a setup fails meanwhile.  *)
THEOREM ConcurrentSetupsSeedAll == Spec => []AllSeeded
BY SetupInit, SetupStep, SetupImplies, PTL DEF Spec

-----------------------------------------------------------------------------
(* A setup that goes through, in a database that stays up. *)
OwnRowsStored == \A r \in Requests :
    /\ req[r].stage = "seed" => \A i \in DOMAIN Seed : i < req[r].next => i \in stored
    /\ req[r].stage = "retry" => stored = DOMAIN Seed

StaysUp == "restart" \notin disturbed

RetryInv == TypeOK /\ OwnRowsStored

UpInv == TypeOK /\ (StaysUp => OwnRowsStored)

LEMMA StaysUpBefore == [Next]_vars /\ StaysUp' => StaysUp /\ ~Restart
BY DEF Next, Setup, Query, CreateTable, SeedRow, SeedPanics, Retry, Fail, Restart,
       Perform, Select, Insert, Remove, table, vars, StaysUp

(* What a request becomes must know no more than what is stored. *)
LEMMA OwnRowsKept ==
    ASSUME RetryInv, NEW r \in Requests, NEW c, stored \subseteq stored',
           stored' \subseteq DOMAIN Seed, req' = [req EXCEPT ![r] = c],
           c.stage = "seed" => \A i \in DOMAIN Seed : i < c.next => i \in stored',
           c.stage = "retry" => stored' = DOMAIN Seed
    PROVE  OwnRowsStored'
<1>. SUFFICES ASSUME NEW q \in Requests
              PROVE  /\ req'[q].stage = "seed" =>
                           \A i \in DOMAIN Seed : i < req'[q].next => i \in stored'
                     /\ req'[q].stage = "retry" => stored' = DOMAIN Seed
  BY DEF OwnRowsStored
<1>1. CASE q = r
  BY <1>1 DEF RetryInv, TypeOK
<1>2. CASE q # r
  BY <1>2 DEF RetryInv, OwnRowsStored, TypeOK
<1>. QED  BY <1>1, <1>2

LEMMA RetryStep == UpInv /\ [Next]_vars => UpInv'
<1>. SUFFICES ASSUME RetryInv, ~Restart, [Next]_vars PROVE OwnRowsStored'
  BY StepTypes, StaysUpBefore DEF UpInv, RetryInv
<1>0. TypeOK'
  BY StepTypes DEF RetryInv
<1>00. stored \subseteq DOMAIN Seed /\ stored' \subseteq DOMAIN Seed
  BY <1>0 DEF RetryInv, TypeOK
<1>1. ASSUME NEW r \in Requests, NEW op \in Operations, Query(r, op)
      PROVE  OwnRowsStored'
  BY <1>00, <1>1, OwnRowsKept DEF Query, Perform, table, Done, Creating
<1>2. ASSUME NEW r \in Requests, CreateTable(r)
      PROVE  OwnRowsStored'
  <2>1. \A i \in DOMAIN Seed : ~(i < 1)
    BY SeedRows
  <2>2. stored' = stored /\ req' = [req EXCEPT ![r] = Seeding(req[r].op, 1)]
    BY <1>2 DEF CreateTable
  <2>3. Seeding(req[r].op, 1).stage = "seed" /\ Seeding(req[r].op, 1).next = 1
    BY DEF Seeding
  <2>. QED  BY <1>00, <2>1, <2>2, <2>3, OwnRowsKept
<1>3. ASSUME NEW r \in Requests, SeedRow(r)
      PROVE  OwnRowsStored'
  <2>. DEFINE k == req[r].next
  <2>1. k \in DOMAIN Seed /\ req[r].op \in Operations
    BY <1>3, CallStages DEF SeedRow, RetryInv, TypeOK
  <2>2. stored' = stored \cup {k} /\ req' = [req EXCEPT ![r] = AfterSeed(req[r].op, k)]
    BY <1>3 DEF SeedRow
  <2>3. \A i \in DOMAIN Seed : i <= k => i \in stored'
    <3>1. \A i \in DOMAIN Seed : i < k => i \in stored
      BY <1>3 DEF SeedRow, RetryInv, OwnRowsStored
    <3>. QED  BY <2>1, <2>2, <3>1, SeedRows
  <2>4. CASE k = Len(Seed)
    <3>1. stored' = DOMAIN Seed
      <4>1. \A i \in DOMAIN Seed : i <= k
        BY <2>4, SeedRows
      <4>. QED  BY <1>00, <2>3, <4>1
    <3>2. AfterSeed(req[r].op, k).stage # "seed"
      BY <2>1, <2>4, AfterSeedIsCall
    <3>. QED  BY <1>00, <2>2, <3>1, <3>2, OwnRowsKept
  <2>5. CASE k # Len(Seed)
    <3>1. AfterSeed(req[r].op, k).stage = "seed" /\ AfterSeed(req[r].op, k).next = k + 1
      BY <2>1, <2>5, AfterSeedIsCall DEF Seeding
    <3>2. \A i \in DOMAIN Seed : i < k + 1 => i \in stored'
      BY <2>1, <2>3, SeedRows
    <3>. QED  BY <1>00, <2>2, <3>1, <3>2, OwnRowsKept
  <2>. QED  BY <2>4, <2>5
<1>4. ASSUME NEW r \in Requests, SeedPanics(r) \/ Fail(r) \/ Retry(r)
      PROVE  OwnRowsStored'
  <2>1. stored' = stored /\ req' = [req EXCEPT ![r] = Done]
    BY <1>4 DEF SeedPanics, Fail, Retry, Perform, table
  <2>. QED  BY <1>00, <2>1, OwnRowsKept DEF Done
<1>5. CASE UNCHANGED vars
  BY <1>0, <1>5 DEF vars, RetryInv, OwnRowsStored
<1>. QED  BY <1>1, <1>2, <1>3, <1>4, <1>5 DEF Next, Setup

LEMMA RetryInit == Init => UpInv
BY InitTypes DEF Init, UpInv, OwnRowsStored, New

LEMMA RetryImplies == UpInv => RetrySeeded
BY DEF UpInv, StaysUp, OwnRowsStored, RetrySeeded

(* Also among clients that create locations and setups that fail half-way, a
   request that gets to its second attempt does so over a complete seed, as
   long as MySQL did not restart.                                            *)
THEOREM RetriesFindTheSeed == Spec => []RetrySeeded
BY RetryInit, RetryStep, RetryImplies, PTL DEF Spec

-----------------------------------------------------------------------------
(* A setup is not taken up again.  Only error 1146 leads to it, so once the table
   is there and no request seeds it, what the seed lacks stays away until the
   table is lost.                                                            *)
SeedSettled == [][SetupOver => (SetupOver' /\ stored' = stored) \/ ~exists']_vars

LEMMA SettledStep ==
    TypeOK /\ [Next]_vars => (SetupOver => (SetupOver' /\ stored' = stored) \/ ~exists')
<1>. SUFFICES ASSUME TypeOK, [Next]_vars, SetupOver, exists'
              PROVE  SetupOver' /\ stored' = stored
  OBVIOUS
<1>1. exists /\ \A r \in Requests : req[r].stage \notin {"create table", "seed"}
  BY DEF SetupOver, InSetup
<1>2. ASSUME NEW r \in Requests, req' = [req EXCEPT ![r] = Done], stored' = stored
      PROVE  SetupOver' /\ stored' = stored
  BY <1>1, <1>2 DEF SetupOver, InSetup, TypeOK, Done
<1>3. ASSUME NEW r \in Requests, NEW op, Query(r, op)
      PROVE  SetupOver' /\ stored' = stored
  BY <1>1, <1>2, <1>3 DEF Query, Perform
<1>4. ASSUME NEW r \in Requests, Setup(r)
      PROVE  FALSE
  BY <1>1, <1>4 DEF Setup, CreateTable, SeedRow, SeedPanics
<1>5. ASSUME NEW r \in Requests, Retry(r) \/ Fail(r)
      PROVE  SetupOver' /\ stored' = stored
  BY <1>2, <1>5 DEF Retry, Fail, Perform, table
<1>6. ~Restart
  BY DEF Restart
<1>7. CASE UNCHANGED vars
  BY <1>7 DEF vars, SetupOver, InSetup
<1>. QED  BY <1>3, <1>4, <1>5, <1>6, <1>7 DEF Next

(* So a seed that a failure or a panic left incomplete is never completed by
   later requests: it takes a restart of MySQL, which loses the table.       *)
THEOREM SetupNeverResumed == Spec => SeedSettled
BY SettledStep, LocationTypeCorrect, PTL DEF Spec, SeedSettled

=============================================================================
