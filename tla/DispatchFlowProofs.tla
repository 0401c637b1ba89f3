--------------------------- MODULE DispatchFlowProofs ---------------------------
(***************************************************************************)
(* Proofs about DispatchFlow, for any number of requests, partitions and   *)
(* groups, and any bounds.                                                 *)
(***************************************************************************)
EXTENDS DispatchFlow, SequenceTheorems, TLAPS

LEMMA ClaimParts == \A c \in Claims : c[1] \in Groups /\ c[2] \in Partitions
BY DEF Claims

LEMMA KindsAre ==
    /\ DOMAIN Kinds = 1..5
    /\ Kinds[1] = "dispatching" /\ Kinds[2] = "location" /\ Kinds[3] = "finding"
    /\ Kinds[4] = "route" /\ Kinds[5] = "dispatched"
    /\ {Kinds[i] : i \in DOMAIN Kinds} =
          {"dispatching", "location", "finding", "route", "dispatched"}
<1>1. DOMAIN Kinds = 1..5
  BY DEF Kinds
<1>2. /\ Kinds[1] = "dispatching" /\ Kinds[2] = "location" /\ Kinds[3] = "finding"
      /\ Kinds[4] = "route" /\ Kinds[5] = "dispatched"
  BY DEF Kinds
<1>3. \A i \in 1..5 : i = 1 \/ i = 2 \/ i = 3 \/ i = 4 \/ i = 5
  OBVIOUS
<1>. QED  BY <1>1, <1>2, <1>3

KindNames == {"dispatching", "location", "finding", "route", "dispatched"}

LEMMA EntriesAre == Entries = [kind : KindNames, by : Groups]
BY KindsAre DEF Entries, KindNames

LEMMA StagesTyped ==
    /\ \A s \in {"new", "pickup", "dropoff", "accepted", "failed"} : Stage(s) \in Frontend
    /\ \A p \in Partitions : Sending(p) \in Frontend
    /\ Idle \in Works
    /\ \A s \in {"read", "find", "locate", "route", "routed", "finish"}, r \in Requests :
          Doing(s, r) \in Works
BY DEF Stage, Sending, Frontend, Idle, Doing, Works

LEMMA WorkStages ==
    ASSUME TypeOK, NEW c \in Claims, work[c].stage # "idle"
    PROVE  /\ work[c].req \in Requests
           /\ work[c].stage \in {"read", "find", "locate", "route", "routed", "finish"}
BY DEF TypeOK, Works

LEMMA RequestStages ==
    ASSUME TypeOK, NEW r \in Requests, req[r].stage = "sending"
    PROVE  req[r].partition \in Partitions
BY DEF TypeOK, Frontend

-----------------------------------------------------------------------------
(* Type correctness. *)
ListsTyped == /\ list \in [Requests -> Seq(Entries)]
              /\ unstored \subseteq Requests
              /\ contended \subseteq Requests

LEMMA SetTypes ==
    ASSUME TypeOK, NEW r \in Requests, NEW l \in Seq(Entries), NEW kind \in KindNames,
           NEW g \in Groups, Set(r, l, kind, g)
    PROVE  ListsTyped'
<1>. DEFINE new == Append(l, Entry(kind, g))
<1>1. Entry(kind, g) \in Entries
  BY EntriesAre DEF Entry
<1>2. new \in Seq(Entries)
  BY <1>1, AppendProperties
<1>3. list' = [list EXCEPT ![r] = new]
  BY DEF Set
<1>. HIDE DEF new
<1>4. list' \in [Requests -> Seq(Entries)]
  BY <1>2, <1>3 DEF TypeOK
<1>5. unstored' = unstored /\ contended' \subseteq contended \cup {r}
  BY DEF Set
<1>. QED  BY <1>4, <1>5 DEF TypeOK, ListsTyped

LEMMA StoreTypes ==
    ASSUME TypeOK, NEW r \in Requests, NEW kind \in KindNames, Store(r, kind)
    PROVE  ListsTyped'
<1>1. CASE UNCHANGED listVars
  BY <1>1 DEF TypeOK, ListsTyped, listVars
<1>2. CASE Unstored(r)
  BY <1>2 DEF TypeOK, ListsTyped, Unstored
<1>3. CASE Set(r, list[r], kind, Baseline)
  <2>1. list[r] \in Seq(Entries) /\ Baseline \in Groups
    BY FlowAssumption DEF TypeOK
  <2>. QED  BY <1>3, <2>1, SetTypes
<1>. QED  BY <1>1, <1>2, <1>3 DEF Store

LEMMA RouteStoresTypes ==
    ASSUME TypeOK, NEW r \in Requests, NEW S \in SUBSET Seq(Entries), NEW T \in Without(S),
           RouteStores(r, S, T)
    PROVE  ListsTyped' /\ T \subseteq S
<1>1. T \subseteq S
  BY DEF Without
<1>2. CASE UNCHANGED listVars
  BY <1>1, <1>2 DEF TypeOK, ListsTyped, listVars
<1>3. CASE Unstored(r)
  BY <1>1, <1>3 DEF TypeOK, ListsTyped, Unstored
<1>4. ASSUME NEW l \in S, Set(r, l, "route", Baseline)
      PROVE  ListsTyped'
  BY <1>4, FlowAssumption, SetTypes DEF KindNames
<1>. QED  BY <1>1, <1>2, <1>3, <1>4 DEF RouteStores

LEMMA FrontendTypes ==
    ASSUME TypeOK, NEW r \in Requests,
           Dispatch(r) \/ Locate(r) \/ LocateFails(r) \/ Publish(r) \/ SendFails(r)
    PROVE  TypeOK'
<1>. USE DEF frontVars, offsetVars, groupVars, routeVars, listVars, workVars, lateVars
<1>0. Baseline \in Groups /\ "dispatching" \in KindNames /\ "location" \in KindNames
  BY FlowAssumption DEF KindNames
<1>1. CASE Dispatch(r)
  <2>1. ListsTyped'
    BY <1>0, <1>1, StoreTypes DEF Dispatch
  <2>. QED  BY <1>1, <2>1, StagesTyped DEF Dispatch, TypeOK, ListsTyped
<1>2. CASE Locate(r)
  <2>1. ListsTyped'
    BY <1>0, <1>2, StoreTypes DEF Locate
  <2>2. req' \in [Requests -> Frontend]
    BY <1>2, StagesTyped DEF Locate, TypeOK
  <2>. QED  BY <1>2, <2>1, <2>2 DEF Locate, TypeOK, ListsTyped
<1>3. CASE LocateFails(r)
  <2>1. ListsTyped'
    <3>1. CASE Store(r, "location")
      BY <1>0, <3>1, StoreTypes
    <3>2. CASE UNCHANGED listVars
      BY <3>2 DEF TypeOK, ListsTyped
    <3>. QED  BY <1>3, <3>1, <3>2 DEF LocateFails
  <2>. QED  BY <1>3, <2>1, StagesTyped DEF LocateFails, TypeOK, ListsTyped
<1>4. CASE Publish(r)
  <2>1. req[r].partition \in Partitions
    BY <1>4, RequestStages DEF Publish
  <2>2. Append(topic[req[r].partition], r) \in Seq(Requests)
    BY <2>1, AppendProperties DEF TypeOK
  <2>3. topic' \in [Partitions -> Seq(Requests)]
    BY <1>4, <2>1, <2>2 DEF Publish, TypeOK
  <2>4. req' \in [Requests -> Frontend]
    BY <1>4, StagesTyped DEF Publish, TypeOK
  <2>. QED  BY <1>4, <2>3, <2>4 DEF Publish, TypeOK
<1>5. CASE SendFails(r)
  BY <1>5, StagesTyped DEF SendFails, TypeOK
<1>. QED  BY <1>1, <1>2, <1>3, <1>4, <1>5

LEMMA FlushTypes ==
    ASSUME TypeOK, NEW g
    PROVE  Flushed(g) \in [Claims -> Nat]
BY DEF TypeOK, Flushed

LEMMA GroupTypes ==
    ASSUME TypeOK, NEW g \in Groups,
           Join(g) \/ AutoCommit(g) \/ Close(g) \/ Leave(g) \/ Crash(g)
    PROVE  TypeOK'
<1>. USE DEF frontVars, offsetVars, groupVars, routeVars, listVars, workVars, lateVars
<1>1. CASE Join(g)
  <2>1. \A p \in Partitions : Len(topic[p]) \in Nat
    BY LenProperties DEF TypeOK
  <2>2. position' \in [Claims -> Nat] /\ marked' \in [Claims -> Nat]
    BY <1>1, <2>1, ClaimParts DEF Join, TypeOK
  <2>. QED  BY <1>1, <2>2 DEF Join, TypeOK
<1>2. CASE AutoCommit(g)
  BY <1>2, FlushTypes DEF AutoCommit, TypeOK
<1>3. CASE Close(g)
  BY <1>3 DEF Close, TypeOK
<1>4. CASE Leave(g)
  <2>1. /\ committed' \in {committed, Flushed(g)}
        /\ \/ interrupted' = interrupted
           \/ interrupted' = [interrupted EXCEPT ![g] = interrupted[g] + 1]
    BY <1>4 DEF Leave
  <2>2. interrupted' \in [Groups -> Nat]
    <3>1. interrupted \in [Groups -> Nat] /\ interrupted[g] + 1 \in Nat
      BY DEF TypeOK
    <3>. QED  BY <2>1, <3>1
  <2>3. committed' \in [Claims -> Nat]
    BY <2>1, FlushTypes DEF TypeOK
  <2>. QED  BY <1>4, <2>2, <2>3 DEF Leave, TypeOK
<1>5. CASE Crash(g)
  <2>1. late' \subseteq Requests
    BY <1>5, WorkStages DEF Crash, Routing, TypeOK
  <2>2. /\ seen' \in [Claims -> SUBSET Seq(Entries)]
        /\ lateSeen' \in [Requests -> SUBSET Seq(Entries)]
    BY <1>5 DEF Crash, TypeOK
  <2>. QED  BY <1>5, <2>1, <2>2, StagesTyped DEF Crash, TypeOK
<1>. QED  BY <1>1, <1>2, <1>3, <1>4, <1>5

LEMMA LateTypes ==
    ASSUME TypeOK, NEW r \in Requests, RouteLate(r)
    PROVE  TypeOK'
<1>. USE DEF frontVars, offsetVars, groupVars, routeVars, listVars, workVars, lateVars
<1>0. list[r] \in Seq(Entries) /\ lateSeen[r] \in SUBSET Seq(Entries)
  BY DEF TypeOK
<1>1. CASE LateReads(r)
  BY <1>0, <1>1 DEF LateReads, TypeOK
<1>2. CASE LateStores(r)
  <2>1. PICK T \in Without(lateSeen[r]) : /\ RouteStores(r, lateSeen[r], T)
                                        /\ lateSeen' = [lateSeen EXCEPT ![r] = T]
    BY <1>2 DEF LateStores
  <2>2. ListsTyped' /\ T \subseteq Seq(Entries)
    BY <1>0, <2>1, RouteStoresTypes
  <2>3. lateSeen' \in [Requests -> SUBSET Seq(Entries)]
    BY <2>1, <2>2 DEF TypeOK
  <2>. QED  BY <1>2, <2>2, <2>3 DEF LateStores, TypeOK, ListsTyped
<1>3. CASE LateEnds(r)
  BY <1>3 DEF LateEnds, TypeOK
<1>. QED  BY <1>1, <1>2, <1>3 DEF RouteLate

(* A claim's own Store. *)
LEMMA OwnStoreTypes ==
    ASSUME TypeOK, NEW c \in Claims, work[c].stage # "idle", NEW kind \in KindNames,
           Reads(c, kind) \/ Stores(c, kind)
    PROVE  ListsTyped' /\ seen' \in [Claims -> SUBSET Seq(Entries)]
<1>0. /\ work[c].req \in Requests /\ list[work[c].req] \in Seq(Entries)
      /\ seen[c] \subseteq Seq(Entries) /\ c[1] \in Groups
  BY WorkStages, ClaimParts DEF TypeOK
<1>1. seen' \in [Claims -> SUBSET Seq(Entries)]
  <2>1. \E S \in SUBSET Seq(Entries) : seen' = [seen EXCEPT ![c] = S]
    BY <1>0 DEF Reads, Stores
  <2>. QED  BY <2>1 DEF TypeOK
<1>2. CASE UNCHANGED listVars
  BY <1>1, <1>2 DEF TypeOK, ListsTyped, listVars
<1>3. CASE Unstored(work[c].req)
  BY <1>0, <1>1, <1>3 DEF TypeOK, ListsTyped, Unstored
<1>4. ASSUME NEW l \in seen[c], Set(work[c].req, l, kind, c[1])
      PROVE  ListsTyped'
  BY <1>0, <1>4, SetTypes
<1>. QED  BY <1>1, <1>2, <1>3, <1>4 DEF Reads, Stores

LEMMA ClaimTypes ==
    ASSUME TypeOK, NEW c \in Claims, Take(c) \/ Process(c)
    PROVE  TypeOK'
<1>. USE DEF frontVars, offsetVars, groupVars, routeVars, listVars, workVars, lateVars
<1>0. /\ Baseline \in Groups /\ c[1] \in Groups /\ c[2] \in Partitions
      /\ "finding" \in KindNames /\ "route" \in KindNames /\ "dispatched" \in KindNames
  BY FlowAssumption, ClaimParts DEF KindNames
<1>1. CASE Take(c)
  <2>1. position[c] + 1 \in 1..Len(topic[c[2]])
    BY <1>0, <1>1, LenProperties DEF Take, TypeOK
  <2>2. topic[c[2]][position[c] + 1] \in Requests
    BY <1>0, <2>1, ElementOfSeq DEF TypeOK
  <2>3. work' \in [Claims -> Works]
    BY <1>1, <2>2, StagesTyped DEF Take, TypeOK
  <2>4. /\ position' \in [Claims -> Nat] /\ marked' \in [Claims -> Nat]
        /\ taken' \in [Claims -> SUBSET Nat]
    BY <1>1 DEF Take, TypeOK
  <2>. QED  BY <1>1, <2>3, <2>4 DEF Take, TypeOK
<1>2. ASSUME work[c].stage # "idle", NEW s \in {"find", "locate", "route", "routed", "finish"},
             Goto(c, s)
      PROVE  work' \in [Claims -> Works]
  <2>1. Doing(s, work[c].req) \in Works
    BY <1>2, WorkStages, StagesTyped
  <2>. QED  BY <1>2, <2>1 DEF Goto, TypeOK
<1>3. ASSUME Done(c)
      PROVE  work' \in [Claims -> Works]
  BY <1>3, StagesTyped DEF Done, TypeOK
<1>4. CASE Decide(c)
  <2>1. work' \in [Claims -> Works]
    BY <1>2, <1>3, <1>4 DEF Decide
  <2>. QED  BY <1>4, <2>1 DEF Decide, TypeOK
<1>5. CASE Find(c)
  <2>1. work' \in [Claims -> Works]
    BY <1>2, <1>5 DEF Find, Reads, TypeOK
  <2>2. ListsTyped' /\ seen' \in [Claims -> SUBSET Seq(Entries)]
    BY <1>0, <1>5, OwnStoreTypes DEF Find
  <2>. QED  BY <1>5, <2>1, <2>2 DEF Find, TypeOK, ListsTyped
<1>6. CASE LocateDrivers(c)
  <2>1. work' \in [Claims -> Works]
    BY <1>2, <1>3, <1>6 DEF LocateDrivers
  <2>. QED  BY <1>6, <2>1 DEF LocateDrivers, TypeOK
<1>7. ASSUME Routing(c)
      PROVE  /\ work[c].req \in Requests /\ work[c].stage # "idle"
             /\ list[work[c].req] \in Seq(Entries) /\ seen[c] \in SUBSET Seq(Entries)
             /\ lateSeen[work[c].req] \in SUBSET Seq(Entries)
  BY <1>7, WorkStages DEF Routing, TypeOK
<1>8. CASE RouteReads(c)
  BY <1>7, <1>8 DEF RouteReads, TypeOK
<1>9. CASE Route(c)
  <2>1. PICK T \in Without(seen[c]) : /\ RouteStores(work[c].req, seen[c], T)
                                    /\ seen' = [seen EXCEPT ![c] = T]
    BY <1>9 DEF Route
  <2>2. ListsTyped' /\ T \subseteq Seq(Entries)
    BY <1>7, <1>9, <2>1, RouteStoresTypes DEF Route
  <2>3. seen' \in [Claims -> SUBSET Seq(Entries)]
    BY <2>1, <2>2 DEF TypeOK
  <2>4. work' \in [Claims -> Works]
    BY <1>2, <1>7, <1>9 DEF Route
  <2>. QED  BY <1>9, <2>2, <2>3, <2>4 DEF Route, TypeOK, ListsTyped
<1>10. CASE RoutesAnswered(c)
  <2>1. work' \in [Claims -> Works]
    BY <1>2, <1>10 DEF RoutesAnswered
  <2>. QED  BY <1>10, <2>1 DEF RoutesAnswered, TypeOK
<1>11. CASE RouteFails(c)
  <2>1. work' \in [Claims -> Works]
    BY <1>3, <1>11 DEF RouteFails
  <2>2. /\ late' \subseteq Requests /\ seen' \in [Claims -> SUBSET Seq(Entries)]
        /\ lateSeen' \in [Requests -> SUBSET Seq(Entries)]
    BY <1>7, <1>11 DEF RouteFails, TypeOK
  <2>. QED  BY <1>11, <2>1, <2>2 DEF RouteFails, TypeOK
<1>12. CASE Finish(c)
  <2>1. work' \in [Claims -> Works]
    BY <1>3, <1>12 DEF Finish, Reads, TypeOK
  <2>2. ListsTyped' /\ seen' \in [Claims -> SUBSET Seq(Entries)]
    BY <1>0, <1>12, OwnStoreTypes DEF Finish
  <2>. QED  BY <1>12, <2>1, <2>2 DEF Finish, TypeOK, ListsTyped
<1>. QED  BY <1>1, <1>4, <1>5, <1>6, <1>8, <1>9, <1>10, <1>11, <1>12 DEF Process

LEMMA FlowTypesStep == TypeOK /\ [Next]_vars => TypeOK'
<1>. SUFFICES ASSUME TypeOK, [Next]_vars PROVE TypeOK'
  OBVIOUS
<1>1. ASSUME NEW g \in Groups, NEW d \in Groups, NEW r \in Requests, Reroute(g, r, d)
      PROVE  TypeOK'
  BY <1>1 DEF Reroute, TypeOK, frontVars, offsetVars, groupVars, listVars, workVars, lateVars
<1>2. CASE UNCHANGED vars
  BY <1>2 DEF vars, TypeOK, frontVars, offsetVars, groupVars, routeVars, listVars, workVars, lateVars
<1>. QED  BY <1>1, <1>2, FrontendTypes, LateTypes, GroupTypes, ClaimTypes DEF Next

LEMMA FlowTypesInit == Init => TypeOK
<1>. SUFFICES ASSUME Init PROVE TypeOK
  OBVIOUS
<1>1. <<>> \in Seq(Requests) /\ <<>> \in Seq(Entries)
  BY EmptySeq
<1>2. req \in [Requests -> Frontend] /\ work \in [Claims -> Works]
  BY StagesTyped DEF Init
<1>3. view \in [Groups \X Requests -> Groups]
  BY DEF Init
<1>. QED  BY <1>1, <1>2, <1>3 DEF Init, TypeOK

(* Requests, offsets, goroutines, routes and notifications are well formed. *)
THEOREM FlowTypeCorrect == Spec => []TypeOK
BY FlowTypesInit, FlowTypesStep, PTL DEF Spec

-----------------------------------------------------------------------------
(* Offsets.  While a group has not lost its marks, what a claim has read ends
   at its mark or, if there is none in this session, at what was committed; the
   session goes on from there.                                              *)
Last(c) == IF session[c[1]] = "closed" \/ marked[c] = 0 THEN committed[c] ELSE marked[c]

SeenUpTo(c) ==
    /\ taken[c] \subseteq 1..Last(c)
    /\ session[c[1]] # "closed" /\ Last(c) # 0 => position[c] = Last(c)

SeenInv == \A c \in Claims : interrupted[c[1]] = 0 => SeenUpTo(c)

LEMMA OffsetsAreNat ==
    ASSUME TypeOK, NEW c \in Claims
    PROVE  position[c] \in Nat /\ marked[c] \in Nat /\ committed[c] \in Nat /\ Last(c) \in Nat
BY DEF TypeOK, Last

LEMMA SeenStep == TypeOK /\ SeenInv /\ [Next]_vars => SeenInv'
<1>. SUFFICES ASSUME TypeOK, SeenInv, [Next]_vars, NEW c \in Claims, interrupted'[c[1]] = 0
              PROVE  SeenUpTo(c)'
  BY DEF SeenInv
<1>. USE DEF frontVars, offsetVars, groupVars, routeVars, listVars, workVars, lateVars
<1>0. c[1] \in Groups /\ session \in [Groups -> {"closed", "open", "closing"}]
  BY ClaimParts DEF TypeOK
<1>1. CASE UNCHANGED <<position, marked, committed, taken, session, interrupted>>
  BY <1>1 DEF SeenInv, SeenUpTo, Last
<1>2. ASSUME NEW d \in Claims, Take(d)
      PROVE  SeenUpTo(c)'
  <2>0. interrupted[c[1]] = 0 /\ SeenUpTo(c)
    BY <1>2 DEF Take, SeenInv
  <2>1. CASE d = c
    <3>1. /\ marked'[c] = position[c] + 1 /\ position'[c] = position[c] + 1
          /\ taken'[c] = taken[c] \cup {position[c] + 1}
          /\ session' = session /\ session[c[1]] # "closed"
      BY <1>2, <2>1 DEF Take, TypeOK
    <3>2. taken[c] \subseteq 1..position[c]
      BY <2>0, <3>1, OffsetsAreNat DEF SeenUpTo
    <3>3. Last(c)' = position[c] + 1
      BY <3>1, OffsetsAreNat DEF Last
    <3>. QED  BY <3>1, <3>2, <3>3, OffsetsAreNat DEF SeenUpTo
  <2>2. CASE d # c
    BY <1>2, <2>0, <2>2 DEF Take, TypeOK, SeenUpTo, Last
  <2>. QED  BY <2>1, <2>2
<1>3. ASSUME NEW g \in Groups, c[1] # g,
             Join(g) \/ AutoCommit(g) \/ Close(g) \/ Leave(g) \/ Crash(g)
      PROVE  SeenUpTo(c)'
  <2>1. /\ position'[c] = position[c] /\ marked'[c] = marked[c] /\ committed'[c] = committed[c]
        /\ taken'[c] = taken[c] /\ session'[c[1]] = session[c[1]]
        /\ interrupted'[c[1]] = interrupted[c[1]]
    BY <1>0, <1>3 DEF Join, AutoCommit, Close, Leave, Crash, Flushed, TypeOK
  <2>. QED  BY <2>1 DEF SeenInv, SeenUpTo, Last
<1>4. CASE Join(c[1])
  <2>1. /\ marked'[c] = 0 /\ committed' = committed /\ taken' = taken
        /\ session'[c[1]] = "open" /\ session[c[1]] = "closed"
        /\ committed[c] # 0 => position'[c] = committed[c]
        /\ interrupted' = interrupted
    BY <1>0, <1>4 DEF Join
  <2>2. Last(c)' = Last(c) /\ Last(c) = committed[c]
    BY <2>1 DEF Last
  <2>. QED  BY <2>1, <2>2 DEF SeenInv, SeenUpTo
<1>5. CASE AutoCommit(c[1])
  <2>1. /\ committed'[c] = IF marked[c] # 0 THEN marked[c] ELSE committed[c]
        /\ session[c[1]] # "closed" /\ UNCHANGED <<position, marked, taken, session, interrupted>>
    BY <1>5 DEF AutoCommit, Flushed
  <2>2. Last(c)' = Last(c)
    BY <2>1 DEF Last
  <2>. QED  BY <2>1, <2>2 DEF SeenInv, SeenUpTo
<1>6. CASE Close(c[1])
  BY <1>0, <1>6 DEF Close, SeenInv, SeenUpTo, Last
<1>7. CASE Leave(c[1])
  <2>0. committed' = Flushed(c[1]) /\ interrupted' = interrupted
    BY <1>0, <1>7 DEF Leave, TypeOK
  <2>1. /\ committed'[c] = IF marked[c] # 0 THEN marked[c] ELSE committed[c]
        /\ session[c[1]] = "closing" /\ session'[c[1]] = "closed"
        /\ UNCHANGED <<position, marked, taken, interrupted>>
    BY <1>0, <1>7, <2>0 DEF Leave, Flushed
  <2>2. Last(c)' = Last(c)
    BY <2>1 DEF Last
  <2>. QED  BY <2>1, <2>2 DEF SeenInv, SeenUpTo
<1>8. CASE Crash(c[1])
  BY <1>0, <1>8 DEF Crash, TypeOK
<1>9. ASSUME NEW r \in Requests,
             Dispatch(r) \/ Locate(r) \/ LocateFails(r) \/ Publish(r) \/ SendFails(r)
      PROVE  UNCHANGED <<position, marked, committed, taken, session, interrupted>>
  BY <1>9 DEF Dispatch, Locate, LocateFails, Publish, SendFails
<1>10. ASSUME NEW d \in Claims, Process(d)
       PROVE  UNCHANGED <<position, marked, committed, taken, session, interrupted>>
  BY <1>10 DEF Process, Decide, Find, LocateDrivers, RouteReads, Route, RoutesAnswered,
             RouteFails, Finish
<1>11. ASSUME NEW g, NEW r, NEW d, Reroute(g, r, d)
       PROVE  UNCHANGED <<position, marked, committed, taken, session, interrupted>>
  BY <1>11 DEF Reroute
<1>12. CASE UNCHANGED vars
  BY <1>1, <1>12 DEF vars
<1>13. ASSUME NEW r, RouteLate(r)
       PROVE  UNCHANGED <<position, marked, committed, taken, session, interrupted>>
  BY <1>13 DEF RouteLate, LateReads, LateStores, LateEnds
<1>. QED
  BY <1>13, <1>1, <1>2, <1>3, <1>4, <1>5, <1>6, <1>7, <1>8, <1>9, <1>10, <1>11, <1>12 DEF Next

LEMMA SeenInit == Init => SeenInv
<1>. SUFFICES ASSUME Init, NEW c \in Claims PROVE SeenUpTo(c)
  BY DEF SeenInv
<1>1. taken[c] = {} /\ session[c[1]] = "closed"
  BY ClaimParts DEF Init
<1>. QED  BY <1>1 DEF SeenUpTo

LEMMA SeenImplies ==
    TypeOK /\ SeenInv =>
        \A c \in Claims : Take(c) /\ position[c] + 1 \in taken[c] => interrupted[c[1]] > 0
<1>. SUFFICES ASSUME TypeOK, SeenInv, NEW c \in Claims, Take(c), position[c] + 1 \in taken[c],
                     interrupted[c[1]] = 0
              PROVE  FALSE
  BY ClaimParts DEF TypeOK
<1>1. SeenUpTo(c) /\ session[c[1]] # "closed"
  BY DEF SeenInv, Take
<1>2. position[c] + 1 \in 1..Last(c)
  BY <1>1 DEF SeenUpTo
<1>. QED  BY <1>1, <1>2, OffsetsAreNat DEF SeenUpTo

(* However often sessions end, are rebalanced and start again, a group whose
   marks no crash and no failed last commit has lost reads no message of a
   partition twice.                                                          *)
THEOREM MessagesReadOnce == Spec => ReadOnce
<1>1. Spec => [](TypeOK /\ SeenInv)
  BY FlowTypesInit, FlowTypesStep, SeenInit, SeenStep, PTL DEF Spec
<1>. QED  BY <1>1, SeenImplies, PTL DEF Spec, ReadOnce

-----------------------------------------------------------------------------
(* Commits.  In a session the mark is the position, and what is between the
   committed offset and the position has been read: by this session, since
   each starts at the committed offset.                                      *)
ReadUpTo(c) ==
    /\ marked[c] # 0 => marked[c] = position[c]
    /\ committed[c] # 0 => /\ committed[c] <= position[c]
                           /\ (committed[c] + 1)..position[c] \subseteq taken[c]

ReadInv == \A c \in Claims : session[c[1]] # "closed" => ReadUpTo(c)

(* The commit of a group's marks. *)
LEMMA FlushKeepsRead ==
    ASSUME TypeOK, NEW g, NEW c \in Claims, ReadUpTo(c)
    PROVE  /\ Flushed(g)[c] \in {committed[c], position[c]}
           /\ Flushed(g)[c] # 0 => /\ Flushed(g)[c] <= position[c]
                                   /\ (Flushed(g)[c] + 1)..position[c] \subseteq taken[c]
<1>1. Flushed(g)[c] = IF c[1] = g /\ marked[c] # 0 THEN marked[c] ELSE committed[c]
  BY DEF Flushed
<1>. QED  BY <1>1, OffsetsAreNat DEF ReadUpTo

LEMMA ReadStep == TypeOK /\ ReadInv /\ [Next]_vars => ReadInv'
<1>. SUFFICES ASSUME TypeOK, ReadInv, [Next]_vars, NEW c \in Claims, session'[c[1]] # "closed"
              PROVE  ReadUpTo(c)'
  BY DEF ReadInv
<1>. USE DEF frontVars, offsetVars, groupVars, routeVars, listVars, workVars, lateVars
<1>0. c[1] \in Groups /\ session \in [Groups -> {"closed", "open", "closing"}]
  BY ClaimParts DEF TypeOK
<1>1. CASE UNCHANGED <<offsetVars, session>>
  BY <1>1 DEF ReadInv, ReadUpTo
<1>2. ASSUME NEW d \in Claims, Take(d)
      PROVE  ReadUpTo(c)'
  <2>0. ReadUpTo(c)
    BY <1>2 DEF Take, ReadInv
  <2>1. CASE d = c
    <3>1. /\ marked'[c] = position[c] + 1 /\ position'[c] = position[c] + 1
          /\ taken'[c] = taken[c] \cup {position[c] + 1} /\ committed' = committed
      BY <1>2, <2>1 DEF Take, TypeOK
    <3>. QED  BY <2>0, <3>1, OffsetsAreNat DEF ReadUpTo
  <2>2. CASE d # c
    BY <1>2, <2>0, <2>2 DEF Take, TypeOK, ReadUpTo
  <2>. QED  BY <2>1, <2>2
<1>3. ASSUME NEW g \in Groups, c[1] # g,
             Join(g) \/ AutoCommit(g) \/ Close(g) \/ Leave(g) \/ Crash(g)
      PROVE  ReadUpTo(c)'
  <2>1. /\ position'[c] = position[c] /\ marked'[c] = marked[c] /\ committed'[c] = committed[c]
        /\ taken'[c] = taken[c] /\ session'[c[1]] = session[c[1]]
    BY <1>0, <1>3 DEF Join, AutoCommit, Close, Leave, Crash, Flushed, TypeOK
  <2>. QED  BY <2>1 DEF ReadInv, ReadUpTo
<1>4. CASE Join(c[1])
  <2>1. /\ marked'[c] = 0 /\ committed' = committed
        /\ committed[c] # 0 => position'[c] = committed[c]
    BY <1>0, <1>4 DEF Join
  <2>. QED  BY <2>1, OffsetsAreNat DEF ReadUpTo
<1>5. CASE AutoCommit(c[1])
  <2>1. /\ committed' = Flushed(c[1]) /\ UNCHANGED <<position, marked, taken>>
        /\ ReadUpTo(c)
    BY <1>5 DEF AutoCommit, ReadInv
  <2>. QED  BY <2>1, FlushKeepsRead DEF ReadUpTo
<1>6. CASE Close(c[1])
  BY <1>0, <1>6 DEF Close, ReadInv, ReadUpTo
<1>7. CASE Leave(c[1]) \/ Crash(c[1])
  BY <1>0, <1>7 DEF Leave, Crash
<1>8. ASSUME NEW r \in Requests,
             Dispatch(r) \/ Locate(r) \/ LocateFails(r) \/ Publish(r) \/ SendFails(r) \/ RouteLate(r)
      PROVE  UNCHANGED <<offsetVars, session>>
  BY <1>8 DEF Dispatch, Locate, LocateFails, Publish, SendFails, RouteLate,
             LateReads, LateStores, LateEnds
<1>9. ASSUME NEW d \in Claims, Process(d)
      PROVE  UNCHANGED <<offsetVars, session>>
  BY <1>9 DEF Process, Decide, Find, LocateDrivers, RouteReads, Route, RoutesAnswered,
             RouteFails, Finish
<1>10. ASSUME NEW g, NEW r, NEW d, Reroute(g, r, d)
       PROVE  UNCHANGED <<offsetVars, session>>
  BY <1>10 DEF Reroute
<1>11. CASE UNCHANGED vars
  BY <1>1, <1>11 DEF vars
<1>. QED
  BY <1>1, <1>2, <1>3, <1>4, <1>5, <1>6, <1>7, <1>8, <1>9, <1>10, <1>11 DEF Next

LEMMA ReadInit == Init => ReadInv
BY ClaimParts DEF Init, ReadInv

(* Only a group with a session commits, and what it commits it has read. *)
LEMMA CommitStep ==
    TypeOK /\ ReadInv /\ [Next]_vars =>
        \A c \in Claims : committed[c] # 0 =>
            /\ committed'[c] >= committed[c]
            /\ (committed[c] + 1)..committed'[c] \subseteq taken[c]
<1>. SUFFICES ASSUME TypeOK, ReadInv, [Next]_vars, NEW c \in Claims, committed[c] # 0
              PROVE  /\ committed'[c] >= committed[c]
                     /\ (committed[c] + 1)..committed'[c] \subseteq taken[c]
  OBVIOUS
<1>1. CASE committed'[c] = committed[c]
  BY <1>1, OffsetsAreNat
<1>2. ASSUME NEW g \in Groups, session[g] # "closed", committed' = Flushed(g),
             committed'[c] # committed[c]
      PROVE  /\ committed'[c] >= committed[c]
             /\ (committed[c] + 1)..committed'[c] \subseteq taken[c]
  <2>1. c[1] = g
    BY <1>2 DEF Flushed
  <2>2. ReadUpTo(c)
    BY <1>2, <2>1 DEF ReadInv
  <2>3. committed'[c] = position[c]
    BY <1>2, <2>2, FlushKeepsRead
  <2>. QED  BY <2>2, <2>3, OffsetsAreNat DEF ReadUpTo
<1>3. \/ committed' = committed
      \/ \E g \in Groups : session[g] # "closed" /\ committed' = Flushed(g)
  <2>1. ASSUME NEW r \in Requests,
               Dispatch(r) \/ Locate(r) \/ LocateFails(r) \/ Publish(r) \/ SendFails(r) \/ RouteLate(r)
        PROVE  committed' = committed
    BY <2>1 DEF Dispatch, Locate, LocateFails, Publish, SendFails, RouteLate, LateReads,
                LateStores, LateEnds, offsetVars
  <2>2. ASSUME NEW d \in Claims, Take(d) \/ Process(d)
        PROVE  committed' = committed
    BY <2>2 DEF Take, Process, Decide, Find, LocateDrivers, RouteReads, Route, RoutesAnswered,
                RouteFails, Finish, offsetVars
  <2>3. ASSUME NEW g \in Groups, Join(g) \/ Close(g) \/ Crash(g)
        PROVE  committed' = committed
    BY <2>3 DEF Join, Close, Crash, offsetVars
  <2>4. ASSUME NEW g \in Groups, AutoCommit(g) \/ Leave(g)
        PROVE  session[g] # "closed" /\ committed' \in {committed, Flushed(g)}
    BY <2>4 DEF AutoCommit, Leave
  <2>5. ASSUME NEW g, NEW r, NEW d, Reroute(g, r, d)
        PROVE  committed' = committed
    BY <2>5 DEF Reroute, offsetVars
  <2>6. CASE UNCHANGED vars
    BY <2>6 DEF vars, offsetVars
  <2>. QED  BY <2>1, <2>2, <2>3, <2>4, <2>5, <2>6 DEF Next
<1>. QED  BY <1>1, <1>2, <1>3

(* A group never commits an offset behind a message that it has not read, except
   for the first time, and never goes back to an earlier one.                *)
THEOREM NothingPassedOver == Spec => CommitsWhatWasRead
<1>1. Spec => [](TypeOK /\ ReadInv)
  BY FlowTypesInit, FlowTypesStep, ReadInit, ReadStep, PTL DEF Spec
<1>. QED  BY <1>1, CommitStep, PTL DEF Spec, CommitsWhatWasRead
-----------------------------------------------------------------------------
(* Stores.  The kinds of notifications are numbered in the order of the flow; a
   claim has a Store under way only at the stage of its kind, and whatever is
   written is a list that such a Store has read, and the notification behind it. *)
Lacks(l, n) == \A i \in DOMAIN l : l[i].kind # Kinds[n]

RoleOf(stage, d, n, g) == \/ stage = "find" /\ n = 3 /\ g = d
                          \/ stage \in {"route", "routed"} /\ n = 4 /\ g = Baseline
                          \/ stage = "finish" /\ n = 5 /\ g = d

Role(c, r, n, g) == work[c].req = r /\ RoleOf(work[c].stage, c[1], n, g)

(* A Store under way of the n-th notification of r by g has read the list l. *)
Reading(r, l, n, g) == \/ \E c \in Claims : l \in seen[c] /\ Role(c, r, n, g)
                       \/ l \in lateSeen[r] /\ n = 4 /\ g = Baseline

(* Such a Store may read. *)
AtWork(r, n, g) == \/ \E c \in Claims : Role(c, r, n, g)
                   \/ r \in late /\ n = 4 /\ g = Baseline

StageInv == \A c \in Claims :
               seen[c] # {} => work[c].stage \in {"find", "route", "routed", "finish"}

(* The frontend's own notification, or that of the location service. *)
Turn(r, n) == n = 1 \/ (n = 2 /\ req[r].stage \in {"pickup", "dropoff"})

Written(r) ==
    \E n \in 1..5, g \in Groups, l \in Seq(Entries) :
        /\ \/ Reading(r, l, n, g)
           \/ Turn(r, n) /\ g = Baseline /\ l = list[r] /\ Lacks(l, n)
        /\ list'[r] = Append(l, Entry(Kinds[n], g))
        /\ r \in contended' \/ list[r] \in {l, list'[r]}

ListSteps == /\ unstored \subseteq unstored' /\ contended \subseteq contended'
             /\ \A r \in Requests : list'[r] = list[r] \/ Written(r)

ClaimStep(c) ==
    \A l \in seen'[c] : \A n, g :
        RoleOf(work'[c].stage, c[1], n, g) =>
            /\ Role(c, work'[c].req, n, g)
            /\ l \in seen[c] \/ (l = list[work[c].req] /\ Lacks(l, n))

LateStep(r) ==
    \A l \in lateSeen'[r] : \/ l \in lateSeen[r]
                            \/ \E c \in Claims : /\ l \in seen[c] /\ work[c].req = r
                                                 /\ Routing(c)
                            \/ r \in late /\ l = list[r] /\ Lacks(l, 4)

ReadingSteps ==
    \A r \in Requests : \A l, n, g :
        Reading(r, l, n, g)' => \/ Reading(r, l, n, g)
                                \/ AtWork(r, n, g) /\ l = list[r] /\ Lacks(l, n)

LEMMA ReadingFrom ==
    ASSUME \A c \in Claims : ClaimStep(c), \A r \in Requests : LateStep(r)
    PROVE  ReadingSteps
<1>. SUFFICES ASSUME NEW r \in Requests, NEW l, NEW n, NEW g, Reading(r, l, n, g)'
              PROVE  \/ Reading(r, l, n, g)
                     \/ AtWork(r, n, g) /\ l = list[r] /\ Lacks(l, n)
  BY DEF ReadingSteps
<1>1. ASSUME NEW c \in Claims, l \in seen'[c], Role(c, r, n, g)'
      PROVE  \/ Reading(r, l, n, g)
             \/ AtWork(r, n, g) /\ l = list[r] /\ Lacks(l, n)
  <2>1. work'[c].req = r /\ RoleOf(work'[c].stage, c[1], n, g)
    BY <1>1 DEF Role
  <2>2. Role(c, r, n, g) /\ (l \in seen[c] \/ (l = list[work[c].req] /\ Lacks(l, n)))
    BY <1>1, <2>1 DEF ClaimStep
  <2>. QED  BY <2>2 DEF Role, Reading, AtWork
<1>2. ASSUME l \in lateSeen'[r], n = 4, g = Baseline
      PROVE  \/ Reading(r, l, n, g)
             \/ AtWork(r, n, g) /\ l = list[r] /\ Lacks(l, n)
  BY <1>2 DEF LateStep, Reading, AtWork, Role, RoleOf, Routing
<1>. QED  BY <1>1, <1>2 DEF Reading

LEMMA QuietSteps ==
    ASSUME UNCHANGED listVars
    PROVE  ListSteps
BY DEF ListSteps, listVars

LEMMA UnstoredSteps ==
    ASSUME NEW r \in Requests, Unstored(r)
    PROVE  ListSteps
BY DEF ListSteps, Unstored

LEMMA SetSteps ==
    ASSUME TypeOK, NEW r \in Requests, NEW l \in Seq(Entries), NEW n \in 1..5, NEW g \in Groups,
           Set(r, l, Kinds[n], g),
           \/ Reading(r, l, n, g)
           \/ Turn(r, n) /\ g = Baseline /\ l = list[r] /\ Lacks(l, n)
    PROVE  ListSteps
<1>. DEFINE new == Append(l, Entry(Kinds[n], g))
<1>1. /\ list' = [list EXCEPT ![r] = new] /\ unstored' = unstored
      /\ contended' = IF list[r] \in {l, new} THEN contended ELSE contended \cup {r}
  BY DEF Set
<1>2. /\ list'[r] = new /\ \A q \in Requests \ {r} : list'[q] = list[q]
      /\ contended \subseteq contended'
      /\ r \in contended' \/ list[r] \in {l, new}
  BY <1>1 DEF TypeOK
<1>3. Written(r)
  BY <1>2 DEF Written
<1>. QED  BY <1>1, <1>2, <1>3 DEF ListSteps

LEMMA ListedIs ==
    ASSUME NEW r, NEW n, ~Listed(r, Kinds[n])
    PROVE  Lacks(list[r], n)
BY DEF Listed, Lacks

LEMMA StoreSteps ==
    ASSUME TypeOK, NEW r \in Requests, NEW n \in {1, 2}, Turn(r, n), Store(r, Kinds[n])
    PROVE  ListSteps
<1>1. CASE UNCHANGED listVars
  BY <1>1, QuietSteps
<1>2. CASE Unstored(r)
  BY <1>2, UnstoredSteps
<1>3. CASE ~Listed(r, Kinds[n]) /\ Set(r, list[r], Kinds[n], Baseline)
  <2>1. PICK l \in Seq(Entries) : l = list[r]
    BY DEF TypeOK
  <2>2. Lacks(l, n) /\ n \in 1..5
    BY <1>3, <2>1, ListedIs
  <2>. QED  BY <1>3, <2>1, <2>2, FlowAssumption, SetSteps
<1>. QED  BY <1>1, <1>2, <1>3 DEF Store

LEMMA RouteStoresSteps ==
    ASSUME TypeOK, NEW r \in Requests, NEW S \in SUBSET Seq(Entries), NEW T,
           RouteStores(r, S, T), \A l \in S : Reading(r, l, 4, Baseline)
    PROVE  ListSteps
<1>1. CASE UNCHANGED listVars
  BY <1>1, QuietSteps
<1>2. CASE Unstored(r)
  BY <1>2, UnstoredSteps
<1>3. ASSUME NEW l \in S, Set(r, l, "route", Baseline)
      PROVE  ListSteps
  <2>1. l \in Seq(Entries) /\ Reading(r, l, 4, Baseline) /\ Set(r, l, Kinds[4], Baseline)
    BY <1>3, KindsAre
  <2>. QED  BY <2>1, FlowAssumption, SetSteps
<1>. QED  BY <1>1, <1>2, <1>3 DEF RouteStores

LEMMA OwnStoreSteps ==
    ASSUME TypeOK, NEW c \in Claims, work[c].stage # "idle", NEW n \in 1..5,
           Role(c, work[c].req, n, c[1]), Reads(c, Kinds[n]) \/ Stores(c, Kinds[n])
    PROVE  ListSteps
<1>0. /\ work[c].req \in Requests /\ c[1] \in Groups /\ seen[c] \subseteq Seq(Entries)
  BY WorkStages, ClaimParts DEF TypeOK
<1>1. CASE UNCHANGED listVars
  BY <1>1, QuietSteps
<1>2. CASE Unstored(work[c].req)
  BY <1>0, <1>2, UnstoredSteps
<1>3. ASSUME NEW l \in seen[c], Set(work[c].req, l, Kinds[n], c[1])
      PROVE  ListSteps
  <2>1. PICK r \in Requests, g \in Groups : r = work[c].req /\ g = c[1]
    BY <1>0
  <2>2. l \in Seq(Entries) /\ Reading(r, l, n, g) /\ Set(r, l, Kinds[n], g)
    BY <1>0, <1>3, <2>1 DEF Reading
  <2>. QED  BY <2>2, SetSteps
<1>. QED  BY <1>1, <1>2, <1>3 DEF Reads, Stores

(* What the claims and the route service do to the lists. *)
LEMMA AllListSteps == TypeOK /\ [Next]_vars => ListSteps
<1>. SUFFICES ASSUME TypeOK, [Next]_vars PROVE ListSteps
  OBVIOUS
<1>1. ASSUME NEW r \in Requests,
             Dispatch(r) \/ Locate(r) \/ LocateFails(r) \/ Publish(r) \/ SendFails(r)
      PROVE  ListSteps
  <2>1. UNCHANGED listVars \/ \E n \in {1, 2} : Turn(r, n) /\ Store(r, Kinds[n])
    BY <1>1, KindsAre DEF Dispatch, Locate, LocateFails, Publish, SendFails, Turn
  <2>. QED  BY <2>1, QuietSteps, StoreSteps
<1>2. ASSUME NEW r \in Requests, RouteLate(r)
      PROVE  ListSteps
  <2>1. CASE LateStores(r)
    <3>1. PICK T : RouteStores(r, lateSeen[r], T)
      BY <2>1 DEF LateStores
    <3>2. lateSeen[r] \in SUBSET Seq(Entries) /\ \A l \in lateSeen[r] : Reading(r, l, 4, Baseline)
      BY DEF TypeOK, Reading
    <3>. QED  BY <3>1, <3>2, RouteStoresSteps
  <2>2. CASE LateReads(r) \/ LateEnds(r)
    BY <2>2, QuietSteps DEF LateReads, LateEnds
  <2>. QED  BY <1>2, <2>1, <2>2 DEF RouteLate
<1>3. ASSUME NEW g \in Groups, Join(g) \/ AutoCommit(g) \/ Close(g) \/ Leave(g) \/ Crash(g)
      PROVE  ListSteps
  BY <1>3, QuietSteps DEF Join, AutoCommit, Close, Leave, Crash
<1>4. ASSUME NEW g, NEW r, NEW d, Reroute(g, r, d)
      PROVE  ListSteps
  BY <1>4, QuietSteps DEF Reroute
<1>5. ASSUME NEW c \in Claims, Take(c) \/ Process(c)
      PROVE  ListSteps
  <2>1. CASE Find(c)
    <3>1. /\ work[c].stage # "idle" /\ Role(c, work[c].req, 3, c[1])
          /\ Reads(c, Kinds[3]) \/ Stores(c, Kinds[3])
      BY <2>1, KindsAre DEF Find, Role, RoleOf
    <3>. QED  BY <3>1, OwnStoreSteps
  <2>2. CASE Finish(c)
    <3>1. /\ work[c].stage # "idle" /\ Role(c, work[c].req, 5, c[1])
          /\ Reads(c, Kinds[5]) \/ Stores(c, Kinds[5])
      BY <2>2, KindsAre DEF Finish, Role, RoleOf
    <3>. QED  BY <3>1, OwnStoreSteps
  <2>3. CASE Route(c)
    <3>1. work[c].req \in Requests /\ seen[c] \in SUBSET Seq(Entries)
      BY <2>3, WorkStages DEF Route, Routing, TypeOK
    <3>2. PICK r \in Requests : r = work[c].req
      BY <3>1
    <3>3. PICK T : RouteStores(r, seen[c], T)
      BY <2>3, <3>2 DEF Route
    <3>4. \A l \in seen[c] : Reading(r, l, 4, Baseline)
      BY <2>3, <3>2 DEF Route, Routing, Reading, Role, RoleOf
    <3>. QED  BY <3>1, <3>3, <3>4, RouteStoresSteps
  <2>4. CASE UNCHANGED listVars
    BY <2>4, QuietSteps
  <2>. QED  BY <1>5, <2>1, <2>2, <2>3, <2>4
            DEF Take, Process, Decide, LocateDrivers, RouteReads, RoutesAnswered, RouteFails
<1>6. CASE UNCHANGED vars
  BY <1>6, QuietSteps DEF vars
<1>. QED  BY <1>1, <1>2, <1>3, <1>4, <1>5, <1>6 DEF Next

(* What they have read. *)
LEMMA SameReads ==
    ASSUME NEW c \in Claims, seen'[c] = {} \/ (seen'[c] \subseteq seen[c] /\ work'[c] = work[c])
    PROVE  ClaimStep(c)
BY DEF ClaimStep, Role

LEMMA SameLate ==
    ASSUME NEW r \in Requests, lateSeen'[r] \subseteq lateSeen[r]
    PROVE  LateStep(r)
BY DEF LateStep

LEMMA OtherClaims ==
    ASSUME TypeOK, NEW c \in Claims, NEW S, NEW w,
           \/ seen' = seen /\ work' = [work EXCEPT ![c] = w]
           \/ seen' = [seen EXCEPT ![c] = S] /\ work' \in {work, [work EXCEPT ![c] = w]},
           NEW d \in Claims, d # c
    PROVE  ClaimStep(d)
<1>1. seen'[d] = seen[d] /\ work'[d] = work[d]
  BY DEF TypeOK
<1>. QED  BY <1>1, SameReads

LEMMA AllReadingSteps == TypeOK /\ StageInv /\ [Next]_vars => ReadingSteps /\ StageInv'
<1>. SUFFICES ASSUME TypeOK, StageInv, [Next]_vars PROVE ReadingSteps /\ StageInv'
  OBVIOUS
<1>. USE DEF frontVars, offsetVars, groupVars, routeVars, listVars, workVars, lateVars
<1>0. /\ work \in [Claims -> Works] /\ seen \in [Claims -> SUBSET Seq(Entries)]
      /\ lateSeen \in [Requests -> SUBSET Seq(Entries)]
  BY DEF TypeOK
<1>1. CASE UNCHANGED <<work, seen, lateSeen>>
  BY <1>1, ReadingFrom, SameReads, SameLate DEF StageInv
<1>2. ASSUME NEW r \in Requests, RouteLate(r)
      PROVE  ReadingSteps /\ StageInv'
  <2>1. UNCHANGED <<work, seen>>
    BY <1>2 DEF RouteLate, LateReads, LateStores, LateEnds
  <2>2. CASE LateReads(r)
    <3>1. Lacks(list[r], 4) /\ r \in late
      BY <2>2, ListedIs, KindsAre DEF LateReads
    <3>2. \A q \in Requests : LateStep(q)
      BY <1>0, <2>2, <3>1 DEF LateReads, LateStep
    <3>. QED  BY <2>1, <3>2, ReadingFrom, SameReads DEF StageInv
  <2>3. CASE LateStores(r)
    <3>1. PICK T \in Without(lateSeen[r]) : lateSeen' = [lateSeen EXCEPT ![r] = T]
      BY <2>3 DEF LateStores
    <3>2. \A q \in Requests : lateSeen'[q] \subseteq lateSeen[q]
      BY <1>0, <3>1 DEF Without
    <3>. QED  BY <2>1, <3>2, ReadingFrom, SameReads, SameLate DEF StageInv
  <2>4. CASE LateEnds(r)
    BY <1>1, <2>4 DEF LateEnds
  <2>. QED  BY <1>2, <2>2, <2>3, <2>4 DEF RouteLate
<1>3. ASSUME NEW g \in Groups, Crash(g)
      PROVE  ReadingSteps /\ StageInv'
  <2>1. \A c \in Claims : seen'[c] = {} \/ (seen'[c] = seen[c] /\ work'[c] = work[c])
    BY <1>0, <1>3 DEF Crash
  <2>2. \A r \in Requests : LateStep(r)
    BY <1>0, <1>3 DEF Crash, LateStep
  <2>. QED  BY <2>1, <2>2, ReadingFrom, SameReads DEF StageInv
<1>4. ASSUME NEW c \in Claims, Take(c) \/ Process(c),
             ClaimStep(c),
             seen'[c] # {} => work'[c].stage \in {"find", "route", "routed", "finish"},
             \A d \in Claims \ {c} : seen'[d] = seen[d] /\ work'[d] = work[d],
             \A r \in Requests : LateStep(r)
      PROVE  ReadingSteps /\ StageInv'
  <2>1. \A d \in Claims : ClaimStep(d)
    BY <1>4, SameReads
  <2>2. StageInv'
    BY <1>4 DEF StageInv
  <2>. QED  BY <1>4, <2>1, <2>2, ReadingFrom
<1>5. ASSUME NEW c \in Claims, Take(c) \/ Process(c)
      PROVE  ReadingSteps /\ StageInv'
  <2>1. \A d \in Claims \ {c} : seen'[d] = seen[d] /\ work'[d] = work[d]
    BY <1>0, <1>5 DEF Take, Process, Decide, Find, Finish, Reads, Stores, LocateDrivers, RouteReads,
                      Route, RoutesAnswered, RouteFails, Goto, Done
  <2>2. CASE seen'[c] = {} /\ lateSeen' = lateSeen
    BY <1>4, <1>5, <2>1, <2>2, SameReads, SameLate
  <2>3. CASE Take(c) \/ Decide(c) \/ LocateDrivers(c) \/ RoutesAnswered(c)
    <3>1. seen' = seen /\ lateSeen' = lateSeen
      BY <2>3 DEF Take, Decide, LocateDrivers, RoutesAnswered
    <3>2. seen[c] = {}
      BY <2>3 DEF Take, Decide, LocateDrivers, RoutesAnswered, StageInv
    <3>. QED  BY <2>2, <3>1, <3>2
  <2>4. ASSUME NEW n \in {3, 5}, RoleOf(work[c].stage, c[1], n, c[1]), lateSeen' = lateSeen,
               Reads(c, Kinds[n]) \/ (Stores(c, Kinds[n]) /\ seen'[c] = {})
        PROVE  ReadingSteps /\ StageInv'
    <3>1. CASE Reads(c, Kinds[n])
      <4>1. /\ seen'[c] = {list[work[c].req]} /\ work' = work
            /\ Lacks(list[work[c].req], n)
        BY <1>0, <3>1, ListedIs DEF Reads
      <4>2. \A m, g : RoleOf(work[c].stage, c[1], m, g) => m = n
        BY <2>4 DEF RoleOf
      <4>3. ClaimStep(c)
        BY <4>1, <4>2 DEF ClaimStep, Role
      <4>. QED  BY <1>4, <1>5, <2>1, <2>4, <4>1, <4>3, SameLate DEF RoleOf
    <3>. QED  BY <2>2, <2>4, <3>1
  <2>5. CASE Find(c)
    <3>1. /\ RoleOf(work[c].stage, c[1], 3, c[1]) /\ lateSeen' = lateSeen
          /\ Reads(c, Kinds[3]) \/ (Stores(c, Kinds[3]) /\ seen'[c] = {})
      BY <1>0, <2>5, KindsAre DEF Find, RoleOf, Stores
    <3>. QED  BY <2>4, <3>1
  <2>6. CASE Finish(c)
    <3>1. /\ RoleOf(work[c].stage, c[1], 5, c[1]) /\ lateSeen' = lateSeen
          /\ Reads(c, Kinds[5]) \/ (Stores(c, Kinds[5]) /\ seen'[c] = {})
      BY <1>0, <2>6, KindsAre DEF Finish, RoleOf, Stores
    <3>. QED  BY <2>4, <3>1
  <2>7. CASE RouteReads(c)
    <3>1. /\ seen'[c] = seen[c] \cup {list[work[c].req]} /\ work' = work /\ lateSeen' = lateSeen
          /\ Lacks(list[work[c].req], 4) /\ work[c].stage \in {"route", "routed"}
      BY <1>0, <2>7, ListedIs, KindsAre DEF RouteReads, Routing
    <3>2. \A m, g : RoleOf(work[c].stage, c[1], m, g) => m = 4
      BY <3>1 DEF RoleOf
    <3>3. ClaimStep(c)
      BY <3>1, <3>2 DEF ClaimStep, Role
    <3>. QED  BY <1>4, <1>5, <2>1, <3>1, <3>3, SameLate
  <2>8. CASE Route(c)
    <3>1. PICK T \in Without(seen[c]) : seen' = [seen EXCEPT ![c] = T]
      BY <2>8 DEF Route
    <3>2. seen'[c] \subseteq seen[c] /\ lateSeen' = lateSeen
      BY <1>0, <2>8, <3>1 DEF Without, Route
    <3>3. /\ work'[c].stage = "routed" /\ work'[c].req = work[c].req
          /\ work[c].stage \in {"route", "routed"}
      BY <1>0, <2>8 DEF Route, Routing, Goto, Doing
    <3>4. ClaimStep(c)
      BY <3>2, <3>3 DEF ClaimStep, Role, RoleOf
    <3>. QED  BY <1>4, <1>5, <2>1, <3>2, <3>3, <3>4, SameLate
  <2>9. CASE RouteFails(c)
    <3>1. seen'[c] = {} /\ Routing(c)
      BY <1>0, <2>9 DEF RouteFails
    <3>2. work[c].req \in Requests
      BY <3>1, WorkStages DEF Routing
    <3>3. \A r \in Requests : lateSeen'[r] = IF r = work[c].req THEN lateSeen[r] \cup seen[c]
                                             ELSE lateSeen[r]
      BY <1>0, <2>9, <3>2 DEF RouteFails
    <3>4. \A r \in Requests : LateStep(r)
      BY <3>1, <3>3 DEF LateStep
    <3>. QED  BY <1>4, <1>5, <2>1, <3>1, <3>4, SameReads
  <2>. QED  BY <1>5, <2>3, <2>5, <2>6, <2>7, <2>8, <2>9 DEF Process
<1>6. ASSUME NEW r \in Requests,
             Dispatch(r) \/ Locate(r) \/ LocateFails(r) \/ Publish(r) \/ SendFails(r)
      PROVE  UNCHANGED <<work, seen, lateSeen>>
  BY <1>6 DEF Dispatch, Locate, LocateFails, Publish, SendFails
<1>7. ASSUME NEW g \in Groups, Join(g) \/ AutoCommit(g) \/ Close(g) \/ Leave(g)
      PROVE  UNCHANGED <<work, seen, lateSeen>>
  BY <1>7 DEF Join, AutoCommit, Close, Leave
<1>8. ASSUME NEW g, NEW r, NEW d, Reroute(g, r, d)
      PROVE  UNCHANGED <<work, seen, lateSeen>>
  BY <1>8 DEF Reroute
<1>9. CASE UNCHANGED vars
  BY <1>1, <1>9 DEF vars
<1>. QED  BY <1>1, <1>2, <1>3, <1>5, <1>6, <1>7, <1>8, <1>9 DEF Next

LEMMA StageInit == Init => StageInv
BY DEF Init, StageInv

-----------------------------------------------------------------------------
(* No step is listed twice, in no list that a Store has read either, and the step
   that the Store adds is not in the list that it has read.                  *)
Different(l) == \A i, j \in DOMAIN l : l[i].kind = l[j].kind => i = j

StepsInv == \A r \in Requests :
               /\ Different(list[r])
               /\ \A l, n, g : Reading(r, l, n, g) => Different(l) /\ Lacks(l, n)

LEMMA AppendDifferent ==
    ASSUME NEW l \in Seq(Entries), NEW n, NEW g, Different(l), Lacks(l, n)
    PROVE  Different(Append(l, Entry(Kinds[n], g)))
<1>. DEFINE new == Append(l, Entry(Kinds[n], g))
<1>1. /\ Len(l) \in Nat /\ DOMAIN l = 1..Len(l) /\ DOMAIN new = 1..(Len(l) + 1)
      /\ \A i \in 1..Len(l) : new[i] = l[i]
      /\ new[Len(l) + 1] = Entry(Kinds[n], g)
  OBVIOUS
<1>2. Entry(Kinds[n], g).kind = Kinds[n]
  BY DEF Entry
<1>. HIDE DEF new
<1>3. \A i \in 1..Len(l) : new[i].kind # Kinds[n]
  BY <1>1 DEF Lacks
<1>4. \A i \in 1..(Len(l) + 1) : i \in 1..Len(l) \/ i = Len(l) + 1
  BY <1>1
<1>. QED  BY <1>1, <1>2, <1>3, <1>4 DEF Different

LEMMA StepsStep == TypeOK /\ StageInv /\ StepsInv /\ [Next]_vars => StepsInv'
<1>. SUFFICES ASSUME TypeOK, StageInv, StepsInv, [Next]_vars, NEW r \in Requests
              PROVE  /\ Different(list'[r])
                     /\ \A l, n, g : Reading(r, l, n, g)' => Different(l) /\ Lacks(l, n)
  BY DEF StepsInv, Different, Lacks
<1>1. ListSteps /\ ReadingSteps
  BY AllListSteps, AllReadingSteps
<1>2. Different(list'[r])
  <2>1. CASE list'[r] = list[r]
    BY <2>1 DEF StepsInv
  <2>2. CASE Written(r)
    <3>1. PICK n \in 1..5, g \in Groups, l \in Seq(Entries) :
             /\ Reading(r, l, n, g) \/ (l = list[r] /\ Lacks(l, n))
             /\ list'[r] = Append(l, Entry(Kinds[n], g))
      BY <2>2 DEF Written
    <3>2. Different(l) /\ Lacks(l, n)
      BY <3>1 DEF StepsInv
    <3>. QED  BY <3>1, <3>2, AppendDifferent
  <2>. QED  BY <1>1, <2>1, <2>2 DEF ListSteps
<1>3. ASSUME NEW l, NEW n, NEW g, Reading(r, l, n, g)'
      PROVE  Different(l) /\ Lacks(l, n)
  BY <1>1, <1>3 DEF ReadingSteps, StepsInv
<1>. QED  BY <1>2, <1>3

LEMMA StepsInit == Init => StepsInv
<1>. SUFFICES ASSUME Init, NEW r \in Requests
              PROVE  /\ Different(list[r])
                     /\ \A l, n, g : ~Reading(r, l, n, g)
  BY DEF StepsInv
<1>1. list[r] = <<>> /\ DOMAIN <<>> = {}
  BY DEF Init
<1>2. lateSeen[r] = {} /\ \A c \in Claims : seen[c] = {}
  BY DEF Init
<1>. QED  BY <1>1, <1>2 DEF Different, Reading

LEMMA StepsImply == StepsInv => StepsOnce
BY DEF StepsInv, Different, StepsOnce

(* However many claims, groups and late route calls store for a request with
   lists they have read before, and whatever they replace, no step of it is
   listed twice.                                                             *)
THEOREM NoStepTwice == Spec => []StepsOnce
<1>1. Spec => [](TypeOK /\ StageInv /\ StepsInv)
  BY FlowTypesInit, FlowTypesStep, StageInit, AllReadingSteps, StepsInit, StepsStep, PTL DEF Spec
<1>. QED  BY <1>1, StepsImply, PTL

-----------------------------------------------------------------------------
(* Routes.  While the route of a request does not change, the groups agree on
   it, and only the group that it selects is past shouldProcess or has stored a
   notification of the driver, in whatever list.                             *)
Selected(r) == view[<<Baseline, r>>]

PastDecide == {"find", "locate", "route", "routed", "finish"}

DoneBy(l, d) == \A i \in DOMAIN l : l[i].kind \in DriverKinds => l[i].by = d

RouteInv == \A r \in Requests \ rerouted :
    /\ \A g \in Groups : view[<<g, r>>] = Selected(r)
    /\ DoneBy(list[r], Selected(r))
    /\ \A l, n, g : Reading(r, l, n, g) => DoneBy(l, Selected(r))
    /\ \A c \in Claims : work[c].stage \in PastDecide /\ work[c].req = r => c[1] = Selected(r)

LEMMA AppendDone ==
    ASSUME NEW l \in Seq(Entries), NEW n \in 1..5, NEW g, NEW d, DoneBy(l, d),
           n \in {3, 5} => g = d
    PROVE  DoneBy(Append(l, Entry(Kinds[n], g)), d)
<1>. DEFINE new == Append(l, Entry(Kinds[n], g))
<1>1. /\ Len(l) \in Nat /\ DOMAIN l = 1..Len(l) /\ DOMAIN new = 1..(Len(l) + 1)
      /\ \A i \in 1..Len(l) : new[i] = l[i]
      /\ new[Len(l) + 1] = Entry(Kinds[n], g)
  OBVIOUS
<1>2. Entry(Kinds[n], g).kind = Kinds[n] /\ Entry(Kinds[n], g).by = g
  BY DEF Entry
<1>3. Kinds[n] \in DriverKinds => n \in {3, 5}
  <2>1. n = 1 \/ n = 2 \/ n = 3 \/ n = 4 \/ n = 5
    OBVIOUS
  <2>. QED  BY <2>1, KindsAre DEF DriverKinds
<1>. HIDE DEF new
<1>4. \A i \in 1..(Len(l) + 1) : i \in 1..Len(l) \/ i = Len(l) + 1
  BY <1>1
<1>. QED  BY <1>1, <1>2, <1>3, <1>4 DEF DoneBy

(* Who stores a notification of the driver is selected. *)
LEMMA ReaderSelected ==
    ASSUME TypeOK, RouteInv, NEW r \in Requests \ rerouted, NEW l, NEW n \in {3, 5}, NEW g,
           Reading(r, l, n, g)
    PROVE  g = Selected(r)
<1>1. PICK c \in Claims : Role(c, r, n, g)
  BY DEF Reading
<1>2. work[c].stage \in PastDecide /\ work[c].req = r /\ g = c[1]
  BY <1>1 DEF Role, RoleOf, PastDecide
<1>. QED  BY <1>2 DEF RouteInv

(* The lists keep to the route. *)
LEMMA RouteLists ==
    ASSUME TypeOK, RouteInv, ListSteps, ReadingSteps, NEW r \in Requests \ rerouted,
           Selected(r)' = Selected(r)
    PROVE  /\ DoneBy(list'[r], Selected(r)')
           /\ \A l, n, g : Reading(r, l, n, g)' => DoneBy(l, Selected(r)')
<1>1. DoneBy(list'[r], Selected(r))
  <2>1. CASE list'[r] = list[r]
    BY <2>1 DEF RouteInv
  <2>2. CASE Written(r)
    <3>1. PICK n \in 1..5, g \in Groups, l \in Seq(Entries) :
             /\ Reading(r, l, n, g) \/ (Turn(r, n) /\ l = list[r])
             /\ list'[r] = Append(l, Entry(Kinds[n], g))
      BY <2>2 DEF Written
    <3>2. DoneBy(l, Selected(r))
      BY <3>1 DEF RouteInv
    <3>3. n \in {3, 5} => g = Selected(r)
      BY <3>1, ReaderSelected DEF Turn
    <3>. QED  BY <3>1, <3>2, <3>3, AppendDone
  <2>. QED  BY <2>1, <2>2 DEF ListSteps
<1>2. ASSUME NEW l, NEW n, NEW g, Reading(r, l, n, g)'
      PROVE  DoneBy(l, Selected(r))
  BY <1>2 DEF ReadingSteps, RouteInv
<1>. QED  BY <1>1, <1>2

LEMMA RouteStep == TypeOK /\ StageInv /\ RouteInv /\ [Next]_vars => RouteInv'
<1>. SUFFICES ASSUME TypeOK, StageInv, RouteInv, [Next]_vars, NEW r \in Requests \ rerouted'
              PROVE  /\ \A g \in Groups : view'[<<g, r>>] = Selected(r)'
                     /\ DoneBy(list'[r], Selected(r)')
                     /\ \A l, n, g : Reading(r, l, n, g)' => DoneBy(l, Selected(r)')
                     /\ \A c \in Claims : work'[c].stage \in PastDecide /\ work'[c].req = r
                                             => c[1] = Selected(r)'
  BY DEF RouteInv, DoneBy
<1>. USE DEF frontVars, offsetVars, groupVars, routeVars, listVars, workVars, lateVars
<1>. DEFINE Past(w) == w.stage \in PastDecide /\ w.req = r
            ViewOK == \A g \in Groups : view'[<<g, r>>] = Selected(r)'
            ListOK == /\ DoneBy(list'[r], Selected(r)')
                      /\ \A l, n, g : Reading(r, l, n, g)' => DoneBy(l, Selected(r)')
            PastOK == \A c \in Claims : Past(work'[c]) => c[1] = Selected(r)'
<1>0. /\ Baseline \in Groups /\ work \in [Claims -> Works]
      /\ ListSteps /\ ReadingSteps
  BY FlowAssumption, AllListSteps, AllReadingSteps DEF TypeOK
<1>1. ASSUME r \in Requests \ rerouted, UNCHANGED routeVars
      PROVE  ViewOK /\ ListOK /\ Selected(r)' = Selected(r)
  BY <1>0, <1>1, RouteLists DEF RouteInv, Selected
<1>2. ASSUME r \in Requests \ rerouted, UNCHANGED routeVars,
             \A c \in Claims : Past(work'[c]) => Past(work[c])
      PROVE  ViewOK /\ ListOK /\ PastOK
  BY <1>1, <1>2 DEF RouteInv
<1>3. ASSUME NEW q \in Requests,
             \/ Dispatch(q) \/ Locate(q) \/ LocateFails(q) \/ Publish(q) \/ SendFails(q)
             \/ RouteLate(q)
      PROVE  ViewOK /\ ListOK /\ PastOK
  BY <1>2, <1>3 DEF Dispatch, Locate, LocateFails, Publish, SendFails, RouteLate, LateReads,
                    LateStores, LateEnds
<1>4. ASSUME NEW g \in Groups, Join(g) \/ AutoCommit(g) \/ Close(g) \/ Leave(g) \/ Crash(g)
      PROVE  ViewOK /\ ListOK /\ PastOK
  <2>1. UNCHANGED routeVars /\ r \in Requests \ rerouted
    BY <1>4 DEF Join, AutoCommit, Close, Leave, Crash
  <2>2. \A c \in Claims : work'[c] = work[c] \/ work'[c] = Idle
    BY <1>0, <1>4 DEF Join, AutoCommit, Close, Leave, Crash
  <2>3. \A c \in Claims : Past(work'[c]) => Past(work[c])
    BY <2>2 DEF Idle, PastDecide
  <2>. QED  BY <1>2, <2>1, <2>3
<1>5. ASSUME NEW g \in Groups, NEW d \in Groups, NEW q \in Requests, Reroute(g, q, d)
      PROVE  ViewOK /\ ListOK /\ PastOK
  <2>1. r # q /\ r \in Requests \ rerouted /\ UNCHANGED work
    BY <1>5 DEF Reroute
  <2>2. \A h \in Groups : view'[<<h, r>>] = view[<<h, r>>]
    BY <1>5, <2>1 DEF Reroute, TypeOK
  <2>3. Selected(r)' = Selected(r)
    BY <1>0, <2>2 DEF Selected
  <2>. QED  BY <1>0, <2>1, <2>2, <2>3, RouteLists DEF RouteInv
<1>6. ASSUME NEW c \in Claims, Decide(c)
      PROVE  ViewOK /\ ListOK /\ PastOK
  <2>0. UNCHANGED routeVars /\ r \in Requests \ rerouted
    BY <1>6 DEF Decide
  <2>1. ASSUME NEW d \in Claims, Past(work'[d]), ~Past(work[d])
        PROVE  d = c /\ work[c].req = r /\ ShouldProcess(c[1], r)
    BY <1>0, <1>6, <2>1 DEF Decide, Goto, Done, Doing, Idle, PastDecide
  <2>2. ASSUME ShouldProcess(c[1], r)
        PROVE  c[1] = Selected(r)
    BY <2>0, <2>2, ClaimParts DEF ShouldProcess, RouteInv
  <2>3. PastOK
    BY <1>1, <2>0, <2>1, <2>2 DEF RouteInv
  <2>. QED  BY <1>1, <2>0, <2>3
<1>7. ASSUME NEW c \in Claims, Take(c) \/ Process(c), ~Decide(c)
      PROVE  ViewOK /\ ListOK /\ PastOK
  <2>1. UNCHANGED routeVars /\ r \in Requests \ rerouted
    BY <1>7 DEF Take, Process, Find, LocateDrivers, RouteReads, Route, RoutesAnswered, RouteFails,
                Finish
  <2>2. /\ \A d \in Claims \ {c} : work'[d] = work[d]
        /\ \/ work'[c].stage \notin PastDecide
           \/ work[c].stage \in PastDecide /\ work'[c].req = work[c].req
    BY <1>0, <1>7 DEF Take, Process, Find, LocateDrivers, RouteReads, Route, RoutesAnswered,
                      RouteFails, Finish, Reads, Routing, Goto, Done, Doing, Idle, PastDecide
  <2>3. \A d \in Claims : Past(work'[d]) => Past(work[d])
    BY <2>2
  <2>. QED  BY <1>2, <2>1, <2>3
<1>8. CASE UNCHANGED vars
  BY <1>2, <1>8 DEF vars
<1>. QED  BY <1>3, <1>4, <1>5, <1>6, <1>7, <1>8 DEF Next

LEMMA RouteInit == Init => RouteInv
<1>. SUFFICES ASSUME Init, NEW r \in Requests
              PROVE  /\ \A g \in Groups : view[<<g, r>>] = Selected(r)
                     /\ DOMAIN list[r] = {}
                     /\ \A l, n, g : ~Reading(r, l, n, g)
                     /\ \A c \in Claims : work[c].stage = "idle"
  BY DEF RouteInv, DoneBy, PastDecide
<1>1. PICK route \in [Requests -> Groups] : view = [x \in Groups \X Requests |-> route[x[2]]]
  BY DEF Init
<1>2. \A g \in Groups : view[<<g, r>>] = route[r]
  BY <1>1
<1>3. list[r] = <<>> /\ DOMAIN <<>> = {}
  BY DEF Init
<1>4. \A c \in Claims : work[c].stage = "idle"
  BY DEF Init, Idle
<1>5. lateSeen[r] = {} /\ \A c \in Claims : seen[c] = {}
  BY DEF Init
<1>. QED  BY <1>2, <1>3, <1>4, <1>5, FlowAssumption DEF Selected, Reading

LEMMA RouteImplies == RouteInv => OneGroup
BY DEF RouteInv, DoneBy, OneGroup, Selected

(* Unless its route changes on the way, the driver's part in a request is done
   by the group its key selects, also when the message is there twice or is
   read again, and whatever Stores replace.                                  *)
THEOREM OneGroupAnswers == Spec => []OneGroup
<1>1. Spec => [](TypeOK /\ StageInv /\ RouteInv)
  BY FlowTypesInit, FlowTypesStep, StageInit, AllReadingSteps, RouteInit, RouteStep, PTL DEF Spec
<1>. QED  BY <1>1, RouteImplies, PTL

-----------------------------------------------------------------------------
(* Order.  The first notifications of a request come in turn: all of them as long
   as every one is stored and no Store replaces what it has not read, else the
   first three, and none once one was not stored.  What handles a request is
   past those before its stage, and so is every list that a Store has read.  *)
Bound(r) == IF r \in unstored THEN 0 ELSE IF r \in contended THEN 3 ELSE 5

InTurn(l, b) == /\ \A i \in DOMAIN l : i <= b => l[i].kind = Kinds[i]
                /\ b = 5 => Len(l) <= 5

Long(l, b, n) == \A k \in 1..n : k <= b => k <= Len(l)

Stored(r, n) == Long(list[r], Bound(r), n)

Prefix(r) == InTurn(list[r], Bound(r))

ReadOK(r, l, n) == InTurn(l, Bound(r)) /\ Long(l, Bound(r), n - 1) /\ Lacks(l, n)

Behind(stage) == CASE stage \in {"pickup"} -> 1
                   [] stage \in {"dropoff", "sending", "read", "find"} -> 2
                   [] stage \in {"locate", "route"} -> 3
                   [] stage \in {"routed", "finish"} -> 4
                   [] OTHER -> 0

RequestsOK == \A r \in Requests : Stored(r, Behind(req[r].stage))
TopicOK == \A p \in Partitions : \A i \in DOMAIN topic[p] : Stored(topic[p][i], 2)
WorkOK == \A c \in Claims : work[c].stage # "idle" => Stored(work[c].req, Behind(work[c].stage))
LateOK == \A r \in late : Stored(r, 3)
ReadsOK == \A r \in Requests : \A l, g : \A n \in 3..5 : Reading(r, l, n, g) => ReadOK(r, l, n)

OrderInv == /\ \A r \in Requests : Prefix(r)
            /\ RequestsOK /\ TopicOK /\ WorkOK /\ LateOK /\ ReadsOK

LEMMA BehindIs ==
    /\ Behind("new") = 0 /\ Behind("pickup") = 1 /\ Behind("dropoff") = 2 /\ Behind("sending") = 2
    /\ Behind("accepted") = 0 /\ Behind("failed") = 0
    /\ Behind("read") = 2 /\ Behind("find") = 2 /\ Behind("locate") = 3 /\ Behind("route") = 3
    /\ Behind("routed") = 4 /\ Behind("finish") = 4
BY DEF Behind

LEMMA BehindIsNat == \A stage : Behind(stage) \in 0..4
BY DEF Behind

LEMMA KindsDiffer == \A i, j \in 1..5 : Kinds[i] = Kinds[j] => i = j
<1>1. \A i \in 1..5 : i = 1 \/ i = 2 \/ i = 3 \/ i = 4 \/ i = 5
  OBVIOUS
<1>. QED  BY <1>1, KindsAre

LEMMA ListedLong ==
    ASSUME NEW l \in Seq(Entries), NEW b \in {0, 3, 5}, NEW n \in 1..5, InTurn(l, b), ~Lacks(l, n)
    PROVE  Long(l, b, n)
<1>1. Len(l) \in Nat /\ DOMAIN l = 1..Len(l)
  OBVIOUS
<1>2. PICK i \in 1..Len(l) : l[i].kind = Kinds[n]
  BY <1>1 DEF Lacks
<1>3. CASE i <= b
  <2>1. i \in 1..5 /\ Kinds[i] = Kinds[n]
    BY <1>1, <1>2, <1>3 DEF InTurn
  <2>2. i = n
    BY <2>1, KindsDiffer
  <2>. QED  BY <1>1, <2>2 DEF Long
<1>4. CASE ~(i <= b)
  BY <1>1, <1>4 DEF Long
<1>. QED  BY <1>3, <1>4

LEMMA AppendFacts ==
    ASSUME NEW l \in Seq(Entries), NEW e
    PROVE  /\ Len(l) \in Nat /\ DOMAIN l = 1..Len(l) /\ DOMAIN Append(l, e) = 1..(Len(l) + 1)
           /\ Len(Append(l, e)) = Len(l) + 1
           /\ \A i \in 1..Len(l) : Append(l, e)[i] = l[i]
           /\ Append(l, e)[Len(l) + 1] = e
OBVIOUS

LEMMA AppendInTurn ==
    ASSUME NEW l \in Seq(Entries), NEW b \in {0, 3, 5}, NEW n \in 1..5, NEW g,
           InTurn(l, b), Long(l, b, n - 1), Lacks(l, n)
    PROVE  InTurn(Append(l, Entry(Kinds[n], g)), b)
<1>. DEFINE e == Entry(Kinds[n], g)
            new == Append(l, e)
<1>1. /\ Len(l) \in Nat /\ DOMAIN l = 1..Len(l) /\ DOMAIN new = 1..(Len(l) + 1)
      /\ Len(new) = Len(l) + 1
      /\ \A i \in 1..Len(l) : new[i] = l[i]
      /\ new[Len(l) + 1] = e
  BY AppendFacts
<1>2. e.kind = Kinds[n]
  BY DEF Entry
<1>. HIDE DEF new, e
<1>3. CASE n <= b
  <2>1. n - 1 <= Len(l)
    BY <1>1, <1>3 DEF Long
  <2>2. Len(l) < n
    <3>1. SUFFICES ASSUME n <= Len(l) PROVE FALSE
      BY <1>1
    <3>2. n \in DOMAIN l /\ l[n].kind = Kinds[n]
      BY <1>1, <1>3, <3>1 DEF InTurn
    <3>. QED  BY <3>2 DEF Lacks
  <2>3. Len(l) = n - 1
    BY <1>1, <2>1, <2>2
  <2>4. \A i \in DOMAIN new : i \in DOMAIN l \/ i = n
    BY <1>1, <2>3
  <2>5. new[n].kind = Kinds[n] /\ Len(new) <= 5
    BY <1>1, <1>2, <2>3
  <2>6. \A i \in DOMAIN l : i <= b => new[i].kind = Kinds[i]
    BY <1>1 DEF InTurn
  <2>7. \A i \in DOMAIN new : i <= b => new[i].kind = Kinds[i]
    BY <2>4, <2>5, <2>6
  <2>. QED  BY <2>5, <2>7 DEF InTurn, new, e
<1>4. CASE ~(n <= b)
  <2>1. b # 5 /\ b <= Len(l)
    BY <1>1, <1>4 DEF Long
  <2>2. \A i \in DOMAIN new : i <= b => i \in DOMAIN l
    BY <1>1, <2>1
  <2>. QED  BY <1>1, <2>1, <2>2 DEF InTurn
<1>. QED  BY <1>3, <1>4

LEMMA BoundIs == \A r : Bound(r) \in {0, 3, 5}
BY DEF Bound

LEMMA BoundSinks ==
    ASSUME ListSteps, NEW r
    PROVE  Bound(r)' \in {0, 3, 5} /\ Bound(r)' <= Bound(r)
BY DEF ListSteps, Bound

LEMMA LowerBound ==
    ASSUME NEW l, NEW b \in {0, 3, 5}, NEW a \in {0, 3, 5}, a <= b
    PROVE  /\ InTurn(l, b) /\ (DOMAIN l \subseteq Nat) => InTurn(l, a)
           /\ \A n \in Nat : Long(l, b, n) => Long(l, a, n)
<1>1. ASSUME InTurn(l, b), DOMAIN l \subseteq Nat
      PROVE  InTurn(l, a)
  <2>1. \A i \in DOMAIN l : i <= a => i <= b
    BY <1>1
  <2>2. a = 5 => b = 5
    OBVIOUS
  <2>. QED  BY <1>1, <2>1, <2>2 DEF InTurn
<1>2. ASSUME NEW n \in Nat, Long(l, b, n)
      PROVE  Long(l, a, n)
  BY <1>2 DEF Long
<1>. QED  BY <1>1, <1>2

Kept == /\ \A q \in Requests : Prefix(q)'
        /\ \A q \in Requests, k \in Nat : Stored(q, k) => Stored(q, k)'

(* What a Store writes keeps the order, whatever it replaces. *)
LEMMA WrittenOrder ==
    ASSUME TypeOK, OrderInv, ListSteps, NEW r \in Requests, Written(r)
    PROVE  Prefix(r)' /\ \A k \in Nat : Stored(r, k) => Stored(r, k)'
<1>1. PICK n \in 1..5, g \in Groups, l \in Seq(Entries) :
         /\ \/ Reading(r, l, n, g)
            \/ Turn(r, n) /\ l = list[r] /\ Lacks(l, n)
         /\ list'[r] = Append(l, Entry(Kinds[n], g))
         /\ r \in contended' \/ list[r] \in {l, list'[r]}
  BY DEF Written
<1>2. PICK b \in {0, 3, 5}, a \in {0, 3, 5} : b = Bound(r) /\ a = Bound(r)' /\ a <= b
  BY BoundIs, BoundSinks
<1>3. r \in contended' => a <= 3
  BY <1>2 DEF Bound
<1>0. PICK old \in Seq(Entries) : old = list[r]
  BY DEF TypeOK
<1>4. PICK new : old = list[r] /\ new = list'[r]
  BY <1>0
<1>5. /\ Len(l) \in Nat /\ DOMAIN l = 1..Len(l) /\ Len(new) = Len(l) + 1
      /\ Len(old) \in Nat
  BY <1>1, <1>4, AppendFacts
<1>6. InTurn(old, b)
  BY <1>2, <1>4 DEF OrderInv, Prefix
<1>7. CASE Reading(r, l, n, g)
  <2>1. n \in 3..5
    BY <1>7 DEF Reading, Role, RoleOf
  <2>2. InTurn(l, b) /\ Long(l, b, n - 1) /\ Lacks(l, n)
    BY <1>2, <1>7, <2>1 DEF OrderInv, ReadsOK, ReadOK
  <2>3. InTurn(new, b)
    BY <1>1, <1>4, <2>2, AppendInTurn
  <2>4. ASSUME NEW k \in Nat, Long(old, b, k)
        PROVE  Long(new, a, k)
    <3>1. SUFFICES ASSUME NEW j \in 1..k, j <= a PROVE j <= Len(l) + 1
      BY <1>5 DEF Long
    <3>2. CASE r \in contended'
      <4>1. j <= 3 /\ 2 <= n - 1
        BY <1>2, <1>3, <2>1, <3>1, <3>2
      <4>2. \A m \in 1..2 : m <= b => m <= Len(l)
        BY <2>1, <2>2 DEF Long
      <4>. QED  BY <1>2, <1>5, <3>1, <4>1, <4>2
    <3>3. CASE old \in {l, new}
      <4>1. j <= Len(old)
        BY <1>2, <2>4, <3>1 DEF Long
      <4>. QED  BY <1>5, <3>3, <4>1
    <3>. QED  BY <1>1, <1>4, <3>2, <3>3
  <2>5. InTurn(new, a)
    <3>1. DOMAIN new \subseteq Nat
      BY <1>1, <1>4, AppendFacts
    <3>. QED  BY <1>2, <2>3, <3>1, LowerBound
  <2>. QED  BY <1>2, <1>4, <2>4, <2>5 DEF Prefix, Stored
<1>8. CASE Turn(r, n) /\ l = list[r] /\ Lacks(l, n)
  <2>1. Long(l, b, n - 1)
    <3>1. CASE n = 1
      BY <3>1 DEF Long
    <3>2. CASE n = 2 /\ req[r].stage \in {"pickup", "dropoff"}
      <4>1. Stored(r, 1) \/ Stored(r, 2)
        BY <3>2, BehindIs DEF OrderInv, RequestsOK
      <4>. QED  BY <1>2, <1>8, <3>2, <4>1 DEF Stored, Long
    <3>. QED  BY <1>8, <3>1, <3>2 DEF Turn
  <2>2. InTurn(new, b)
    BY <1>1, <1>4, <1>6, <1>8, <2>1, AppendInTurn
  <2>3. ASSUME NEW k \in Nat, Long(old, b, k)
        PROVE  Long(new, a, k)
    BY <1>2, <1>4, <1>5, <1>8, <2>3 DEF Long
  <2>4. InTurn(new, a)
    <3>1. DOMAIN new \subseteq Nat
      BY <1>1, <1>4, AppendFacts
    <3>. QED  BY <1>2, <2>2, <3>1, LowerBound
  <2>. QED  BY <1>2, <1>4, <2>3, <2>4 DEF Prefix, Stored
<1>. QED  BY <1>1, <1>7, <1>8

LEMMA KeptLists ==
    ASSUME TypeOK, OrderInv, ListSteps
    PROVE  Kept
<1>. SUFFICES ASSUME NEW r \in Requests
              PROVE  Prefix(r)' /\ \A k \in Nat : Stored(r, k) => Stored(r, k)'
  BY DEF Kept
<1>1. CASE Written(r)
  BY <1>1, WrittenOrder
<1>2. CASE list'[r] = list[r]
  <2>1. PICK b \in {0, 3, 5}, a \in {0, 3, 5} : b = Bound(r) /\ a = Bound(r)' /\ a <= b
    BY BoundIs, BoundSinks
  <2>2. PICK l \in Seq(Entries) : l = list[r]
    BY DEF TypeOK
  <2>3. DOMAIN l \subseteq Nat /\ InTurn(l, b)
    BY <2>1, <2>2 DEF OrderInv, Prefix
  <2>. QED  BY <1>2, <2>1, <2>2, <2>3, LowerBound DEF Prefix, Stored
<1>. QED  BY <1>1, <1>2 DEF ListSteps

(* A Store reads a list that is past what comes before. *)
LEMMA AtWorkStored ==
    ASSUME TypeOK, OrderInv, NEW r \in Requests, NEW n \in 3..5, NEW g, AtWork(r, n, g)
    PROVE  Stored(r, n - 1)
<1>1. CASE r \in late /\ n = 4
  BY <1>1 DEF OrderInv, LateOK
<1>2. ASSUME NEW c \in Claims, Role(c, r, n, g)
      PROVE  Stored(r, n - 1)
  <2>1. /\ work[c].req = r /\ work[c].stage # "idle"
        /\ Behind(work[c].stage) \in 0..4 /\ n - 1 <= Behind(work[c].stage)
    BY <1>2, BehindIs, BehindIsNat DEF Role, RoleOf
  <2>2. Stored(r, Behind(work[c].stage))
    BY <2>1 DEF OrderInv, WorkOK
  <2>. QED  BY <2>1, <2>2 DEF Stored, Long
<1>. QED  BY <1>1, <1>2 DEF AtWork

LEMMA ReadsKept ==
    ASSUME TypeOK, OrderInv, ListSteps, ReadingSteps
    PROVE  ReadsOK'
<1>. SUFFICES ASSUME NEW r \in Requests, NEW l, NEW g, NEW n \in 3..5, Reading(r, l, n, g)'
              PROVE  InTurn(l, Bound(r)') /\ Long(l, Bound(r)', n - 1) /\ Lacks(l, n)
  BY DEF ReadsOK, ReadOK
<1>1. PICK b \in {0, 3, 5}, a \in {0, 3, 5} : b = Bound(r) /\ a = Bound(r)' /\ a <= b
  BY BoundIs, BoundSinks
<1>2. InTurn(l, b) /\ Long(l, b, n - 1) /\ Lacks(l, n) /\ l \in Seq(Entries)
  <2>1. CASE Reading(r, l, n, g)
    BY <1>1, <2>1 DEF OrderInv, ReadsOK, ReadOK, Reading, TypeOK
  <2>2. CASE AtWork(r, n, g) /\ l = list[r] /\ Lacks(l, n)
    BY <1>1, <2>2, AtWorkStored DEF OrderInv, Prefix, Stored, TypeOK
  <2>. QED  BY <2>1, <2>2 DEF ReadingSteps
<1>3. DOMAIN l \subseteq Nat /\ n - 1 \in Nat
  BY <1>2
<1>. QED  BY <1>1, <1>2, <1>3, LowerBound

LEMMA OrderFrame ==
    TypeOK /\ StageInv /\ OrderInv /\ [Next]_vars => Kept /\ ReadsOK' /\ ListSteps
BY AllListSteps, AllReadingSteps, KeptLists, ReadsKept

(* What a Store leaves in the list, or not. *)
Has(r, n) == r \in unstored' \/ ~Lacks(list'[r], n)

LEMMA HasStored ==
    ASSUME TypeOK', NEW r \in Requests, Prefix(r)', NEW n \in 1..5, Has(r, n)
    PROVE  Stored(r, n)'
<1>1. PICK l \in Seq(Entries), b \in {0, 3, 5} : l = list'[r] /\ b = Bound(r)'
  BY BoundIs DEF TypeOK, Bound
<1>2. CASE r \in unstored'
  BY <1>2 DEF Stored, Long, Bound
<1>3. CASE ~Lacks(l, n)
  <2>1. InTurn(l, b)
    BY <1>1 DEF Prefix
  <2>2. Long(l, b, n)
    BY <1>3, <2>1, ListedLong
  <2>. QED  BY <1>1, <2>2 DEF Stored
<1>. QED  BY <1>1, <1>2, <1>3 DEF Has

LEMMA SetHas ==
    ASSUME TypeOK, NEW r \in Requests, NEW l \in Seq(Entries), NEW n \in 1..5, NEW g,
           Set(r, l, Kinds[n], g)
    PROVE  Has(r, n)
<1>. DEFINE new == Append(l, Entry(Kinds[n], g))
<1>1. list'[r] = new
  BY DEF Set, TypeOK
<1>2. Len(l) \in Nat /\ DOMAIN new = 1..(Len(l) + 1) /\ new[Len(l) + 1] = Entry(Kinds[n], g)
  BY AppendFacts
<1>. HIDE DEF new
<1>3. Len(l) + 1 \in DOMAIN new /\ new[Len(l) + 1].kind = Kinds[n]
  BY <1>2 DEF Entry
<1>. QED  BY <1>1, <1>3 DEF Has, Lacks

LEMMA ListedHas ==
    ASSUME NEW r, NEW n, Listed(r, Kinds[n]), UNCHANGED listVars
    PROVE  Has(r, n)
BY DEF Listed, Has, Lacks, listVars

LEMMA UnstoredHas ==
    ASSUME NEW r, NEW n, Unstored(r)
    PROVE  Has(r, n)
BY DEF Unstored, Has

LEMMA StoreHas ==
    ASSUME TypeOK, NEW r \in Requests, NEW n \in 1..5, Store(r, Kinds[n])
    PROVE  Has(r, n)
<1>1. list[r] \in Seq(Entries)
  BY DEF TypeOK
<1>. QED  BY <1>1, SetHas, ListedHas, UnstoredHas DEF Store

LEMMA StoresHas ==
    ASSUME TypeOK, NEW c \in Claims, NEW n \in 1..5, NEW r \in Requests, r = work[c].req,
           Stores(c, Kinds[n])
    PROVE  Has(r, n)
<1>1. seen[c] \subseteq Seq(Entries)
  BY DEF TypeOK
<1>. QED  BY <1>1, SetHas, ListedHas, UnstoredHas DEF Stores

LEMMA RouteStoresHas ==
    ASSUME TypeOK, NEW r \in Requests, NEW S \in SUBSET Seq(Entries), NEW T, RouteStores(r, S, T)
    PROVE  Has(r, 4)
<1>1. RouteStores(r, S, T) => \/ Listed(r, Kinds[4]) /\ UNCHANGED listVars
                              \/ \E l \in S : Set(r, l, Kinds[4], Baseline)
                              \/ Unstored(r)
  BY KindsAre DEF RouteStores
<1>. QED  BY <1>1, SetHas, ListedHas, UnstoredHas

LEMMA OrderNext ==
    Kept /\ RequestsOK' /\ TopicOK' /\ WorkOK' /\ LateOK' /\ ReadsOK' => OrderInv'
BY DEF OrderInv, Kept, RequestsOK, TopicOK, WorkOK, LateOK, ReadsOK

(* What a step does not touch stays in order when Stored is kept. *)
LEMMA FramesKept ==
    ASSUME TypeOK, OrderInv, Kept
    PROVE  /\ req' = req => RequestsOK'
           /\ topic' = topic => TopicOK'
           /\ (\A c \in Claims : work'[c] = work[c] \/ work'[c] = Idle) => WorkOK'
           /\ (\A r \in late' : r \in late \/ (r \in Requests /\ Stored(r, 3))) => LateOK'
<1>. USE DEF OrderInv
<1>1. req' = req => RequestsOK'
  BY BehindIsNat DEF RequestsOK, Kept
<1>2. topic' = topic => TopicOK'
  <2>1. \A p \in Partitions : \A i \in DOMAIN topic[p] : topic[p][i] \in Requests
    BY ElementOfSeq DEF TypeOK
  <2>. QED  BY <2>1 DEF TopicOK, Kept
<1>3. ASSUME \A c \in Claims : work'[c] = work[c] \/ work'[c] = Idle
      PROVE  WorkOK'
  <2>1. SUFFICES ASSUME NEW c \in Claims, work'[c].stage # "idle"
                 PROVE  Stored(work[c].req, Behind(work[c].stage))'
    BY DEF WorkOK
  <2>2. work'[c] = work[c] /\ work[c].stage # "idle"
    BY <1>3, <2>1 DEF Idle
  <2>3. work[c].req \in Requests
    BY <2>2, WorkStages
  <2>. QED  BY <2>2, <2>3, BehindIsNat DEF WorkOK, Kept, Stored
<1>4. ASSUME \A r \in late' : r \in late \/ (r \in Requests /\ Stored(r, 3))
      PROVE  LateOK'
  <2>1. \A r \in late : r \in Requests
    BY DEF TypeOK
  <2>. QED  BY <1>4, <2>1 DEF LateOK, Kept
<1>. QED  BY <1>1, <1>2, <1>3, <1>4

LEMMA FrontendOrder ==
    ASSUME TypeOK, TypeOK', OrderInv, Kept, ReadsOK', NEW r \in Requests,
           Dispatch(r) \/ Locate(r) \/ LocateFails(r) \/ Publish(r) \/ SendFails(r)
    PROVE  OrderInv'
<1>. USE DEF frontVars, offsetVars, groupVars, routeVars, listVars, workVars, lateVars
<1>0. RequestsOK /\ TopicOK /\ WorkOK /\ Prefix(r)'
  BY DEF OrderInv, Kept
<1>1. ASSUME NEW s, req' = [req EXCEPT ![r] = s], Stored(r, Behind(s.stage))'
      PROVE  RequestsOK'
  <2>1. SUFFICES ASSUME NEW q \in Requests PROVE Stored(q, Behind(req[q].stage))'
    BY DEF RequestsOK
  <2>2. CASE q = r
    BY <1>1, <2>2 DEF TypeOK, Stored
  <2>3. CASE q # r
    <3>1. req'[q] = req[q]
      BY <1>1, <2>3 DEF TypeOK
    <3>. QED  BY <1>0, <3>1, BehindIsNat DEF RequestsOK, Kept, Stored
  <2>. QED  BY <2>2, <2>3
<1>2. Stored(r, 0)'
  BY DEF Stored, Long
<1>3. CASE Dispatch(r)
  <2>1. Stored(r, 1)'
    <3>1. Has(r, 1)
      BY <1>3, KindsAre, StoreHas DEF Dispatch
    <3>. QED  BY <1>0, <3>1, HasStored
  <2>2. RequestsOK'
    BY <1>1, <1>3, <2>1, BehindIs DEF Dispatch, Stage
  <2>. QED  BY <1>3, <2>2, FramesKept, OrderNext DEF Dispatch
<1>4. CASE Locate(r)
  <2>1. Stored(r, 2)'
    <3>1. Has(r, 2)
      BY <1>4, KindsAre, StoreHas DEF Locate
    <3>. QED  BY <1>0, <3>1, HasStored
  <2>2. ASSUME req' = [req EXCEPT ![r] = Stage("dropoff")]
        PROVE  RequestsOK'
    BY <1>1, <2>1, <2>2, BehindIs DEF Stage
  <2>3. ASSUME NEW p \in Partitions, req' = [req EXCEPT ![r] = Sending(p)]
        PROVE  RequestsOK'
    BY <1>1, <2>1, <2>3, BehindIs DEF Sending
  <2>4. \/ req' = [req EXCEPT ![r] = Stage("dropoff")]
        \/ \E p \in Partitions : req' = [req EXCEPT ![r] = Sending(p)]
    BY <1>4 DEF Locate
  <2>5. RequestsOK'
    BY <2>2, <2>3, <2>4
  <2>. QED  BY <1>4, <2>5, FramesKept, OrderNext DEF Locate
<1>5. CASE LocateFails(r)
  <2>1. RequestsOK'
    BY <1>1, <1>2, <1>5, BehindIs DEF LocateFails, Stage
  <2>. QED  BY <1>5, <2>1, FramesKept, OrderNext DEF LocateFails
<1>6. CASE Publish(r)
  <2>1. Stored(r, 2)
    BY <1>0, <1>6, BehindIs DEF Publish, RequestsOK
  <2>2. RequestsOK'
    <3>1. CASE req' = req
      BY <3>1, FramesKept
    <3>2. CASE req' = [req EXCEPT ![r] = Stage("accepted")]
      BY <1>1, <1>2, <3>2, BehindIs DEF Stage
    <3>. QED  BY <1>6, <3>1, <3>2 DEF Publish
  <2>3. TopicOK'
    <3>. DEFINE p == req[r].partition
    <3>1. /\ p \in Partitions /\ topic[p] \in Seq(Requests)
          /\ topic' = [topic EXCEPT ![p] = Append(@, r)]
      BY <1>6, RequestStages DEF Publish, TypeOK
    <3>2. /\ \A q \in Partitions \ {p} : topic'[q] = topic[q]
          /\ topic'[p] = Append(topic[p], r)
      BY <3>1 DEF TypeOK
    <3>3. \A i \in DOMAIN topic'[p] : topic'[p][i] = r \/ (i \in DOMAIN topic[p] /\ topic'[p][i] = topic[p][i])
      <4>1. SUFFICES ASSUME NEW i \in DOMAIN topic'[p]
                     PROVE  topic'[p][i] = r \/ (i \in DOMAIN topic[p] /\ topic'[p][i] = topic[p][i])
        OBVIOUS
      <4>2. Len(topic[p]) \in Nat /\ i \in 1..(Len(topic[p]) + 1)
        BY <3>1, <3>2
      <4>. QED  BY <3>1, <3>2, <4>2
    <3>4. UNCHANGED listVars
      BY <1>6 DEF Publish
    <3>5. \A q \in Partitions : \A i \in DOMAIN topic'[q] : Stored(topic'[q][i], 2)
      BY <1>0, <2>1, <3>2, <3>3 DEF TopicOK
    <3>. QED  BY <3>4, <3>5 DEF TopicOK, Stored, Bound
  <2>. QED  BY <1>6, <2>2, <2>3, FramesKept, OrderNext DEF Publish
<1>7. CASE SendFails(r)
  <2>1. RequestsOK'
    BY <1>1, <1>2, <1>7, BehindIs DEF SendFails, Stage
  <2>. QED  BY <1>7, <2>1, FramesKept, OrderNext DEF SendFails
<1>. QED  BY <1>3, <1>4, <1>5, <1>6, <1>7

LEMMA ClaimOrder ==
    ASSUME TypeOK, TypeOK', OrderInv, Kept, ReadsOK', NEW c \in Claims, Take(c) \/ Process(c)
    PROVE  OrderInv'
<1>. USE DEF frontVars, offsetVars, groupVars, routeVars, listVars, workVars, lateVars
<1>0. /\ TopicOK /\ WorkOK /\ work \in [Claims -> Works]
      /\ \A r \in Requests : Prefix(r)'
  BY DEF OrderInv, Kept, TypeOK
<1>1. ASSUME NEW s, NEW r \in Requests, work' = [work EXCEPT ![c] = Doing(s, r)],
             Stored(r, Behind(s))'
      PROVE  WorkOK'
  <2>1. SUFFICES ASSUME NEW d \in Claims, work'[d].stage # "idle"
                 PROVE  Stored(work[d].req, Behind(work[d].stage))'
    BY DEF WorkOK
  <2>2. CASE d = c
    <3>1. work'[d].req = r /\ work'[d].stage = s
      BY <1>0, <1>1, <2>2 DEF Doing
    <3>. QED  BY <1>1, <3>1 DEF Stored
  <2>3. CASE d # c
    <3>1. work'[d] = work[d] /\ work[d].stage # "idle"
      BY <1>0, <1>1, <2>1, <2>3
    <3>2. work[d].req \in Requests
      BY <3>1, WorkStages
    <3>. QED  BY <1>0, <3>1, <3>2, BehindIsNat DEF WorkOK, Kept, Stored
  <2>. QED  BY <2>2, <2>3
<1>2. ASSUME work' = [work EXCEPT ![c] = Idle]
      PROVE  WorkOK'
  BY <1>0, <1>2, FramesKept
<1>3. CASE Take(c)
  <2>1. PICK r \in Requests : r = topic[c[2]][position[c] + 1] /\ Stored(r, 2)
    <3>1. position[c] + 1 \in 1..Len(topic[c[2]])
      BY <1>3, ClaimParts, LenProperties DEF Take, TypeOK
    <3>2. topic[c[2]] \in Seq(Requests) /\ DOMAIN topic[c[2]] = 1..Len(topic[c[2]])
      BY ClaimParts DEF TypeOK
    <3>. QED  BY <1>0, <3>1, <3>2, ClaimParts, ElementOfSeq DEF TopicOK
  <2>2. Stored(r, Behind("read"))'
    BY <2>1, BehindIs DEF Kept
  <2>3. work' = [work EXCEPT ![c] = Doing("read", r)]
    BY <1>3, <2>1 DEF Take
  <2>4. WorkOK'
    BY <1>1, <2>2, <2>3
  <2>. QED  BY <1>3, <2>4, FramesKept, OrderNext DEF Take
<1>. DEFINE q == work[c].req
<1>4. ASSUME Process(c)
      PROVE  q \in Requests /\ Stored(q, Behind(work[c].stage)) /\ Behind(work[c].stage) \in 0..4
  <2>1. work[c].stage # "idle"
    BY <1>4 DEF Process, Decide, Find, LocateDrivers, RouteReads, Route, RoutesAnswered,
             RouteFails, Finish, Routing
  <2>. QED  BY <1>0, <2>1, WorkStages, BehindIsNat DEF WorkOK
<1>6. ASSUME Process(c), NEW s, Goto(c, s),
             Stored(q, Behind(s)) \/ \E r \in Requests : r = q /\ Stored(r, Behind(s))'
      PROVE  WorkOK'
  <2>1. PICK r \in Requests : r = q
    BY <1>4, <1>6
  <2>2. work' = [work EXCEPT ![c] = Doing(s, r)]
    BY <1>6, <2>1 DEF Goto
  <2>3. Stored(r, Behind(s))'
    BY <1>6, <2>1, BehindIsNat DEF Kept
  <2>. QED  BY <1>1, <2>2, <2>3
<1>7. ASSUME Process(c), WorkOK', LateOK', UNCHANGED frontVars
      PROVE  OrderInv'
  BY <1>7, FramesKept, OrderNext
<1>8. CASE Decide(c)
  <2>1. Process(c) /\ work[c].stage = "read"
    BY <1>8 DEF Decide, Process
  <2>2. WorkOK'
    BY <1>2, <1>4, <1>6, <1>8, <2>1, BehindIs DEF Decide, Done
  <2>. QED  BY <1>7, <1>8, <2>1, <2>2, FramesKept DEF Decide
<1>9. CASE Find(c)
  <2>0. Process(c)
    BY <1>9 DEF Process
  <2>1. CASE work' = work
    BY <1>7, <1>9, <2>0, <2>1, FramesKept DEF Find
  <2>2. CASE Stores(c, "finding") /\ Goto(c, "locate")
    <3>1. PICK r \in Requests : r = q
      BY <1>4, <2>0
    <3>2. Has(r, 3)
      BY <2>2, <3>1, KindsAre, StoresHas
    <3>3. Stored(r, Behind("locate"))'
      BY <1>0, <3>2, HasStored, BehindIs
    <3>4. WorkOK'
      BY <1>6, <2>0, <2>2, <3>1, <3>3
    <3>. QED  BY <1>7, <1>9, <2>0, <3>4, FramesKept DEF Find
  <2>. QED  BY <1>9, <2>1, <2>2 DEF Find, Reads
<1>10. CASE LocateDrivers(c)
  <2>1. Process(c) /\ work[c].stage = "locate"
    BY <1>10 DEF LocateDrivers, Process
  <2>2. WorkOK'
    BY <1>2, <1>4, <1>6, <1>10, <2>1, BehindIs DEF LocateDrivers, Done
  <2>. QED  BY <1>7, <1>10, <2>1, <2>2, FramesKept DEF LocateDrivers
<1>11. CASE RouteReads(c)
  <2>1. Process(c)
    BY <1>11 DEF Process
  <2>. QED  BY <1>7, <1>11, <2>1, FramesKept DEF RouteReads
<1>12. CASE Route(c)
  <2>0. Process(c)
    BY <1>12 DEF Process
  <2>1. PICK r \in Requests : r = q
    BY <1>4, <2>0
  <2>2. Has(r, 4)
    <3>1. PICK T : RouteStores(r, seen[c], T)
      BY <1>12, <2>1 DEF Route
    <3>2. seen[c] \in SUBSET Seq(Entries)
      BY DEF TypeOK
    <3>. QED  BY <3>1, <3>2, RouteStoresHas
  <2>3. Stored(r, Behind("routed"))'
    BY <1>0, <2>2, HasStored, BehindIs
  <2>4. WorkOK'
    BY <1>6, <1>12, <2>0, <2>1, <2>3 DEF Route
  <2>. QED  BY <1>7, <1>12, <2>0, <2>4, FramesKept DEF Route
<1>13. CASE RoutesAnswered(c)
  <2>1. Process(c) /\ work[c].stage = "routed"
    BY <1>13 DEF RoutesAnswered, Process
  <2>2. WorkOK'
    BY <1>4, <1>6, <1>13, <2>1, BehindIs DEF RoutesAnswered
  <2>. QED  BY <1>7, <1>13, <2>1, <2>2, FramesKept DEF RoutesAnswered
<1>14. CASE RouteFails(c)
  <2>0. Process(c) /\ work[c].stage \in {"route", "routed"}
    BY <1>14 DEF RouteFails, Routing, Process
  <2>1. q \in Requests /\ Stored(q, 3)
    BY <1>4, <2>0, BehindIs DEF Stored, Long
  <2>2. WorkOK'
    BY <1>2, <1>14 DEF RouteFails, Done
  <2>3. LateOK'
    <3>1. \A r \in late' : r \in late \/ (r \in Requests /\ Stored(r, 3))
      BY <1>14, <2>1 DEF RouteFails
    <3>. QED  BY <3>1, FramesKept
  <2>. QED  BY <1>7, <1>14, <2>0, <2>2, <2>3 DEF RouteFails
<1>15. CASE Finish(c)
  <2>1. Process(c)
    BY <1>15 DEF Process
  <2>2. work' = work \/ work' = [work EXCEPT ![c] = Idle]
    BY <1>15 DEF Finish, Reads, Done
  <2>3. WorkOK'
    BY <1>2, <2>2, FramesKept
  <2>. QED  BY <1>7, <1>15, <2>1, <2>3, FramesKept DEF Finish
<1>. QED  BY <1>3, <1>8, <1>9, <1>10, <1>11, <1>12, <1>13, <1>14, <1>15 DEF Process

LEMMA OrderStep == TypeOK /\ StageInv /\ OrderInv /\ [Next]_vars => OrderInv'
<1>. SUFFICES ASSUME TypeOK, StageInv, OrderInv, [Next]_vars PROVE OrderInv'
  OBVIOUS
<1>. USE DEF frontVars, offsetVars, groupVars, routeVars, listVars, workVars, lateVars
<1>0. Kept /\ ReadsOK' /\ TypeOK'
  BY OrderFrame, FlowTypesStep
<1>1. ASSUME UNCHANGED <<req, topic>>,
             \A r \in late' : r \in late \/ (r \in Requests /\ Stored(r, 3)),
             \A c \in Claims : work'[c] = work[c] \/ work'[c] = Idle
      PROVE  OrderInv'
  BY <1>0, <1>1, FramesKept, OrderNext
<1>2. ASSUME NEW g \in Groups, Join(g) \/ AutoCommit(g) \/ Close(g) \/ Leave(g) \/ Crash(g)
      PROVE  OrderInv'
  <2>1. ASSUME NEW c \in Claims, Routing(c)
        PROVE  work[c].req \in Requests /\ Stored(work[c].req, 3)
    <3>1. /\ work[c].req \in Requests /\ Stored(work[c].req, Behind(work[c].stage))
          /\ work[c].stage \in {"route", "routed"}
      BY <2>1, WorkStages DEF WorkOK, OrderInv, Routing
    <3>. QED  BY <3>1, BehindIs DEF Stored, Long
  <2>2. \A r \in late' : r \in late \/ (r \in Requests /\ Stored(r, 3))
    BY <1>2, <2>1 DEF Join, AutoCommit, Close, Leave, Crash
  <2>3. \A c \in Claims : work'[c] = work[c] \/ work'[c] = Idle
    BY <1>2 DEF Join, AutoCommit, Close, Leave, Crash, TypeOK
  <2>. QED  BY <1>1, <1>2, <2>2, <2>3 DEF Join, AutoCommit, Close, Leave, Crash
<1>3. ASSUME NEW g, NEW r, NEW d, Reroute(g, r, d)
      PROVE  OrderInv'
  BY <1>1, <1>3 DEF Reroute
<1>4. CASE UNCHANGED vars
  BY <1>1, <1>4 DEF vars
<1>5. ASSUME NEW r \in Requests, RouteLate(r)
      PROVE  OrderInv'
  BY <1>1, <1>5 DEF RouteLate, LateReads, LateStores, LateEnds
<1>6. ASSUME NEW r \in Requests,
             Dispatch(r) \/ Locate(r) \/ LocateFails(r) \/ Publish(r) \/ SendFails(r)
      PROVE  OrderInv'
  BY <1>0, <1>6, FrontendOrder
<1>7. ASSUME NEW c \in Claims, Take(c) \/ Process(c)
      PROVE  OrderInv'
  BY <1>0, <1>7, ClaimOrder
<1>. QED  BY <1>2, <1>3, <1>4, <1>5, <1>6, <1>7 DEF Next

LEMMA OrderInit == Init => OrderInv
<1>. SUFFICES ASSUME Init PROVE OrderInv
  OBVIOUS
<1>1. /\ \A r \in Requests : list[r] = <<>> /\ req[r].stage = "new" /\ lateSeen[r] = {}
      /\ \A p \in Partitions : topic[p] = <<>>
      /\ \A c \in Claims : work[c].stage = "idle" /\ seen[c] = {}
      /\ late = {}
  BY DEF Init, Stage, Idle
<1>2. Len(<<>>) = 0 /\ DOMAIN <<>> = {}
  OBVIOUS
<1>3. \A r \in Requests : Prefix(r)
  <2>1. ASSUME NEW b \in {0, 3, 5}
        PROVE  InTurn(<<>>, b)
    BY <1>2 DEF InTurn
  <2>2. SUFFICES ASSUME NEW r \in Requests PROVE InTurn(list[r], Bound(r))
    BY DEF Prefix
  <2>3. Bound(r) \in {0, 3, 5} /\ list[r] = <<>>
    BY <1>1, BoundIs
  <2>. QED  BY <2>1, <2>3
<1>4. RequestsOK
  BY <1>1, BehindIs DEF RequestsOK, Stored, Long
<1>5. TopicOK /\ WorkOK /\ LateOK
  BY <1>1, <1>2 DEF TopicOK, WorkOK, LateOK
<1>6. ReadsOK
  BY <1>1 DEF ReadsOK, Reading
<1>. QED  BY <1>3, <1>4, <1>5, <1>6 DEF OrderInv

LEMMA OrderImplies == TypeOK /\ OrderInv => InOrder
<1>. SUFFICES ASSUME TypeOK, OrderInv PROVE InOrder
  OBVIOUS
<1>1. ASSUME NEW r \in Requests \ unstored, NEW i \in DOMAIN list[r], i <= 3 \/ r \notin contended
      PROVE  list[r][i].kind = Kinds[i]
  <2>1. InTurn(list[r], Bound(r)) /\ Bound(r) = IF r \in contended THEN 3 ELSE 5
    BY DEF OrderInv, Prefix, Bound
  <2>2. DOMAIN list[r] = 1..Len(list[r]) /\ Len(list[r]) \in Nat
    BY LenProperties DEF TypeOK
  <2>3. i <= Bound(r)
    BY <1>1, <2>1, <2>2 DEF InTurn
  <2>. QED  BY <2>1, <2>3 DEF InTurn
<1>2. ASSUME NEW c \in Claims, work[c].stage \in {"locate", "route", "routed", "finish"},
             work[c].req \notin unstored
      PROVE  Len(list[work[c].req]) >= 3
  <2>1. work[c].req \in Requests /\ Len(list[work[c].req]) \in Nat
    BY <1>2, WorkStages, LenProperties DEF TypeOK
  <2>2. /\ Stored(work[c].req, Behind(work[c].stage))
        /\ Behind(work[c].stage) \in 3..4
        /\ Bound(work[c].req) \in {3, 5}
    BY <1>2, BehindIs DEF OrderInv, WorkOK, Bound
  <2>3. 3 <= Len(list[work[c].req])
    BY <2>2 DEF Stored, Long
  <2>. QED  BY <2>1, <2>3
<1>. QED  BY <1>1, <1>2 DEF InOrder

(* While all notifications of a request are stored, the first three are in the
   order of the flow and stay, whatever is sent, read or processed twice and
   whatever lists are replaced meanwhile; the last two follow in order unless a
   Store has replaced a list other than the one it had read.                 *)
THEOREM NotificationsInOrder == Spec => []InOrder
<1>1. Spec => [](TypeOK /\ StageInv /\ OrderInv)
  BY FlowTypesInit, FlowTypesStep, StageInit, AllReadingSteps, OrderInit, OrderStep, PTL DEF Spec
<1>. QED  BY <1>1, OrderImplies, PTL
=============================================================================
