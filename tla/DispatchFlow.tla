------------------------------ MODULE DispatchFlow ------------------------------
(***************************************************************************)
(* A dispatch on its way through the system.  The frontend resolves the    *)
(* two locations and publishes a message (services/frontend); every driver *)
(* group reads all messages, the baseline's and one for each sandbox that  *)
(* forks the driver, and processes those that the routing key sends to it  *)
(* (services/driver/consumer.go).  Each service stores a notification on   *)
(* the way, and goes on when that fails.                                   *)
(*                                                                         *)
(* A message is marked before it is processed.  Marks are committed every  *)
(* second and at the end of a session, and a session starts at the         *)
(* committed offset or, if there is none, behind the last message          *)
(* (sarama's Offsets.Initial, which pkg/kafka leaves at its default).      *)
(*                                                                         *)
(* Each request has a routing key and a session of its own, and its        *)
(* notifications are kept as long as it takes.  Those of the frontend and  *)
(* the location service are stored in one step, since nobody else stores   *)
(* for a request before its message is sent.  The others are stored by     *)
(* claims and route calls that overlap, where the message is there twice   *)
(* or two groups process it: there GET and SETEX are steps of their own,   *)
(* and the second replaces whatever has been stored since the first.       *)
(***************************************************************************)
EXTENDS Integers, Sequences

CONSTANTS Requests,     \* POST /dispatch requests
          Partitions,   \* of the topic DispatchDriver
          Groups,       \* consumer groups: the driver and its forks
          Baseline,     \* the group of the driver
          MaxMessages,  \* bound on the messages of a partition
          MaxInterrupts \* bound on how often the marks of a group are lost

ASSUME FlowAssumption == /\ Baseline \in Groups
                         /\ MaxMessages \in Nat
                         /\ MaxInterrupts \in Nat

VARIABLES req,          \* where the frontend is with each request
          topic,        \* the messages of each partition
          session,      \* of each group: closed, open or closing
          position,     \* of each claim: how many messages are behind it
          marked,       \* ... marked in this session, 0 if none
          committed,    \* ... committed at the broker, 0 if none
          work,         \* ... what its goroutine does
          seen,         \* ... the lists that its Stores under way have read
          late,         \* requests with route calls that nobody waits for
          lateSeen,     \* the lists that the Stores of these calls have read
          view,         \* each group's copy of the routes
          list,         \* the notifications of each request
          unstored,     \* requests with a notification that was not stored
          contended,    \* history: requests for which a Store replaced a list
                        \* other than the one it had read
          rerouted,     \* requests whose route changed
          taken,        \* of each claim: the messages it has read
          interrupted   \* of each group: how often its marks were lost

frontVars == <<req, topic>>
offsetVars == <<position, marked, committed, taken>>
groupVars == <<session, interrupted>>
routeVars == <<view, rerouted>>
listVars == <<list, unstored, contended>>
lateVars == <<late, lateSeen>>
workVars == <<work, seen, lateVars>>
vars == <<frontVars, offsetVars, groupVars, routeVars, listVars, workVars>>

(* One goroutine per group and partition. *)
Claims == Groups \X Partitions

Kinds == <<"dispatching", "location", "finding", "route", "dispatched">>

DriverKinds == {"finding", "dispatched"}

Entries == [kind : {Kinds[i] : i \in DOMAIN Kinds}, by : Groups]

Stage(s) == [stage |-> s]
Sending(p) == [stage |-> "sending", partition |-> p]
Frontend == [stage : {"new", "pickup", "dropoff", "accepted", "failed"}]
               \cup [stage : {"sending"}, partition : Partitions]

Idle == [stage |-> "idle"]
Doing(s, r) == [stage |-> s, req |-> r]
Works == [stage : {"idle"}]
            \cup [stage : {"read", "find", "locate", "route", "routed", "finish"},
                  req : Requests]

-----------------------------------------------------------------------------
Init == /\ req = [r \in Requests |-> Stage("new")]
        /\ topic = [p \in Partitions |-> <<>>]
        /\ session = [g \in Groups |-> "closed"]
        /\ position = [c \in Claims |-> 0]
        /\ marked = [c \in Claims |-> 0]
        /\ committed = [c \in Claims |-> 0]
        /\ work = [c \in Claims |-> Idle]
        /\ seen = [c \in Claims |-> {}]
        /\ late = {}
        /\ lateSeen = [r \in Requests |-> {}]
        /\ \E route \in [Requests -> Groups] : view = [x \in Groups \X Requests |-> route[x[2]]]
        /\ list = [r \in Requests |-> <<>>]
        /\ unstored = {}
        /\ contended = {}
        /\ rerouted = {}
        /\ taken = [c \in Claims |-> {}]
        /\ interrupted = [g \in Groups |-> 0]

Entry(kind, g) == [kind |-> kind, by |-> g]

(* What Store looks for in the list it has read. *)
Listed(r, kind) == \E i \in DOMAIN list[r] : list[r][i].kind = kind

(* mutant: the list is read again before it is set *)
SetCurrent(r, l, kind, g) ==
    /\ list' = [list EXCEPT ![r] = Append(@, Entry(kind, g))]
    /\ UNCHANGED <<unstored, contended>>

(* SETEX of the list l that was read and a new notification. *)
Set(r, l, kind, g) ==
    LET new == Append(l, Entry(kind, g))
    IN  /\ list' = [list EXCEPT ![r] = new]
        /\ contended' = IF list[r] \in {l, new} THEN contended ELSE contended \cup {r}
        /\ UNCHANGED unstored

(* A Store fails; its error is ignored. *)
Unstored(r) == unstored' = unstored \cup {r} /\ UNCHANGED <<list, contended>>

(* The Store of a notification that overlaps no other of its request. *)
Store(r, kind) ==
    \/ Listed(r, kind) /\ UNCHANGED listVars
    \/ ~Listed(r, kind) /\ Set(r, list[r], kind, Baseline)
    \/ Unstored(r)

-----------------------------------------------------------------------------
(* The frontend. *)
Dispatch(r) ==
    /\ req[r].stage = "new"
    /\ Store(r, "dispatching")
    /\ req' = [req EXCEPT ![r] = Stage("pickup")]
    /\ UNCHANGED <<topic, offsetVars, groupVars, routeVars, workVars>>

(* The location service finds the pickup, and then the dropoff location; the
   notification of the second has the identifier of the first.              *)
Locate(r) ==
    /\ Store(r, "location")
    /\ \/ /\ req[r].stage = "pickup"
          /\ req' = [req EXCEPT ![r] = Stage("dropoff")]
       \/ /\ req[r].stage = "dropoff"
          /\ \E p \in Partitions : req' = [req EXCEPT ![r] = Sending(p)]
    /\ UNCHANGED <<topic, offsetVars, groupVars, routeVars, workVars>>

(* One of them is not found, or its answer is lost. *)
LocateFails(r) ==
    /\ req[r].stage \in {"pickup", "dropoff"}
    /\ Store(r, "location") \/ UNCHANGED listVars
    /\ req' = [req EXCEPT ![r] = Stage("failed")]
    /\ UNCHANGED <<topic, offsetVars, groupVars, routeVars, workVars>>

(* The producer's message is in the topic.  Without the broker's answer it is
   sent again, and may then be there twice.                                 *)
Publish(r) ==
    /\ req[r].stage = "sending"
    /\ LET p == req[r].partition
       IN  /\ Len(topic[p]) < MaxMessages
           /\ topic' = [topic EXCEPT ![p] = Append(@, r)]
    /\ req' \in {req, [req EXCEPT ![r] = Stage("accepted")]}
    /\ UNCHANGED <<offsetVars, groupVars, routeVars, listVars, workVars>>

(* The retries are used up, whatever has reached the topic. *)
SendFails(r) ==
    /\ req[r].stage = "sending"
    /\ req' = [req EXCEPT ![r] = Stage("failed")]
    /\ UNCHANGED <<topic, offsetVars, groupVars, routeVars, listVars, workVars>>

-----------------------------------------------------------------------------
(* The sessions of a driver group.  (JoinNewest, LeaveNoFlush, and below
   ShouldProcessAll, DecideKeeps and FindQuietly are mutants: a session always
   starts at the end of the topic, ends without a commit, the driver processes
   every message, a message that is not for the group stays with its goroutine,
   and the notification is left out.)                                        *)
JoinNewest(g) ==
    /\ session[g] = "closed"
    /\ session' = [session EXCEPT ![g] = "open"]
    /\ position' = [c \in Claims |-> IF c[1] = g THEN Len(topic[c[2]]) ELSE position[c]]
    /\ marked' = [c \in Claims |-> IF c[1] = g THEN 0 ELSE marked[c]]
    /\ UNCHANGED <<frontVars, committed, taken, interrupted, routeVars, listVars, workVars>>

(* The group connects, or connects again, and gets its partitions. *)
Join(g) ==
    /\ session[g] = "closed"
    /\ session' = [session EXCEPT ![g] = "open"]
    /\ position' = [c \in Claims |->
                       IF c[1] # g THEN position[c]
                       ELSE IF committed[c] # 0 THEN committed[c]
                       ELSE Len(topic[c[2]])]
    /\ marked' = [c \in Claims |-> IF c[1] = g THEN 0 ELSE marked[c]]
    /\ UNCHANGED <<frontVars, committed, taken, interrupted, routeVars, listVars, workVars>>

(* The group's marks reach the broker. *)
Flushed(g) == [c \in Claims |-> IF c[1] = g /\ marked[c] # 0 THEN marked[c] ELSE committed[c]]

AutoCommit(g) ==
    /\ session[g] # "closed"
    /\ committed' = Flushed(g)
    /\ UNCHANGED <<frontVars, position, marked, taken, groupVars, routeVars, listVars, workVars>>

(* A rebalance or SIGTERM cancels the session. *)
Close(g) ==
    /\ session[g] = "open"
    /\ session' = [session EXCEPT ![g] = "closing"]
    /\ UNCHANGED <<frontVars, offsetVars, interrupted, routeVars, listVars, workVars>>

(* No goroutine of the group has a message at hand. *)
Finished(g) == \A c \in Claims : c[1] = g => work[c].stage = "idle"

LeaveNoFlush(g) ==
    /\ session[g] = "closing"
    /\ Finished(g)
    /\ session' = [session EXCEPT ![g] = "closed"]
    /\ UNCHANGED <<frontVars, offsetVars, interrupted, routeVars, listVars, workVars>>

(* All ConsumeClaims have returned and the marks are committed; that may fail,
   above all where the session has ended because the broker is out of reach. *)
Leave(g) ==
    /\ session[g] = "closing"
    /\ Finished(g)
    /\ session' = [session EXCEPT ![g] = "closed"]
    /\ \/ committed' = Flushed(g) /\ UNCHANGED interrupted
       \/ /\ interrupted[g] < MaxInterrupts
          /\ interrupted' = [interrupted EXCEPT ![g] = @ + 1]
          /\ UNCHANGED committed
    /\ UNCHANGED <<frontVars, position, marked, taken, routeVars, listVars, workVars>>

(* The route service is at work for the claim. *)
Routing(c) == work[c].stage \in {"route", "routed"}

(* The process dies, in whatever it does, with the marks not yet committed; the
   route service goes on with the calls it has got.                          *)
Crash(g) ==
    /\ session[g] # "closed"
    /\ interrupted[g] < MaxInterrupts
    /\ session' = [session EXCEPT ![g] = "closed"]
    /\ work' = [c \in Claims |-> IF c[1] = g THEN Idle ELSE work[c]]
    /\ seen' = [c \in Claims |-> IF c[1] = g THEN {} ELSE seen[c]]
    /\ LET dropped == {c \in Claims : c[1] = g /\ Routing(c)}
       IN  /\ late' = late \cup {work[c].req : c \in dropped}
           /\ lateSeen' = [r \in Requests |->
                  lateSeen[r] \cup UNION {seen[c] : c \in {d \in dropped : work[d].req = r}}]
    /\ interrupted' = [interrupted EXCEPT ![g] = @ + 1]
    /\ UNCHANGED <<frontVars, offsetVars, routeVars, listVars>>

(* The route server's update of the routes reaches a group. *)
Reroute(g, r, d) ==
    /\ view' = [view EXCEPT ![<<g, r>>] = d]
    /\ rerouted' = rerouted \cup {r}
    /\ UNCHANGED <<frontVars, offsetVars, groupVars, listVars, workVars>>

-----------------------------------------------------------------------------
(* A claim's goroutine. *)
Take(c) ==
    /\ session[c[1]] # "closed"
    /\ work[c].stage = "idle"
    /\ position[c] < Len(topic[c[2]])
    /\ position' = [position EXCEPT ![c] = @ + 1]
    /\ marked' = [marked EXCEPT ![c] = position[c] + 1]
    /\ taken' = [taken EXCEPT ![c] = @ \cup {position[c] + 1}]
    /\ work' = [work EXCEPT ![c] = Doing("read", topic[c[2]][position[c] + 1])]
    /\ UNCHANGED <<frontVars, committed, groupVars, routeVars, listVars, seen, lateVars>>

ShouldProcessAll(g, r) == g = Baseline \/ view[<<g, r>>] = g

(* A sandbox processes what its key routes to it, the driver the rest. *)
ShouldProcess(g, r) == view[<<g, r>>] = g

(* The claim goes on with its request, or is done with it. *)
Goto(c, stage) == work' = [work EXCEPT ![c] = Doing(stage, @.req)]
Done(c) == work' = [work EXCEPT ![c] = Idle]

DecideKeeps(c) ==
    /\ work[c].stage = "read"
    /\ \/ ShouldProcess(c[1], work[c].req) /\ Goto(c, "find")
       \/ ~ShouldProcess(c[1], work[c].req) /\ Goto(c, "idle")
    /\ UNCHANGED <<frontVars, offsetVars, groupVars, routeVars, listVars, seen, lateVars>>

(* shouldProcess, the first thing a message meets. *)
Decide(c) ==
    /\ work[c].stage = "read"
    /\ \/ ShouldProcess(c[1], work[c].req) /\ Goto(c, "find")
       \/ ~ShouldProcess(c[1], work[c].req) /\ Done(c)
    /\ UNCHANGED <<frontVars, offsetVars, groupVars, routeVars, listVars, seen, lateVars>>

(* GET of a claim's own Store, which overlaps those of other claims. *)
Reads(c, kind) ==
    /\ seen[c] = {}
    /\ ~Listed(work[c].req, kind)
    /\ seen' = [seen EXCEPT ![c] = {list[work[c].req]}]
    /\ UNCHANGED <<work, listVars>>

(* The end of this Store: the notification is listed, is set, or is not stored. *)
Stores(c, kind) ==
    LET r == work[c].req
    IN  /\ \/ seen[c] = {} /\ Listed(r, kind) /\ UNCHANGED listVars
           \/ \E l \in seen[c] : Set(r, l, kind, c[1])
           \/ Unstored(r)
        /\ seen' = [seen EXCEPT ![c] = {}]

FindQuietly(c) ==
    /\ work[c].stage = "find"
    /\ Goto(c, "locate")
    /\ UNCHANGED <<frontVars, offsetVars, groupVars, routeVars, listVars, seen, lateVars>>

(* The first notification of the driver. *)
Find(c) ==
    /\ work[c].stage = "find"
    /\ Reads(c, "finding") \/ (Stores(c, "finding") /\ Goto(c, "locate"))
    /\ UNCHANGED <<frontVars, offsetVars, groupVars, routeVars, lateVars>>

(* The drivers are located (DriverStore), or the dispatch is dropped. *)
LocateDrivers(c) ==
    /\ work[c].stage = "locate"
    /\ Goto(c, "route") \/ Done(c)
    /\ UNCHANGED <<frontVars, offsetVars, groupVars, routeVars, listVars, seen, lateVars>>

(* The end of a Store of one of several calls of the route service for r, whose
   Stores under way have read the lists S, and then T.  Calls that have read the
   same list are one element of S.                                           *)
RouteStores(r, S, T) ==
    \/ /\ Listed(r, "route")
       /\ T = S
       /\ UNCHANGED listVars
    \/ \E l \in S : Set(r, l, "route", Baseline) /\ T \in {S, S \ {l}}
    \/ /\ T = S \/ \E l \in S : T = S \ {l}
       /\ Unstored(r)

Without(S) == {S} \cup {S \ {l} : l \in S}

(* The route service is asked for each driver, several at a time; each call
   stores the notification before it answers.                                *)
RouteReads(c) ==
    /\ Routing(c)
    /\ ~Listed(work[c].req, "route")
    /\ seen' = [seen EXCEPT ![c] = @ \cup {list[work[c].req]}]
    /\ UNCHANGED <<frontVars, offsetVars, groupVars, routeVars, listVars, work, lateVars>>

Route(c) ==
    /\ Routing(c)
    /\ \E T \in Without(seen[c]) : /\ RouteStores(work[c].req, seen[c], T)
                                   /\ seen' = [seen EXCEPT ![c] = T]
    /\ Goto(c, "routed")
    /\ UNCHANGED <<frontVars, offsetVars, groupVars, routeVars, lateVars>>

(* All answers are there (BestETA). *)
RoutesAnswered(c) ==
    /\ work[c].stage = "routed"
    /\ seen[c] = {}
    /\ Goto(c, "finish")
    /\ UNCHANGED <<frontVars, offsetVars, groupVars, routeVars, listVars, seen, lateVars>>

(* A call fails or its deadline passes, and the dispatch is dropped; the other
   calls may go on.                                                          *)
RouteFails(c) ==
    /\ Routing(c)
    /\ late' = late \cup {work[c].req}
    /\ lateSeen' = [lateSeen EXCEPT ![work[c].req] = @ \cup seen[c]]
    /\ seen' = [seen EXCEPT ![c] = {}]
    /\ Done(c)
    /\ UNCHANGED <<frontVars, offsetVars, groupVars, routeVars, listVars>>

(* The best driver is known: the last notification. *)
Finish(c) ==
    /\ work[c].stage = "finish"
    /\ Reads(c, "dispatched") \/ (Stores(c, "dispatched") /\ Done(c))
    /\ UNCHANGED <<frontVars, offsetVars, groupVars, routeVars, lateVars>>

Process(c) == Decide(c) \/ Find(c) \/ LocateDrivers(c) \/ RouteReads(c) \/ Route(c)
                 \/ RoutesAnswered(c) \/ RouteFails(c) \/ Finish(c)

(* The route service gets to calls whose caller is gone: their deadline has
   passed, the driver has crashed.                                           *)
LateReads(r) ==
    /\ r \in late
    /\ ~Listed(r, "route")
    /\ lateSeen' = [lateSeen EXCEPT ![r] = @ \cup {list[r]}]
    /\ UNCHANGED <<frontVars, offsetVars, groupVars, routeVars, listVars, work, seen, late>>

LateStores(r) ==
    /\ r \in late
    /\ \E T \in Without(lateSeen[r]) : /\ RouteStores(r, lateSeen[r], T)
                                      /\ lateSeen' = [lateSeen EXCEPT ![r] = T]
    /\ UNCHANGED <<frontVars, offsetVars, groupVars, routeVars, work, seen, late>>

LateEnds(r) ==
    /\ r \in late
    /\ lateSeen[r] = {}
    /\ late' = late \ {r}
    /\ UNCHANGED <<frontVars, offsetVars, groupVars, routeVars, listVars, work, seen, lateSeen>>

RouteLate(r) == LateReads(r) \/ LateStores(r) \/ LateEnds(r)

Next == \/ \E r \in Requests : Dispatch(r) \/ Locate(r) \/ LocateFails(r) \/ Publish(r) \/ SendFails(r)
                              \/ RouteLate(r)
        \/ \E g \in Groups : Join(g) \/ AutoCommit(g) \/ Close(g) \/ Leave(g) \/ Crash(g)
        \/ \E g, d \in Groups, r \in Requests : Reroute(g, r, d)
        \/ \E c \in Claims : Take(c) \/ Process(c)

Spec == Init /\ [][Next]_vars

(* The driver, which unlike a fork is there to stay: every call of its
   processDispatchRequest returns, since all that it waits for has a deadline,
   the route calls above all; a closed session is opened again (Run's loop); and
   a session now and then lasts until its next message is read.              *)
DriverFairness == /\ WF_vars(Join(Baseline)) /\ WF_vars(Leave(Baseline))
                  /\ \A p \in Partitions :
                        LET c == <<Baseline, p>>
                        IN  /\ SF_vars(Take(c))
                            /\ WF_vars(Process(c))
                            /\ WF_vars(RoutesAnswered(c) \/ RouteFails(c))

FairSpec == Spec /\ DriverFairness

-----------------------------------------------------------------------------
(* Every part of the flow holds what belongs to its stage. *)
TypeOK == /\ req \in [Requests -> Frontend]
          /\ topic \in [Partitions -> Seq(Requests)]
          /\ session \in [Groups -> {"closed", "open", "closing"}]
          /\ position \in [Claims -> Nat]
          /\ marked \in [Claims -> Nat]
          /\ committed \in [Claims -> Nat]
          /\ work \in [Claims -> Works]
          /\ seen \in [Claims -> SUBSET Seq(Entries)]
          /\ late \subseteq Requests
          /\ lateSeen \in [Requests -> SUBSET Seq(Entries)]
          /\ view \in [Groups \X Requests -> Groups]
          /\ list \in [Requests -> Seq(Entries)]
          /\ unstored \subseteq Requests
          /\ contended \subseteq Requests
          /\ rerouted \subseteq Requests
          /\ taken \in [Claims -> SUBSET Nat]
          /\ interrupted \in [Groups -> Nat]

(* The end-to-end test waits for the notification of the dispatched driver and
   expects those of the services before it (api_test.go).  Unless one was not
   stored, the notifications of a request come in the order of the flow and none
   is left out: the first three always, also when two claims process the message
   and one replaces what the other has stored meanwhile; the others as long as
   no Store has replaced a list other than the one it had read.  And the first
   three stay there for as long as a claim goes on from them.                *)
InOrder ==
    /\ \A r \in Requests \ unstored : \A i \in DOMAIN list[r] :
          i <= 3 \/ r \notin contended => list[r][i].kind = Kinds[i]
    /\ \A c \in Claims :
          work[c].stage \in {"locate", "route", "routed", "finish"}
             => work[c].req \in unstored \/ Len(list[work[c].req]) >= 3

(* "append the new notification (if it doesn't exist)": no step of a request is
   listed twice, although claims, late route calls and groups store it again with
   lists they have read before, and some steps are not stored.               *)
StepsOnce == \A r \in Requests : \A i, j \in DOMAIN list[r] :
                list[r][i].kind = list[r][j].kind => i = j

(* "this message is not intended for us" (consumer.go): the driver's part in a
   request is done by the group its routing key selects, and by no other,
   unless its route changes meanwhile.                                       *)
OneGroup == \A r \in Requests \ rerouted : \A i \in DOMAIN list[r] :
                list[r][i].kind \in DriverKinds => list[r][i].by = view[<<Baseline, r>>]

(* A group whose marks were never lost, by a crash or a last commit that failed,
   reads no message of the topic twice, however often its sessions end and
   start again.                                                              *)
ReadOnce == [][\A c \in Claims : Take(c) /\ position[c] + 1 \in taken[c]
                  => interrupted[c[1]] > 0]_vars

(* A group that has committed an offset commits a later one only when it has
   read all messages between the two, and never an earlier one, whatever
   rebalances and crashes come between.                                      *)
CommitsWhatWasRead ==
    [][\A c \in Claims : committed[c] # 0 =>
          /\ committed'[c] >= committed[c]
          /\ (committed[c] + 1)..committed'[c] \subseteq taken[c]]_vars

(* Once the driver has committed an offset it passes over no message: each one
   behind it is read, whatever rebalances and crashes come between.  (Before
   that, what arrives between two sessions is never read.)                   *)
AllRead == \A p \in Partitions, o \in 1..MaxMessages :
              LET c == <<Baseline, p>>
              IN  (committed[c] # 0 /\ committed[c] < o /\ o <= Len(topic[p])) ~> o \in taken[c]

=============================================================================
