-------------------------------- MODULE BestETA --------------------------------
(***************************************************************************)
(* The choice of a driver in services/driver/best_eta.go, on the worker    *)
(* pool of pkg/pool/pool.go.                                               *)
(*                                                                         *)
(* One pool serves the goroutines of all claims.  Execute hands a job over *)
(* an unbuffered channel, so it blocks until a worker is free.  A job asks *)
(* the route service, appends to the results of its caller under a mutex   *)
(* and signs off from the caller's WaitGroup; the caller hands out a job   *)
(* per driver, waits for all and takes the best.                           *)
(***************************************************************************)
EXTENDS Integers, Sequences, DispatchClaims

CONSTANTS Workers,      \* goroutines of the pool
          ETAs,         \* answers of the route service, in seconds
          Error,        \* its failure
          Pending       \* no answer so far

(* pool.New gets a positive size, and an ETA is a number. *)
ASSUME PoolAssumption ==
    /\ Workers # {}
    /\ ETAs \subseteq Nat
    /\ Error \notin Nat /\ Pending \notin Nat /\ Error # Pending

VARIABLES call,         \* where each caller of bestETA.Get is
          results,      \* getRoutes: the results of each caller
          open,         \* getRoutes: its WaitGroup, as the drivers it counts
          worker        \* pool: what each worker does

poolVars == <<call, results, open, worker>>

DriverSet == 1..Drivers
Outcomes == ETAs \cup {Error}

(* routeResult: the route and err fields are one outcome. *)
RouteResults == [driver : DriverSet, out : Outcomes]

Ready == [stage |-> "ready"]
Submitting(d) == [stage |-> "submit", next |-> d]
Waiting == [stage |-> "wait"]
Answered(a) == [stage |-> "answered", answer |-> a]

Calls == [stage : {"ready", "wait"}] \cup [stage : {"submit"}, next : DriverSet]
            \cup [stage : {"answered"}, answer : DriverSet \cup {Error}]

Idle == [stage |-> "idle"]
Routing(c, d) == [stage |-> "route", caller |-> c, driver |-> d]
Appending(c, d, o) == [stage |-> "append", caller |-> c, driver |-> d, out |-> o]
SigningOff(c, d) == [stage |-> "done", caller |-> c, driver |-> d]

Jobs == [stage : {"idle"}]
           \cup [stage : {"route", "done"}, caller : Claims, driver : DriverSet]
           \cup [stage : {"append"}, caller : Claims, driver : DriverSet, out : Outcomes]

(* The first result of the least ETA: the loop of Get replaces its choice
   by a strictly faster driver only.                                        *)
BestResults(rs) == {i \in DOMAIN rs : \A j \in DOMAIN rs :
                       /\ rs[i].out <= rs[j].out
                       /\ j < i => rs[i].out < rs[j].out}

-----------------------------------------------------------------------------
PoolInit ==
    /\ call = [c \in Claims |-> Ready]
    /\ results = [c \in Claims |-> <<>>]
    /\ open = [c \in Claims |-> {}]
    /\ worker = [w \in Workers |-> Idle]

(* Get is called, for the next dispatch: getRoutes starts over. *)
Start(c) ==
    /\ call[c].stage \in {"ready", "answered"}
    /\ call' = [call EXCEPT ![c] = Submitting(1)]
    /\ results' = [results EXCEPT ![c] = <<>>]
    /\ open' = [open EXCEPT ![c] = {}]
    /\ UNCHANGED worker

(* mutant: one round too many *)
SubmitPast(c, w) ==
    /\ call[c].stage = "submit" /\ worker[w].stage = "idle"
    /\ LET d == call[c].next
       IN  /\ open' = [open EXCEPT ![c] = @ \cup {d}]
           /\ worker' = [worker EXCEPT ![w] = Routing(c, d)]
           /\ call' = [call EXCEPT ![c] = IF d > Drivers THEN Waiting ELSE Submitting(d + 1)]
    /\ UNCHANGED results

(* wg.Add(1), and a worker that is free receives the job. *)
Submit(c, w) ==
    /\ call[c].stage = "submit"
    /\ worker[w].stage = "idle"
    /\ LET d == call[c].next
       IN  /\ open' = [open EXCEPT ![c] = @ \cup {d}]
           /\ worker' = [worker EXCEPT ![w] = Routing(c, d)]
           /\ call' = [call EXCEPT ![c] = IF d = Drivers THEN Waiting ELSE Submitting(d + 1)]
    /\ UNCHANGED results

(* mutant: the job signs off before it appends *)
FindRouteSignedOff(w) ==
    /\ worker[w].stage = "route"
    /\ \E o \in Outcomes :
          worker' = [worker EXCEPT ![w] = Appending(@.caller, @.driver, o)]
    /\ open' = [open EXCEPT ![worker[w].caller] = @ \ {worker[w].driver}]
    /\ UNCHANGED <<call, results>>

(* The route service answers, fails or misses the deadline of one second
   (services/route/client.go).                                              *)
FindRoute(w) ==
    /\ worker[w].stage = "route"
    /\ \E o \in Outcomes :
          worker' = [worker EXCEPT ![w] = Appending(@.caller, @.driver, o)]
    /\ UNCHANGED <<call, results, open>>

(* mutant: a job whose route failed returns at once *)
AppendOrReturn(w) ==
    /\ worker[w].stage = "append"
    /\ LET j == worker[w]
       IN  /\ results' = [results EXCEPT ![j.caller] =
                             Append(@, [driver |-> j.driver, out |-> j.out])]
           /\ worker' = [worker EXCEPT ![w] = IF j.out = Error THEN Idle
                                              ELSE SigningOff(j.caller, j.driver)]
    /\ UNCHANGED <<call, open>>

(* routesLock, append, unlock *)
AppendResult(w) ==
    /\ worker[w].stage = "append"
    /\ LET j == worker[w]
       IN  /\ results' = [results EXCEPT ![j.caller] =
                             Append(@, [driver |-> j.driver, out |-> j.out])]
           /\ worker' = [worker EXCEPT ![w] = SigningOff(j.caller, j.driver)]
    /\ UNCHANGED <<call, open>>

(* wg.Done(), and the worker goes back to its select. *)
JobDone(w) ==
    /\ worker[w].stage = "done"
    /\ open' = [open EXCEPT ![worker[w].caller] = @ \ {worker[w].driver}]
    /\ worker' = [worker EXCEPT ![w] = Idle]
    /\ UNCHANGED <<call, results>>

Failed(rs) == \E i \in DOMAIN rs : rs[i].out = Error

(* wg.Wait() returns; Get fails at the first error, or picks the best. *)
Choose(c) ==
    /\ call[c].stage = "wait"
    /\ open[c] = {}
    /\ IF Failed(results[c])
       THEN call' = [call EXCEPT ![c] = Answered(Error)]
       ELSE \E i \in BestResults(results[c]) :
               call' = [call EXCEPT ![c] = Answered(results[c][i].driver)]
    /\ UNCHANGED <<results, open, worker>>

Work(w) == FindRoute(w) \/ AppendResult(w) \/ JobDone(w)

PoolNext == \/ \E c \in Claims : Start(c) \/ Choose(c) \/ \E w \in Workers : Submit(c, w)
            \/ \E w \in Workers : Work(w)

PoolSpec == PoolInit /\ [][PoolNext]_poolVars

(* A call of the route service ends by its deadline, and the Go scheduler runs
   every goroutine that can.  Senders that wait on a channel are served in the
   order they came, so a caller that competes for workers with others gets
   one: strong fairness.                                                    *)
PoolFairness ==
    /\ \A w \in Workers : WF_poolVars(Work(w))
    /\ \A c \in Claims : /\ SF_poolVars(\E w \in Workers : Submit(c, w))
                         /\ WF_poolVars(Choose(c))

-----------------------------------------------------------------------------
(* Callers, their results and WaitGroups, and the workers are well formed. *)
PoolTypeOK ==
    /\ call \in [Claims -> Calls]
    /\ results \in [Claims -> Seq(RouteResults)]
    /\ open \in [Claims -> SUBSET DriverSet]
    /\ worker \in [Workers -> Jobs]

(* What the results of a caller say about each driver. *)
Outcome(rs, d) == IF \E i \in DOMAIN rs : rs[i].driver = d
                  THEN LET i == CHOOSE i \in DOMAIN rs : rs[i].driver = d IN rs[i].out
                  ELSE Pending

AnswerOf(c) == IF c.stage = "answered" THEN c.answer ELSE 0

Best == INSTANCE BestAnswer WITH
            Callers <- Claims,
            outcome <- [c \in Claims |-> [d \in DriverSet |-> Outcome(results[c], d)]],
            answer <- [c \in Claims |-> AnswerOf(call[c])]

(* Whatever the pool interleaves, a dispatch chooses among the routes of all
   its drivers and of no other dispatch, each asked for once: the answer
   waits for results that workers append concurrently.                      *)
ImplementsBest == Best!AnswerSpec

=============================================================================
