------------------------------ MODULE RpcMetrics ------------------------------
(***************************************************************************)
(* The metrics of the endpoints: pkg/tracing/rpcmetrics, on a factory of   *)
(* internal/metrics.                                                       *)
(*                                                                         *)
(* The goroutine that ends a server span calls OnEnd of the observer of    *)
(* its tracer.  The observer maps the span's name to an endpoint through a *)
(* cache of limited size (everything beyond it is the endpoint "other"),   *)
(* finds or creates the metrics of the endpoint and counts the request.    *)
(* Each of its two maps has an RWMutex of its own, released between the    *)
(* look-up and the write.                                                  *)
(*                                                                         *)
(* InitOTEL makes an observer per service, and `hotrod all` runs several   *)
(* services in one process: all observers use one factory, and the         *)
(* registry behind it panics when a collector is registered twice.         *)
(*                                                                         *)
(* A name is the sequence of its bytes.                                    *)
(***************************************************************************)
EXTENDS Integers, Sequences, FiniteSets

CONSTANTS Observers,    \* one for each call of InitOTEL
          Spans,        \* server spans, each ended once
          Names,        \* their names
          Codes,        \* values of the attribute http.status_code, 0 if none
          MaxNames,     \* maxSize, defaultMaxNumberOfEndpoints in the code
          Backends      \* values of the flag --metrics

ASSUME MetricsAssumption == /\ Names \subseteq Seq(0..255) \ {<<>>}
                            /\ Codes \subseteq Int
                            /\ MaxNames \in Nat
                            /\ Backends \subseteq {"prometheus", "expvar"}

VARIABLES names,        \* normalizedEndpoints: the cached names, per observer
          metrics,      \* MetricsByEndpoint: the endpoints that have metrics
          span,         \* where the OnEnd of each span is
          asked,        \* history: the spans that went for a place in a cache
          backend,      \* the metrics backend
          cache,        \* the collectors the factory has created
          registered,   \* the collectors the backend has registered
          clashed,      \* history: a registration was refused
          count         \* the value of each series

vars == <<names, metrics, span, asked, backend, cache, registered, clashed, count>>
factoryVars == <<cache, registered, clashed>>

SafeBytes == (97..122) \cup (65..90) \cup (48..57) \cup {95, 47, 46}

(* mutant: - passes *)
IsSafeDash(b) == b \in SafeBytes \cup {45}

(* a-z, A-Z, 0-9, _, / and . *)
IsSafe(b) == b \in SafeBytes

(* Every other byte is replaced by _. *)
Normalize(name) == [i \in DOMAIN name |-> IF IsSafe(name[i]) THEN name[i] ELSE 95]

(* The endpoint "other". *)
Other == <<111, 116, 104, 101, 114>>

Endpoints == {Normalize(n) : n \in Names} \cup {Other}

(* The metrics of an endpoint, by the order in which metrics.Init makes them. *)
Field(m, t, v) == [metric |-> m, tag |-> t, value |-> v]
Fields == << Field("requests", "error", "false"),
             Field("requests", "error", "true"),
             Field("request_latency", "error", "false"),
             Field("request_latency", "error", "true"),
             Field("http_requests", "status_code", "2xx"),
             Field("http_requests", "status_code", "3xx"),
             Field("http_requests", "status_code", "4xx"),
             Field("http_requests", "status_code", "5xx") >>

FieldNumbers == DOMAIN Fields

(* mutant: the classes overlap *)
StatusFieldsUpTo(code) == {k \in 5..8 : (k - 3) * 100 <= code /\ code <= (k - 2) * 100}

(* recordHTTPStatusCode: the fields that a status code counts in. *)
StatusFields(code) == {k \in 5..8 : (k - 3) * 100 <= code /\ code < (k - 2) * 100}

(* OnEnd: the fields of a request that failed or not, with its status code. *)
Observed(failed, code) ==
    (IF failed THEN {2, 4} ELSE {1, 3}) \cup StatusFields(code)

(* What the factory caches and the backend registers for a field: Prometheus
   has one vector for all endpoints, expvar a variable per series.           *)
Vector(k) == <<Fields[k].metric, {"endpoint", Fields[k].tag}>>
Variable(k, e) == <<Fields[k].metric, e, Fields[k].tag, Fields[k].value>>

Collector(k, e) == IF backend = "prometheus" THEN Vector(k) ELSE Variable(k, e)

(* Prometheus knows a vector by its name, and refuses another one of the same
   name, whatever its labels; expvar refuses a variable it has.              *)
Refused(c) == IF backend = "prometheus" THEN \E d \in registered : d[1] = c[1]
              ELSE c \in registered

Collectors == {Collector(k, e) : k \in FieldNumbers, e \in Endpoints}

Series == Endpoints \X FieldNumbers

Running == [stage |-> "running"]
Caching(o, n) == [stage |-> "cache", observer |-> o, name |-> n]
Getting(s, o, n, e) == [stage |-> s, observer |-> o, name |-> n, endpoint |-> e]
Making(o, n, e, k) == [stage |-> "make", observer |-> o, name |-> n, endpoint |-> e, next |-> k]

SpanStates == [stage : {"running"}]
                 \cup [stage : {"cache"}, observer : Observers, name : Names]
                 \cup [stage : {"get", "lock", "count", "done"}, observer : Observers,
                       name : Names, endpoint : Endpoints]
                 \cup [stage : {"make"}, observer : Observers, name : Names,
                       endpoint : Endpoints, next : FieldNumbers]

-----------------------------------------------------------------------------
Init == /\ names = [o \in Observers |-> {}]
        /\ metrics = [o \in Observers |-> {}]
        /\ span = [s \in Spans |-> Running]
        /\ asked = {}
        /\ backend \in Backends
        /\ cache = {}
        /\ registered = {}
        /\ clashed = FALSE
        /\ count = [x \in Series |-> 0]

(* mutant: a full cache is not searched *)
LookupSizeFirst(s, o, n) ==
    /\ span[s].stage = "running"
    /\ IF Cardinality(names[o]) >= MaxNames
       THEN span' = [span EXCEPT ![s] = Getting("get", o, n, Other)] /\ UNCHANGED asked
       ELSE span' = [span EXCEPT ![s] = Caching(o, n)] /\ asked' = asked \cup {s}
    /\ UNCHANGED <<names, metrics, backend, factoryVars, count>>

(* OnEnd looks the name up.  A name that is not cached gets a place if there
   is one, else it is one of the others.                                     *)
Lookup(s, o, n) ==
    /\ span[s].stage = "running"
    /\ \/ /\ n \in names[o]
          /\ span' = [span EXCEPT ![s] = Getting("get", o, n, Normalize(n))]
          /\ UNCHANGED asked
       \/ /\ n \notin names[o]
          /\ Cardinality(names[o]) >= MaxNames
          /\ span' = [span EXCEPT ![s] = Getting("get", o, n, Other)]
          /\ UNCHANGED asked
       \/ /\ n \notin names[o]
          /\ Cardinality(names[o]) < MaxNames
          /\ span' = [span EXCEPT ![s] = Caching(o, n)]
          /\ asked' = asked \cup {s}
    /\ UNCHANGED <<names, metrics, backend, factoryVars, count>>

(* mutant: the size is not checked again *)
CacheNameUnchecked(s) ==
    /\ span[s].stage = "cache"
    /\ LET o == span[s].observer n == span[s].name
       IN  /\ names' = [names EXCEPT ![o] = @ \cup {n}]
           /\ span' = [span EXCEPT ![s] = Getting("get", o, n, Normalize(n))]
    /\ UNCHANGED <<metrics, asked, backend, factoryVars, count>>

(* normalizeWithLock: the cache may have grown since, and only its size is
   looked at again, not whether it has the name by now.                      *)
CacheName(s) ==
    /\ span[s].stage = "cache"
    /\ LET o == span[s].observer n == span[s].name
       IN  IF Cardinality(names[o]) >= MaxNames
           THEN span' = [span EXCEPT ![s] = Getting("get", o, n, Other)] /\ UNCHANGED names
           ELSE /\ names' = [names EXCEPT ![o] = @ \cup {n}]
                /\ span' = [span EXCEPT ![s] = Getting("get", o, n, Normalize(n))]
    /\ UNCHANGED <<metrics, asked, backend, factoryVars, count>>

(* Somebody holds the observer's lock on its metrics to make some. *)
Locked(o) == \E t \in Spans : span[t].stage = "make" /\ span[t].observer = o

Proceed(s, stage) == span' = [span EXCEPT ![s] = Getting(stage, @.observer, @.name, @.endpoint)]

(* get: the endpoint's metrics are there, or the write lock is asked for. *)
Get(s) ==
    /\ span[s].stage = "get"
    /\ ~Locked(span[s].observer)
    /\ Proceed(s, IF span[s].endpoint \in metrics[span[s].observer] THEN "count" ELSE "lock")
    /\ UNCHANGED <<names, metrics, asked, backend, factoryVars, count>>

(* getWithWriteLock: they are there by now, or metrics.Init starts. *)
Lock(s) ==
    /\ span[s].stage = "lock"
    /\ ~Locked(span[s].observer)
    /\ LET p == span[s]
       IN  IF p.endpoint \in metrics[p.observer]
           THEN Proceed(s, "count")
           ELSE span' = [span EXCEPT ![s] = Making(p.observer, p.name, p.endpoint, 1)]
    /\ UNCHANGED <<names, metrics, asked, backend, factoryVars, count>>

(* mutant: every call creates a collector *)
GetOrMakeAlways(c) ==
    /\ cache' = cache \cup {c}
    /\ registered' = registered \cup {c}
    /\ clashed' = (clashed \/ Refused(c))

(* The factory's cache, under its lock: a collector that is not there is
   created and registered.                                                   *)
GetOrMake(c) ==
    IF c \in cache
    THEN UNCHANGED factoryVars
    ELSE /\ cache' = cache \cup {c}
         /\ registered' = registered \cup {c}
         /\ clashed' = (clashed \/ Refused(c))

(* metrics.Init makes one field after the other; after the last the metrics
   are kept and the lock is released.                                        *)
Make(s) ==
    /\ span[s].stage = "make"
    /\ LET p == span[s]
       IN  /\ GetOrMake(Collector(p.next, p.endpoint))
           /\ IF p.next = Len(Fields)
              THEN /\ metrics' = [metrics EXCEPT ![p.observer] = @ \cup {p.endpoint}]
                   /\ Proceed(s, "count")
              ELSE /\ span' = [span EXCEPT ![s].next = @ + 1]
                   /\ UNCHANGED metrics
    /\ UNCHANGED <<names, asked, backend, count>>

(* The request is counted, its latency recorded and its status counted; each
   is an atomic addition, and nothing here reads them.                       *)
Count(s) ==
    /\ span[s].stage = "count"
    /\ \E failed \in BOOLEAN, code \in Codes :
          count' = [x \in Series |->
                       IF x[1] = span[s].endpoint /\ x[2] \in Observed(failed, code)
                       THEN count[x] + 1 ELSE count[x]]
    /\ Proceed(s, "done")
    /\ UNCHANGED <<names, metrics, asked, backend, factoryVars>>

OnEnd(s) == CacheName(s) \/ Get(s) \/ Lock(s) \/ Make(s) \/ Count(s)

Next == \E s \in Spans : \/ OnEnd(s)
                         \/ \E o \in Observers, n \in Names : Lookup(s, o, n)

Spec == Init /\ [][Next]_vars

-----------------------------------------------------------------------------
(* Endpoints consist of safe characters, spans are in a stage of OnEnd. *)
TypeOK == /\ names \in [Observers -> SUBSET Names]
          /\ metrics \in [Observers -> SUBSET (Endpoints \cap Seq(SafeBytes))]
          /\ span \in [Spans -> SpanStates]
          /\ asked \subseteq Spans
          /\ backend \in Backends
          /\ cache \subseteq Collectors
          /\ registered \subseteq Collectors
          /\ clashed \in BOOLEAN
          /\ count \in [Series -> Nat]

(* "Only maxNumberOfEndpoints Metrics are stored" and those of "other",
   although the size is read before the lock that guards the write is taken. *)
Bounded == \A o \in Observers : /\ Cardinality(names[o]) <= MaxNames
                                /\ Cardinality(metrics[o]) <= MaxNames + 1

(* "some metrics backends (e.g. expvar) may not like duplicate metrics"
   (getWithWriteLock): however many observers make metrics at once, for
   names that may normalize to the same endpoint, no registration is refused,
   which would panic in the request that ended the span.                     *)
NoClash == ~clashed

(* normalize "returns "" for all other names beyond those already cached", and
   "" is the endpoint "other": a request is one of the others only when the
   cache is full, and a cached name keeps its place and its own endpoint.  Only
   a request that itself went for a place, when there was still one, is among
   the others although its name is cached: the size is looked at again under
   the lock, and the cache is not.                                           *)
OthersWhenFull ==
    \A s \in Spans : span[s].stage = "done" =>
        LET p == span[s]
        IN  /\ p.endpoint # Other => p.name \in names[p.observer]
            /\ p.endpoint # Normalize(p.name) =>
                  /\ Cardinality(names[p.observer]) = MaxNames
                  /\ p.name \notin names[p.observer] \/ s \in asked

(* The value of field k of endpoint e. *)
Value(k, e) == count[<<e, k>>]

Done(e) == {s \in Spans : span[s].stage = "done" /\ span[s].endpoint = e}

(* The requests of an endpoint: each is counted once as a success or as a
   failure, with its latency beside it, and in one status class at most.     *)
CountedOnce ==
    \A e \in Endpoints :
        /\ Value(1, e) + Value(2, e) = Cardinality(Done(e))
        /\ Value(3, e) = Value(1, e) /\ Value(4, e) = Value(2, e)
        /\ Value(5, e) + Value(6, e) + Value(7, e) + Value(8, e) <= Cardinality(Done(e))

=============================================================================
