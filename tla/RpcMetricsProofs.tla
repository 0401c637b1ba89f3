--------------------------- MODULE RpcMetricsProofs ---------------------------
(***************************************************************************)
(* Proofs about RpcMetrics, for any number of observers, spans and names,  *)
(* any size of the cache and both backends.                                *)
(***************************************************************************)
EXTENDS RpcMetrics, FiniteSetTheorems, SequenceTheorems, TLAPS

LEMMA FieldNumbersAre == FieldNumbers = 1..8 /\ Len(Fields) = 8
BY DEF FieldNumbers, Fields

(* Endpoints consist of safe characters. *)
LEMMA EndpointsAreSafe ==
    /\ \A n \in Names : Normalize(n) \in Endpoints
    /\ Other \in Endpoints
    /\ Endpoints \subseteq Seq(SafeBytes)
<1>1. Other \in Seq(SafeBytes)
  BY DEF Other, SafeBytes
<1>2. ASSUME NEW n \in Names PROVE Normalize(n) \in Seq(SafeBytes)
  <2>1. n \in Seq(0..255) /\ DOMAIN n = 1..Len(n) /\ Len(n) \in Nat
    BY MetricsAssumption, LenProperties
  <2>2. \A i \in 1..Len(n) : (IF IsSafe(n[i]) THEN n[i] ELSE 95) \in SafeBytes
    BY DEF IsSafe, SafeBytes
  <2>3. Normalize(n) \in [1..Len(n) -> SafeBytes]
    BY <2>1, <2>2 DEF Normalize
  <2>. QED  BY <2>1, <2>3, SeqDef
<1>. QED  BY <1>1, <1>2 DEF Endpoints

-----------------------------------------------------------------------------
(* Type correctness *)

LEMMA SpanFields ==
    ASSUME TypeOK, NEW s \in Spans
    PROVE  /\ span[s].stage \in {"running", "cache", "get", "lock", "make", "count", "done"}
           /\ span[s].stage # "running" => /\ span[s].observer \in Observers
                                           /\ span[s].name \in Names
           /\ span[s].stage \notin {"running", "cache"} => span[s].endpoint \in Endpoints
           /\ span[s].stage = "make" => span[s].next \in FieldNumbers
<1>1. span[s] \in SpanStates
  BY DEF TypeOK
<1>. QED  BY <1>1 DEF SpanStates

LEMMA SpanValues ==
    ASSUME NEW o \in Observers, NEW n \in Names
    PROVE  /\ Caching(o, n) \in SpanStates
           /\ \A e \in Endpoints : /\ \A g \in {"get", "lock", "count", "done"} :
                                         Getting(g, o, n, e) \in SpanStates
                                   /\ \A k \in FieldNumbers : Making(o, n, e, k) \in SpanStates
BY DEF Caching, Getting, Making, SpanStates

LEMMA TypesInit == Init => TypeOK
<1>. SUFFICES ASSUME Init PROVE TypeOK
  OBVIOUS
<1>1. clashed \in BOOLEAN
  BY DEF Init
<1>2. Running \in SpanStates
  BY DEF Running, SpanStates
<1>. QED  BY <1>1, <1>2 DEF Init, TypeOK

LEMMA ProceedKeepsTypes ==
    ASSUME TypeOK, NEW s \in Spans, span[s].stage \notin {"running", "cache"},
           NEW g \in {"get", "lock", "count", "done"}, Proceed(s, g)
    PROVE  span' \in [Spans -> SpanStates]
<1>1. Getting(g, span[s].observer, span[s].name, span[s].endpoint) \in SpanStates
  BY SpanFields, SpanValues
<1>. QED  BY <1>1 DEF Proceed, TypeOK

LEMMA MakeKeepsTypes ==
    ASSUME TypeOK, NEW s \in Spans, Make(s)
    PROVE  TypeOK'
<1>. DEFINE p == span[s]
            c == Collector(p.next, p.endpoint)
<1>1. /\ span[s].stage = "make" /\ p.observer \in Observers /\ p.name \in Names
      /\ p.endpoint \in Endpoints /\ p.next \in FieldNumbers
  BY SpanFields DEF Make
<1>2. c \in Collectors /\ backend' = backend /\ Collectors' = Collectors
  BY <1>1 DEF Make, Collectors, Collector
<1>3. cache' \subseteq Collectors /\ registered' \subseteq Collectors
  <2>1. GetOrMake(c)
    BY DEF Make
  <2>. HIDE DEF c
  <2>. QED  BY <1>2, <2>1 DEF GetOrMake, factoryVars, TypeOK
<1>4. clashed' \in BOOLEAN
  BY DEF Make, GetOrMake, factoryVars, TypeOK
<1>5. metrics' \in [Observers -> SUBSET (Endpoints \cap Seq(SafeBytes))]
  <2>1. p.endpoint \in Endpoints \cap Seq(SafeBytes)
    BY <1>1, EndpointsAreSafe
  <2>2. \/ metrics' = [metrics EXCEPT ![p.observer] = @ \cup {p.endpoint}]
        \/ metrics' = metrics
    BY DEF Make
  <2>. QED  BY <1>1, <2>1, <2>2 DEF TypeOK
<1>6. span' \in [Spans -> SpanStates]
  <2>1. CASE p.next = Len(Fields)
    <3>1. Proceed(s, "count")
      BY <2>1 DEF Make
    <3>. QED  BY <1>1, <3>1, ProceedKeepsTypes
  <2>2. CASE p.next # Len(Fields)
    <3>1. p.next + 1 \in FieldNumbers
      BY <1>1, <2>2, FieldNumbersAre
    <3>2. span' = [span EXCEPT ![s].next = @ + 1]
      BY <2>2 DEF Make
    <3>3. p \in [stage : {"make"}, observer : Observers, name : Names,
                 endpoint : Endpoints, next : FieldNumbers]
      BY <1>1 DEF TypeOK, SpanStates
    <3>4. [p EXCEPT !.next = @ + 1] \in SpanStates
      BY <3>1, <3>3 DEF SpanStates
    <3>. QED  BY <3>2, <3>4 DEF TypeOK
  <2>. QED  BY <2>1, <2>2
<1>. QED  BY <1>2, <1>3, <1>4, <1>5, <1>6 DEF Make, TypeOK

LEMMA TypesStep == TypeOK /\ [Next]_vars => TypeOK'
<1>. SUFFICES ASSUME TypeOK, [Next]_vars PROVE TypeOK'
  OBVIOUS
<1>1. ASSUME UNCHANGED <<metrics, backend, factoryVars, count>>, asked' \subseteq Spans,
             names' \in [Observers -> SUBSET Names], span' \in [Spans -> SpanStates]
      PROVE  TypeOK'
  <2>1. clashed' \in BOOLEAN /\ Collectors' = Collectors
    BY <1>1 DEF factoryVars, TypeOK, Collectors, Collector
  <2>. QED  BY <1>1, <2>1 DEF factoryVars, TypeOK
<1>2. ASSUME NEW s \in Spans, NEW o \in Observers, NEW n \in Names, Lookup(s, o, n)
      PROVE  TypeOK'
  <2>1. span' \in [Spans -> SpanStates]
    <3>1. /\ Getting("get", o, n, Normalize(n)) \in SpanStates
          /\ Getting("get", o, n, Other) \in SpanStates
          /\ Caching(o, n) \in SpanStates
      BY SpanValues, EndpointsAreSafe
    <3>2. \E x \in SpanStates : span' = [span EXCEPT ![s] = x]
      BY <1>2, <3>1 DEF Lookup
    <3>. QED  BY <3>2 DEF TypeOK
  <2>. QED  BY <1>1, <1>2, <2>1 DEF Lookup, TypeOK
<1>3. ASSUME NEW s \in Spans, CacheName(s)
      PROVE  TypeOK'
  <2>1. span[s].observer \in Observers /\ span[s].name \in Names
    BY <1>3, SpanFields DEF CacheName
  <2>2. names' \in [Observers -> SUBSET Names]
    BY <1>3, <2>1 DEF CacheName, TypeOK
  <2>3. span' \in [Spans -> SpanStates]
    <3>1. /\ Getting("get", span[s].observer, span[s].name, Normalize(span[s].name)) \in SpanStates
          /\ Getting("get", span[s].observer, span[s].name, Other) \in SpanStates
      BY <2>1, SpanValues, EndpointsAreSafe
    <3>2. \E x \in SpanStates : span' = [span EXCEPT ![s] = x]
      BY <1>3, <3>1 DEF CacheName
    <3>. QED  BY <3>2 DEF TypeOK
  <2>. QED  BY <1>1, <1>3, <2>2, <2>3 DEF CacheName, TypeOK
<1>4. ASSUME NEW s \in Spans, Get(s)
      PROVE  TypeOK'
  <2>1. span' \in [Spans -> SpanStates]
    BY <1>4, ProceedKeepsTypes DEF Get
  <2>. QED  BY <1>1, <1>4, <2>1 DEF Get, TypeOK
<1>5. ASSUME NEW s \in Spans, Lock(s)
      PROVE  TypeOK'
  <2>1. CASE Proceed(s, "count")
    <3>1. span' \in [Spans -> SpanStates]
      BY <1>5, <2>1, ProceedKeepsTypes DEF Lock
    <3>. QED  BY <1>1, <1>5, <3>1 DEF Lock, TypeOK
  <2>2. CASE span' = [span EXCEPT ![s] =
                         Making(span[s].observer, span[s].name, span[s].endpoint, 1)]
    <3>1. Making(span[s].observer, span[s].name, span[s].endpoint, 1) \in SpanStates
      BY <1>5, SpanFields, SpanValues, FieldNumbersAre DEF Lock
    <3>. QED  BY <1>1, <1>5, <2>2, <3>1 DEF Lock, TypeOK
  <2>. QED  BY <1>5, <2>1, <2>2 DEF Lock
<1>6. ASSUME NEW s \in Spans, Make(s)
      PROVE  TypeOK'
  BY <1>6, MakeKeepsTypes
<1>7. ASSUME NEW s \in Spans, Count(s)
      PROVE  TypeOK'
  <2>1. span' \in [Spans -> SpanStates]
    BY <1>7, ProceedKeepsTypes DEF Count
  <2>2. count' \in [Series -> Nat]
    BY <1>7 DEF Count, TypeOK
  <2>3. clashed' \in BOOLEAN /\ Collectors' = Collectors
    BY <1>7 DEF Count, factoryVars, TypeOK, Collectors, Collector
  <2>. QED  BY <1>7, <2>1, <2>2, <2>3 DEF Count, factoryVars, TypeOK
<1>8. CASE UNCHANGED vars
  BY <1>1, <1>8 DEF vars, factoryVars, TypeOK
<1>. QED  BY <1>2, <1>3, <1>4, <1>5, <1>6, <1>7, <1>8 DEF Next, OnEnd

(* The caches, the spans, the collectors and the counts are well formed, and
   every endpoint consists of safe characters.                               *)
THEOREM MetricsTypeCorrect == Spec => []TypeOK
BY TypesInit, TypesStep, PTL DEF Spec

-----------------------------------------------------------------------------
(* The factory.  What it has created is what is registered, and a collector
   that would be refused is one it has created.                              *)

FactoryInv == registered = cache /\ ~clashed

LEMMA SameMetricSameVector ==
    \A k, j \in FieldNumbers : Fields[k].metric = Fields[j].metric => Vector(k) = Vector(j)
<1>1. /\ Fields[1] = Field("requests", "error", "false")
      /\ Fields[2] = Field("requests", "error", "true")
      /\ Fields[3] = Field("request_latency", "error", "false")
      /\ Fields[4] = Field("request_latency", "error", "true")
      /\ Fields[5] = Field("http_requests", "status_code", "2xx")
      /\ Fields[6] = Field("http_requests", "status_code", "3xx")
      /\ Fields[7] = Field("http_requests", "status_code", "4xx")
      /\ Fields[8] = Field("http_requests", "status_code", "5xx")
  BY DEF Fields
<1>2. \A k \in 1..8 : Fields[k].tag = IF Fields[k].metric = "http_requests" THEN "status_code"
                                      ELSE "error"
  <2>. SUFFICES ASSUME NEW k \in 1..8
                PROVE  Fields[k].tag = IF Fields[k].metric = "http_requests" THEN "status_code"
                                       ELSE "error"
    OBVIOUS
  <2>1. CASE k \in {1, 2}
    BY <1>1, <2>1 DEF Field
  <2>2. CASE k \in {3, 4}
    BY <1>1, <2>2 DEF Field
  <2>3. CASE k \in {5, 6, 7, 8}
    BY <1>1, <2>3 DEF Field
  <2>. QED  BY <2>1, <2>2, <2>3
<1>. QED  BY <1>2, FieldNumbersAre DEF Vector

LEMMA NotRefused ==
    ASSUME TypeOK, FactoryInv, NEW k \in FieldNumbers, NEW e \in Endpoints,
           Collector(k, e) \notin cache
    PROVE  ~Refused(Collector(k, e))
<1>1. CASE backend = "prometheus"
  <2>. SUFFICES ASSUME NEW d \in registered, d[1] = Collector(k, e)[1] PROVE FALSE
    BY <1>1 DEF Refused
  <2>1. PICK j \in FieldNumbers, f \in Endpoints : d = Collector(j, f)
    BY DEF TypeOK, Collectors
  <2>2. d = Vector(j) /\ Collector(k, e) = Vector(k)
    BY <1>1, <2>1 DEF Collector
  <2>3. Fields[j].metric = Fields[k].metric
    BY <2>2 DEF Vector
  <2>4. d = Collector(k, e)
    BY <2>2, <2>3, SameMetricSameVector
  <2>. QED  BY <2>4 DEF FactoryInv
<1>2. CASE backend # "prometheus"
  BY <1>2 DEF Refused, FactoryInv
<1>. QED  BY <1>1, <1>2

LEMMA FactoryStep == TypeOK /\ FactoryInv /\ [Next]_vars => FactoryInv'
<1>. SUFFICES ASSUME TypeOK, FactoryInv, [Next]_vars PROVE FactoryInv'
  OBVIOUS
<1>1. ASSUME NEW s \in Spans, Make(s)
      PROVE  FactoryInv'
  <2>. DEFINE c == Collector(span[s].next, span[s].endpoint)
  <2>1. span[s].next \in FieldNumbers /\ span[s].endpoint \in Endpoints /\ GetOrMake(c)
    BY <1>1, SpanFields DEF Make
  <2>2. c \notin cache => ~Refused(c)
    BY <2>1, NotRefused
  <2>. HIDE DEF c
  <2>. QED  BY <2>1, <2>2 DEF GetOrMake, factoryVars, FactoryInv
<1>2. CASE UNCHANGED factoryVars
  BY <1>2 DEF factoryVars, FactoryInv
<1>3. ASSUME NEW s \in Spans, NEW o \in Observers, NEW n \in Names, Lookup(s, o, n)
      PROVE  UNCHANGED factoryVars
  BY <1>3 DEF Lookup
<1>4. ASSUME NEW s \in Spans, CacheName(s) \/ Get(s) \/ Lock(s) \/ Count(s)
      PROVE  UNCHANGED factoryVars
  BY <1>4 DEF CacheName, Get, Lock, Count
<1>5. CASE UNCHANGED vars
  BY <1>2, <1>5 DEF vars, factoryVars
<1>. QED  BY <1>1, <1>2, <1>3, <1>4, <1>5 DEF Next, OnEnd

(* Whatever endpoints the observers make metrics of at the same time, the
   backend refuses no registration.                                          *)
THEOREM NothingRegisteredTwice == Spec => []NoClash
<1>1. Init => FactoryInv
  BY DEF Init, FactoryInv
<1>2. FactoryInv => NoClash
  BY DEF FactoryInv, NoClash
<1>. QED  BY <1>1, <1>2, TypesInit, TypesStep, FactoryStep, PTL DEF Spec

-----------------------------------------------------------------------------
(* The caches.  A place is checked under the lock, and a span that was given to
   the others found no place left; it stays so, since no name loses its place. *)

Normalized(o) == {Normalize(n) : n \in names[o]}

CacheInv ==
    /\ \A o \in Observers : /\ IsFiniteSet(names[o])
                            /\ Cardinality(names[o]) <= MaxNames
                            /\ metrics[o] \subseteq Normalized(o) \cup {Other}
    /\ \A s \in Spans : span[s].stage \notin {"running", "cache"} =>
          \/ /\ span[s].name \in names[span[s].observer]
             /\ span[s].endpoint = Normalize(span[s].name)
          \/ /\ Cardinality(names[span[s].observer]) = MaxNames
             /\ span[s].endpoint = Other
             /\ span[s].name \notin names[span[s].observer] \/ s \in asked
    /\ \A s \in Spans : span[s].stage = "cache" => s \in asked

LEMMA CacheInit == Init => CacheInv
<1>. SUFFICES ASSUME Init PROVE CacheInv
  OBVIOUS
<1>1. \A o \in Observers : names[o] = {} /\ metrics[o] = {}
  BY DEF Init
<1>2. \A s \in Spans : span[s].stage = "running"
  BY DEF Init, Running
<1>3. IsFiniteSet({}) /\ Cardinality({}) <= MaxNames
  BY FS_EmptySet, MetricsAssumption
<1>. QED  BY <1>1, <1>2, <1>3 DEF CacheInv

(* A span goes on with the endpoint it has; only metrics are added, of it. *)
LEMMA SpanGoesOn ==
    ASSUME TypeOK, CacheInv, names' = names, asked' = asked, NEW s \in Spans,
           span[s].stage \notin {"running", "cache"}, span'[s].stage # "cache",
           \A t \in Spans : t # s => span'[t] = span[t],
           /\ span'[s].observer = span[s].observer
           /\ span'[s].name = span[s].name
           /\ span'[s].endpoint = span[s].endpoint,
           \/ metrics' = metrics
           \/ metrics' = [metrics EXCEPT ![span[s].observer] = @ \cup {span[s].endpoint}]
    PROVE  CacheInv'
<1>1. span[s].observer \in Observers
  BY SpanFields
<1>2. span[s].endpoint \in Normalized(span[s].observer) \cup {Other}
  BY <1>1 DEF CacheInv, Normalized
<1>3. \A o \in Observers : Normalized(o)' = Normalized(o)
  BY DEF Normalized
<1>4. \A o \in Observers : metrics'[o] \subseteq Normalized(o) \cup {Other}
  BY <1>1, <1>2 DEF CacheInv, TypeOK
<1>. QED  BY <1>3, <1>4 DEF CacheInv

LEMMA LookupKeepsCache ==
    ASSUME TypeOK, CacheInv, NEW s \in Spans, NEW o \in Observers, NEW n \in Names, Lookup(s, o, n)
    PROVE  CacheInv'
<1>1. \A t \in Spans : t # s => span'[t] = span[t]
  BY DEF Lookup, TypeOK
<1>2. Cardinality(names[o]) \in Nat /\ Cardinality(names[o]) <= MaxNames
  BY FS_CardinalityType DEF CacheInv
<1>3. \/ span'[s].stage = "cache" /\ s \in asked'
      \/ /\ span'[s].stage = "get" /\ span'[s].observer = o /\ span'[s].name = n
         /\ \/ n \in names[o] /\ span'[s].endpoint = Normalize(n)
            \/ /\ Cardinality(names[o]) = MaxNames /\ span'[s].endpoint = Other
               /\ n \notin names[o]
  BY <1>2, MetricsAssumption DEF Lookup, TypeOK, Getting, Caching
<1>4. asked \subseteq asked'
  BY DEF Lookup
<1>. QED  BY <1>1, <1>3, <1>4 DEF Lookup, CacheInv, Normalized

LEMMA CacheNameKeepsCache ==
    ASSUME TypeOK, CacheInv, NEW s \in Spans, CacheName(s)
    PROVE  CacheInv'
<1>. DEFINE o == span[s].observer
            n == span[s].name
<1>0. s \in asked /\ asked' = asked
  BY DEF CacheName, CacheInv
<1>1. o \in Observers /\ n \in Names
  BY SpanFields DEF CacheName
<1>2. \A t \in Spans : t # s => span'[t] = span[t]
  BY DEF CacheName, TypeOK
<1>3. \A p \in Observers : Cardinality(names[p]) \in Nat /\ Cardinality(names[p]) <= MaxNames
  BY FS_CardinalityType DEF CacheInv
<1>4. CASE Cardinality(names[o]) >= MaxNames
  <2>1. names' = names /\ metrics' = metrics /\ span'[s] = Getting("get", o, n, Other)
    BY <1>4 DEF CacheName, TypeOK
  <2>2. /\ span'[s].observer = o /\ span'[s].name = n /\ span'[s].endpoint = Other
        /\ span'[s].stage = "get"
    BY <2>1 DEF Getting
  <2>3. Cardinality(names[o]) = MaxNames
    BY <1>1, <1>3, <1>4, MetricsAssumption
  <2>. QED  BY <1>0, <1>2, <2>1, <2>2, <2>3 DEF CacheInv, Normalized
<1>5. CASE ~(Cardinality(names[o]) >= MaxNames)
  <2>1. /\ names' = [names EXCEPT ![o] = @ \cup {n}] /\ metrics' = metrics
        /\ span'[s] = Getting("get", o, n, Normalize(n))
    BY <1>5 DEF CacheName, TypeOK
  <2>2. /\ span'[s].observer = o /\ span'[s].name = n /\ span'[s].endpoint = Normalize(n)
        /\ span'[s].stage = "get"
    BY <2>1 DEF Getting
  <2>3. names'[o] = names[o] \cup {n} /\ \A p \in Observers : p # o => names'[p] = names[p]
    BY <1>1, <2>1 DEF TypeOK
  <2>4. IsFiniteSet(names'[o]) /\ Cardinality(names'[o]) <= MaxNames
    <3>1. /\ IsFiniteSet(names[o] \cup {n})
          /\ Cardinality(names[o] \cup {n}) =
                IF n \in names[o] THEN Cardinality(names[o]) ELSE Cardinality(names[o]) + 1
      <4>1. IsFiniteSet(names[o])
        BY <1>1 DEF CacheInv
      <4>. QED  BY <4>1, FS_AddElement, Zenon
    <3>2. Cardinality(names[o]) \in Nat /\ MaxNames \in Nat
      BY <1>1, <1>3, MetricsAssumption
    <3>. HIDE DEF o, n
    <3>. QED  BY <1>5, <2>3, <3>1, <3>2
  <2>5. \A p \in Observers : Normalized(p) \subseteq Normalized(p)'
    BY <2>3 DEF Normalized
  <2>6. \A p \in Observers : /\ IsFiniteSet(names'[p])
                            /\ Cardinality(names'[p]) <= MaxNames
                            /\ metrics'[p] \subseteq Normalized(p)' \cup {Other}
    BY <2>1, <2>3, <2>4, <2>5 DEF CacheInv
  <2>7. ASSUME NEW t \in Spans, t # s, span[t].stage \notin {"running", "cache"}
        PROVE  \/ /\ span[t].name \in names'[span[t].observer]
                  /\ span[t].endpoint = Normalize(span[t].name)
               \/ /\ Cardinality(names'[span[t].observer]) = MaxNames
                  /\ span[t].endpoint = Other
                  /\ span[t].name \notin names'[span[t].observer] \/ t \in asked
    <3>1. span[t].observer \in Observers
      BY <2>7, SpanFields
    <3>2. Cardinality(names[span[t].observer]) = MaxNames => span[t].observer # o
      BY <1>5, <1>1, <1>3, MetricsAssumption
    <3>. QED  BY <2>3, <2>7, <3>1, <3>2 DEF CacheInv
  <2>8. n \in names'[o]
    BY <2>3
  <2>. QED  BY <1>0, <1>2, <2>2, <2>6, <2>7, <2>8 DEF CacheInv
<1>. QED  BY <1>4, <1>5

LEMMA CacheStep == TypeOK /\ CacheInv /\ [Next]_vars => CacheInv'
<1>. SUFFICES ASSUME TypeOK, CacheInv, [Next]_vars PROVE CacheInv'
  OBVIOUS
<1>1. ASSUME NEW s \in Spans, NEW o \in Observers, NEW n \in Names, Lookup(s, o, n)
      PROVE  CacheInv'
  BY <1>1, LookupKeepsCache
<1>2. ASSUME NEW s \in Spans, CacheName(s)
      PROVE  CacheInv'
  BY <1>2, CacheNameKeepsCache
<1>3. ASSUME NEW s \in Spans, Get(s) \/ Lock(s) \/ Count(s)
      PROVE  CacheInv'
  <2>1. /\ names' = names /\ metrics' = metrics /\ span[s].stage \in {"get", "lock", "count"}
        /\ asked' = asked
    BY <1>3 DEF Get, Lock, Count
  <2>2. /\ \A t \in Spans : t # s => span'[t] = span[t]
        /\ span'[s].observer = span[s].observer
        /\ span'[s].name = span[s].name
        /\ span'[s].endpoint = span[s].endpoint
        /\ span'[s].stage # "cache"
    BY <1>3 DEF Get, Lock, Count, Proceed, Getting, Making, TypeOK
  <2>. QED  BY <2>1, <2>2, SpanGoesOn
<1>4. ASSUME NEW s \in Spans, Make(s)
      PROVE  CacheInv'
  <2>1. /\ names' = names /\ asked' = asked /\ span[s].stage = "make"
        /\ \/ metrics' = metrics
           \/ metrics' = [metrics EXCEPT ![span[s].observer] = @ \cup {span[s].endpoint}]
    BY <1>4 DEF Make
  <2>2. /\ \A t \in Spans : t # s => span'[t] = span[t]
        /\ span'[s].observer = span[s].observer
        /\ span'[s].name = span[s].name
        /\ span'[s].endpoint = span[s].endpoint
        /\ span'[s].stage # "cache"
    <3>1. span[s] \in [stage : {"make"}, observer : Observers, name : Names,
                       endpoint : Endpoints, next : FieldNumbers]
      BY <2>1 DEF TypeOK, SpanStates
    <3>2. CASE Proceed(s, "count")
      BY <3>2 DEF Proceed, Getting, TypeOK
    <3>3. CASE span' = [span EXCEPT ![s].next = @ + 1]
      BY <3>1, <3>3 DEF TypeOK
    <3>. QED  BY <1>4, <3>2, <3>3 DEF Make
  <2>. QED  BY <2>1, <2>2, SpanGoesOn
<1>5. CASE UNCHANGED vars
  BY <1>5 DEF vars, CacheInv, Normalized
<1>. QED  BY <1>1, <1>2, <1>3, <1>4, <1>5 DEF Next, OnEnd

(* A request is one of the others only when the cache is full, and with a name
   that is cached only if it went for a place when there was one.            *)
THEOREM OthersFoundNoPlace == Spec => []OthersWhenFull
<1>1. TypeOK /\ CacheInv => OthersWhenFull
  BY DEF CacheInv, OthersWhenFull
<1>. QED  BY <1>1, TypesInit, TypesStep, CacheInit, CacheStep, PTL DEF Spec

(* The limit on the names holds, and with it the one on the metrics, although the
   size is read before the lock is taken.                                    *)
THEOREM CachesBounded == Spec => []Bounded
<1>1. TypeOK /\ CacheInv => Bounded
  <2>. SUFFICES ASSUME TypeOK, CacheInv, NEW o \in Observers
                PROVE  Cardinality(metrics[o]) <= MaxNames + 1
    BY DEF CacheInv, Bounded
  <2>. DEFINE f == [n \in names[o] |-> Normalize(n)]
  <2>1. IsFiniteSet(names[o]) /\ Cardinality(names[o]) <= MaxNames /\ Cardinality(names[o]) \in Nat
    BY FS_CardinalityType DEF CacheInv
  <2>2. f \in Surjection(names[o], Normalized(o))
    BY DEF Surjection, Normalized
  <2>3. /\ IsFiniteSet(Normalized(o)) /\ Cardinality(Normalized(o)) <= Cardinality(names[o])
        /\ Cardinality(Normalized(o)) \in Nat
    BY <2>1, <2>2, FS_Surjection, FS_CardinalityType
  <2>4. /\ IsFiniteSet(Normalized(o) \cup {Other})
        /\ Cardinality(Normalized(o) \cup {Other}) <= Cardinality(Normalized(o)) + 1
        /\ Cardinality(Normalized(o) \cup {Other}) \in Nat
    <3>1. /\ IsFiniteSet(Normalized(o) \cup {Other})
          /\ Cardinality(Normalized(o) \cup {Other}) =
                IF Other \in Normalized(o) THEN Cardinality(Normalized(o))
                                           ELSE Cardinality(Normalized(o)) + 1
      BY <2>3, FS_AddElement, Zenon
    <3>. QED  BY <2>3, <3>1
  <2>5. /\ Cardinality(metrics[o]) <= Cardinality(Normalized(o) \cup {Other})
        /\ Cardinality(metrics[o]) \in Nat
    BY <2>4, FS_Subset, FS_CardinalityType DEF CacheInv
  <2>. QED  BY <2>1, <2>3, <2>4, <2>5, MetricsAssumption
<1>. QED  BY <1>1, TypesInit, TypesStep, CacheInit, CacheStep, PTL DEF Spec

-----------------------------------------------------------------------------
(* The counts *)

CountInv == CountedOnce /\ \A e \in Endpoints : IsFiniteSet(Done(e))

LEMMA CountInit == Init => CountInv
<1>. SUFFICES ASSUME Init PROVE CountInv
  OBVIOUS
<1>1. \A e \in Endpoints : Done(e) = {}
  BY DEF Init, Running, Done
<1>2. \A e \in Endpoints, k \in 1..8 : Value(k, e) = 0
  BY FieldNumbersAre DEF Init, Series, Value
<1>3. ASSUME NEW e \in Endpoints
      PROVE  /\ IsFiniteSet(Done(e)) /\ Cardinality(Done(e)) = 0
             /\ Value(1, e) = 0 /\ Value(2, e) = 0 /\ Value(3, e) = 0
             /\ Value(4, e) = 0 /\ Value(5, e) = 0 /\ Value(6, e) = 0
             /\ Value(7, e) = 0 /\ Value(8, e) = 0
  BY <1>1, <1>2, FS_EmptySet
<1>. QED  BY <1>3 DEF CountInv, CountedOnce

(* A request counts in one of the first two fields, in the latency that goes
   with it, and in one status class at most.                                 *)
LEMMA ObservedFields ==
    ASSUME NEW failed \in BOOLEAN, NEW code \in Codes
    PROVE  LET O == Observed(failed, code)
           IN  /\ 1 \in O <=> 2 \notin O
               /\ 3 \in O <=> 1 \in O
               /\ 4 \in O <=> 2 \in O
               /\ \A j, k \in 5..8 : j \in O /\ k \in O => j = k
<1>. DEFINE O == Observed(failed, code)
<1>1. StatusFields(code) \subseteq 5..8
  BY DEF StatusFields
<1>2. \A k \in 1..4 : k \in O <=> k \in (IF failed THEN {2, 4} ELSE {1, 3})
  BY <1>1 DEF Observed
<1>3. \A k \in 5..8 : k \in O => (k - 3) * 100 <= code /\ code < (k - 2) * 100
  BY DEF Observed, StatusFields
<1>4. code \in Int
  BY MetricsAssumption
<1>. HIDE DEF O
<1>5. \A j, k \in 5..8 : j \in O /\ k \in O => j = k
  BY <1>3, <1>4
<1>6. /\ 1 \in O <=> 2 \notin O
      /\ 3 \in O <=> 1 \in O
      /\ 4 \in O <=> 2 \in O
  BY <1>2
<1>. QED  BY <1>5, <1>6 DEF O

LEMMA CountKeepsCounts ==
    ASSUME TypeOK, CountInv, NEW s \in Spans, Count(s)
    PROVE  CountInv'
<1>0. span[s].endpoint \in Endpoints /\ span[s].stage = "count"
  BY SpanFields DEF Count
<1>1. PICK E \in Endpoints : span[s].endpoint = E
  BY <1>0
<1>2. PICK failed \in BOOLEAN, code \in Codes :
         count' = [x \in Series |-> IF x[1] = E /\ x[2] \in Observed(failed, code)
                                    THEN count[x] + 1 ELSE count[x]]
  BY <1>1 DEF Count
<1>. DEFINE O == Observed(failed, code)
<1>3. /\ span'[s].stage = "done" /\ span'[s].endpoint = E
      /\ \A t \in Spans : t # s => span'[t] = span[t]
  BY <1>1 DEF Count, Proceed, Getting, TypeOK
<1>4. Done(E)' = Done(E) \cup {s} /\ s \notin Done(E)
  BY <1>0, <1>1, <1>3 DEF Done
<1>5. \A e \in Endpoints : e # E => Done(e)' = Done(e)
  BY <1>0, <1>1, <1>3 DEF Done
<1>6. /\ IsFiniteSet(Done(E)') /\ Cardinality(Done(E)') = Cardinality(Done(E)) + 1
      /\ Cardinality(Done(E)) \in Nat
  <2>1. IsFiniteSet(Done(E))
    BY <1>1 DEF CountInv
  <2>2. /\ IsFiniteSet(Done(E) \cup {s})
        /\ Cardinality(Done(E) \cup {s}) =
              IF s \in Done(E) THEN Cardinality(Done(E)) ELSE Cardinality(Done(E)) + 1
    BY <2>1, FS_AddElement, Zenon
  <2>3. Cardinality(Done(E)) \in Nat
    BY <2>1, FS_CardinalityType
  <2>. QED  BY <1>4, <2>2, <2>3
<1>7. \A e \in Endpoints, k \in 1..8 :
         /\ Value(k, e) \in Nat
         /\ Value(k, e)' = IF e = E /\ k \in O THEN Value(k, e) + 1 ELSE Value(k, e)
  BY <1>2, FieldNumbersAre DEF Series, TypeOK, Value
<1>8. /\ 1 \in O <=> 2 \notin O
      /\ 3 \in O <=> 1 \in O
      /\ 4 \in O <=> 2 \in O
      /\ \A j, k \in 5..8 : j \in O /\ k \in O => j = k
  BY ObservedFields
<1>. HIDE DEF O
<1>9. ASSUME NEW e \in Endpoints, e # E
      PROVE  /\ IsFiniteSet(Done(e)')
             /\ Value(1, e)' + Value(2, e)' = Cardinality(Done(e)')
             /\ Value(3, e)' = Value(1, e)' /\ Value(4, e)' = Value(2, e)'
             /\ Value(5, e)' + Value(6, e)' + Value(7, e)' + Value(8, e)'
                    <= Cardinality(Done(e)')
  BY <1>5, <1>7, <1>9 DEF CountInv, CountedOnce
<1>10. /\ Value(1, E)' + Value(2, E)' = Cardinality(Done(E)')
       /\ Value(3, E)' = Value(1, E)' /\ Value(4, E)' = Value(2, E)'
  BY <1>1, <1>6, <1>7, <1>8 DEF CountInv, CountedOnce
<1>11. Value(5, E)' + Value(6, E)' + Value(7, E)' + Value(8, E)'
          <= Cardinality(Done(E)')
  <2>. DEFINE c5 == Value(5, E)  c6 == Value(6, E)  c7 == Value(7, E)
              c8 == Value(8, E)  d5 == Value(5, E)'  d6 == Value(6, E)'
              d7 == Value(7, E)'  d8 == Value(8, E)'
  <2>1. c5 + c6 + c7 + c8 <= Cardinality(Done(E)) /\ c5 \in Nat /\ c6 \in Nat /\ c7 \in Nat /\ c8 \in Nat
    BY <1>1, <1>7 DEF CountInv, CountedOnce
  <2>2. /\ d5 = IF 5 \in O THEN c5 + 1 ELSE c5
        /\ d6 = IF 6 \in O THEN c6 + 1 ELSE c6
        /\ d7 = IF 7 \in O THEN c7 + 1 ELSE c7
        /\ d8 = IF 8 \in O THEN c8 + 1 ELSE c8
    BY <1>1, <1>7
  <2>3. /\ ~(5 \in O /\ 6 \in O) /\ ~(5 \in O /\ 7 \in O) /\ ~(5 \in O /\ 8 \in O)
        /\ ~(6 \in O /\ 7 \in O) /\ ~(6 \in O /\ 8 \in O) /\ ~(7 \in O /\ 8 \in O)
    BY <1>8
  <2>. HIDE DEF c5, c6, c7, c8, d5, d6, d7, d8
  <2>4. d5 + d6 + d7 + d8 <= Cardinality(Done(E)')
    BY <1>6, <2>1, <2>2, <2>3
  <2>. QED  BY <2>4 DEF d5, d6, d7, d8
<1>. QED  BY <1>6, <1>9, <1>10, <1>11 DEF CountInv, CountedOnce

LEMMA CountStep == TypeOK /\ CountInv /\ [Next]_vars => CountInv'
<1>. SUFFICES ASSUME TypeOK, CountInv, [Next]_vars PROVE CountInv'
  OBVIOUS
<1>1. ASSUME count' = count,
             \A t \in Spans : \/ span'[t] = span[t]
                              \/ span[t].stage # "done" /\ span'[t].stage # "done"
      PROVE  CountInv'
  <2>1. \A e \in Endpoints : Done(e)' = Done(e)
    BY <1>1 DEF Done
  <2>2. \A e \in Endpoints, k \in 1..8 : Value(k, e)' = Value(k, e)
    BY <1>1 DEF Value
  <2>. QED  BY <2>1, <2>2 DEF CountInv, CountedOnce
<1>2. ASSUME NEW s \in Spans, NEW o \in Observers, NEW n \in Names, Lookup(s, o, n)
      PROVE  CountInv'
  BY <1>1, <1>2 DEF Lookup, Getting, Caching, TypeOK
<1>3. ASSUME NEW s \in Spans, CacheName(s) \/ Get(s) \/ Lock(s)
      PROVE  CountInv'
  BY <1>1, <1>3 DEF CacheName, Get, Lock, Proceed, Getting, Making, TypeOK
<1>4. ASSUME NEW s \in Spans, Make(s)
      PROVE  CountInv'
  <2>1. count' = count /\ span[s].stage = "make"
    BY <1>4 DEF Make
  <2>2. CASE Proceed(s, "count")
    BY <1>1, <2>1, <2>2 DEF Proceed, Getting, TypeOK
  <2>3. CASE span' = [span EXCEPT ![s].next = @ + 1]
    <3>1. span[s] \in [stage : {"make"}, observer : Observers, name : Names,
                       endpoint : Endpoints, next : FieldNumbers]
      BY <2>1 DEF TypeOK, SpanStates
    <3>. QED  BY <1>1, <2>1, <2>3, <3>1 DEF TypeOK
  <2>. QED  BY <1>4, <2>2, <2>3 DEF Make
<1>5. ASSUME NEW s \in Spans, Count(s)
      PROVE  CountInv'
  BY <1>5, CountKeepsCounts
<1>6. CASE UNCHANGED vars
  BY <1>1, <1>6 DEF vars
<1>. QED  BY <1>2, <1>3, <1>4, <1>5, <1>6 DEF Next, OnEnd

(* However many spans end at once, each is counted once, under its endpoint. *)
THEOREM RequestsCountedOnce == Spec => []CountedOnce
<1>1. CountInv => CountedOnce
  BY DEF CountInv
<1>. QED  BY <1>1, TypesInit, TypesStep, CountInit, CountStep, PTL DEF Spec

=============================================================================
