-------------------------- MODULE DriverDispatchProofs --------------------------
(***************************************************************************)
(* Proofs about the work on a dispatch, for any number of claims, workers  *)
(* and drivers and any error frequency: of the driver store, of the worker *)
(* pool, which implements BestAnswer, and of DriverDispatch, which uses    *)
(* the two as their own modules say, so that what is proved about each of  *)
(* them alone holds when they work together.                               *)
(***************************************************************************)
EXTENDS DriverDispatch, SequenceTheorems, WellFoundedInduction, TLAPS

-----------------------------------------------------------------------------
(* The driver store. *)

LEMMA LookupStages ==
    ASSUME StoreTypeOK, NEW c \in Claims
    PROVE  lookup[c].stage = "get" => /\ lookup[c].driver \in 1..Drivers
                                      /\ lookup[c].attempt \in 1..MaxAttempts
BY DEF StoreTypeOK, Lookups, Ended

LEMMA LookupValues ==
    /\ \A d \in 1..Drivers, a \in 1..MaxAttempts : Getting(d, a) \in Lookups
    /\ \A s \in Ended : End(s) \in Lookups
BY DEF Getting, End, Lookups

LEMMA StoreTypesInit == StoreInit => StoreTypeOK
<1>. SUFFICES ASSUME StoreInit PROVE StoreTypeOK
  OBVIOUS
<1>1. errorFreq \in Int /\ End("idle") \in Lookups
  BY StoreAssumption, LookupValues DEF StoreInit, Ended
<1>. QED  BY <1>1 DEF StoreInit, StoreTypeOK

LEMMA StoreTypesStep == StoreTypeOK /\ [StoreNext]_storeVars => StoreTypeOK'
<1>. SUFFICES ASSUME StoreTypeOK, [StoreNext]_storeVars PROVE StoreTypeOK'
  OBVIOUS
<1>. USE StoreAssumption, DriversAssumption
<1>0. errorFreq \in Int /\ errorFreq \in Freqs /\ countTillError \in Int /\ since \in Int
  BY DEF StoreTypeOK
<1>1. ASSUME NEW c \in Claims, Begin(c)
      PROVE  StoreTypeOK'
  <2>1. Getting(1, 1) \in Lookups
    BY LookupValues DEF MaxAttempts
  <2>2. lookup' \in [Claims -> Lookups]
    BY <1>1, <2>1 DEF Begin, StoreTypeOK
  <2>3. crowded' \subseteq Claims
    BY <1>1 DEF Begin, Others, StoreTypeOK
  <2>. QED  BY <1>0, <1>1, <2>2, <2>3 DEF Begin, StoreTypeOK
<1>2. ASSUME NEW c \in Claims, GetDriver(c)
      PROVE  StoreTypeOK'
  <2>1. lookup[c].driver # Drivers => Getting(lookup[c].driver + 1, 1) \in Lookups
    BY <1>2, LookupStages, LookupValues DEF GetDriver, MaxAttempts
  <2>2. End("found") \in Lookups
    BY LookupValues DEF Ended
  <2>3. lookup' \in [Claims -> Lookups]
    BY <1>2, <2>1, <2>2 DEF GetDriver, StoreTypeOK
  <2>. QED  BY <1>0, <1>2, <2>3 DEF GetDriver, StoreTypeOK
<1>3. ASSUME NEW c \in Claims, Timeout(c)
      PROVE  StoreTypeOK'
  <2>1. lookup[c].attempt # MaxAttempts
           => Getting(lookup[c].driver, lookup[c].attempt + 1) \in Lookups
    BY <1>3, LookupStages, LookupValues DEF Timeout, MaxAttempts
  <2>2. End("failed") \in Lookups
    BY LookupValues DEF Ended
  <2>3. lookup' \in [Claims -> Lookups]
    BY <1>3, <2>1, <2>2 DEF Timeout, StoreTypeOK
  <2>. QED  BY <1>0, <1>3, <2>3 DEF Timeout, StoreTypeOK
<1>4. CASE UNCHANGED storeVars
  BY <1>4 DEF storeVars, StoreTypeOK
<1>. QED  BY <1>1, <1>2, <1>3, <1>4 DEF StoreNext

(* The store, its counter and the lookups are well formed. *)
THEOREM DriverStoreTypeCorrect == StoreSpec => []StoreTypeOK
BY StoreTypesInit, StoreTypesStep, PTL DEF StoreSpec

-----------------------------------------------------------------------------
(* What has succeeded since the last timeout and what the counter still has
   add up to the frequency.                                                 *)
CountInv ==
    errorFreq > 0 =>
        /\ countTillError \in 0..errorFreq
        /\ since = IF countTillError = 0 THEN errorFreq - 1 ELSE errorFreq - countTillError

LEMMA CountInit == StoreInit => CountInv
BY StoreAssumption DEF StoreInit, CountInv

LEMMA CountStep == StoreTypeOK /\ CountInv /\ [StoreNext]_storeVars => CountInv'
<1>. SUFFICES ASSUME StoreTypeOK, CountInv, [StoreNext]_storeVars PROVE CountInv'
  OBVIOUS
<1>0. errorFreq \in Int
  BY StoreAssumption DEF StoreTypeOK
<1>1. ASSUME NEW c \in Claims, Begin(c) PROVE CountInv'
  BY <1>1 DEF Begin, CountInv
<1>2. ASSUME NEW c \in Claims, GetDriver(c) PROVE CountInv'
  BY <1>0, <1>2 DEF GetDriver, TimesOut, CountInv
<1>3. ASSUME NEW c \in Claims, Timeout(c) PROVE CountInv'
  BY <1>0, <1>3 DEF Timeout, CountInv
<1>4. CASE UNCHANGED storeVars
  BY <1>4 DEF storeVars, CountInv
<1>. QED  BY <1>1, <1>2, <1>3, <1>4 DEF StoreNext

LEMMA CountImplies ==
    ASSUME StoreTypeOK, CountInv, errorFreq > 0, NEW c \in Claims
    PROVE  /\ GetDriver(c) => since < errorFreq - 1
           /\ Timeout(c) => since = errorFreq - 1
<1>0. errorFreq \in Int
  BY StoreAssumption DEF StoreTypeOK
<1>1. CASE GetDriver(c)
  BY <1>0, <1>1 DEF GetDriver, Timeout, TimesOut, CountInv
<1>2. CASE Timeout(c)
  BY <1>0, <1>2 DEF GetDriver, Timeout, TimesOut, CountInv
<1>. QED  BY <1>1, <1>2

(* However the calls of the claims interleave, errorFreq - 1 of them succeed
   after a timeout, and then the next one times out.                         *)
THEOREM TimeoutsAtEqualDistances == StoreSpec => EveryXCalls
<1>1. StoreSpec => [](StoreTypeOK /\ CountInv)
  BY StoreTypesInit, StoreTypesStep, CountInit, CountStep, PTL DEF StoreSpec
<1>2. StoreTypeOK /\ CountInv
        => (errorFreq > 0 => \A c \in Claims : /\ GetDriver(c) => since < errorFreq - 1
                                               /\ Timeout(c) => since = errorFreq - 1)
  BY CountImplies
<1>. QED  BY <1>1, <1>2, PTL DEF EveryXCalls

-----------------------------------------------------------------------------
(* A lookup that no other one overlaps is in its first attempt for a driver, or
   in the second right after a timeout, when the counter has just been set
   again.                                                                    *)
Unhurried(c) ==
    /\ lookup[c].stage # "failed"
    /\ lookup[c].stage = "get" =>
          /\ Others(c) = {}
          /\ \/ lookup[c].attempt = 1
             \/ lookup[c].attempt = 2 /\ countTillError = errorFreq

AttemptInv == Enough => \A c \in Claims \ crowded : Unhurried(c)

LEMMA AttemptInit == StoreInit => AttemptInv
<1>. SUFFICES ASSUME StoreInit, NEW c \in Claims \ crowded PROVE Unhurried(c)
  BY DEF AttemptInv
<1>1. lookup[c].stage = "idle"
  BY DEF StoreInit, End
<1>. QED  BY <1>1 DEF Unhurried

(* A lookup starts, and those under way see that. *)
LEMMA BeginAttempts ==
    ASSUME StoreTypeOK, AttemptInv, Enough, NEW d \in Claims, Begin(d),
           NEW c \in Claims \ crowded'
    PROVE  Unhurried(c)'
<1>1. lookup \in [Claims -> Lookups] /\ crowded \subseteq Claims
  BY DEF StoreTypeOK
<1>2. lookup'[d] = Getting(1, 1) /\ \A e \in Claims \ {d} : lookup'[e] = lookup[e]
  BY <1>1 DEF Begin
<1>3. CASE c = d
  <2>1. Others(d) = {}
    BY <1>3 DEF Begin
  <2>2. \A e \in Claims \ {d} : lookup'[e].stage # "get"
    BY <1>2, <2>1 DEF Others
  <2>. QED  BY <1>2, <1>3, <2>2 DEF Getting, Unhurried, Others
<1>4. CASE c # d
  <2>1. c \notin crowded /\ c \notin Others(d)
    BY <1>4 DEF Begin
  <2>2. Unhurried(c) /\ lookup'[c] = lookup[c] /\ lookup[c].stage # "get"
    BY <1>2, <1>4, <2>1 DEF AttemptInv, Others
  <2>. QED  BY <2>2 DEF Unhurried
<1>. QED  BY <1>3, <1>4

LEMMA AttemptStep == StoreTypeOK /\ AttemptInv /\ [StoreNext]_storeVars => AttemptInv'
<1>. SUFFICES ASSUME StoreTypeOK, AttemptInv, [StoreNext]_storeVars, Enough',
                     NEW c \in Claims \ crowded'
              PROVE  Unhurried(c)'
  BY DEF AttemptInv, StoreTypeOK
<1>0. /\ errorFreq \in Int /\ errorFreq' = errorFreq /\ Enough
      /\ lookup \in [Claims -> Lookups] /\ crowded \subseteq Claims
  BY StoreAssumption DEF StoreTypeOK, StoreNext, Begin, GetDriver, Timeout, storeVars, Enough
<1>1. CASE UNCHANGED storeVars
  BY <1>0, <1>1 DEF storeVars, AttemptInv, Unhurried, Others
<1>2. ASSUME NEW d \in Claims, GetDriver(d) \/ Timeout(d)
      PROVE  Unhurried(c)'
  <2>1. lookup[d].stage = "get" /\ \A e \in Claims \ {d} : lookup'[e] = lookup[e]
    BY <1>0, <1>2 DEF GetDriver, Timeout
  <2>2. CASE c # d
    <3>1. c \notin crowded
      BY <1>2, <2>2 DEF GetDriver, Timeout
    <3>2. Unhurried(c) /\ lookup'[c] = lookup[c] /\ d \in Others(c)
      BY <1>0, <2>1, <2>2, <3>1 DEF AttemptInv, Others
    <3>. QED  BY <3>2 DEF Unhurried
  <2>3. CASE c = d /\ GetDriver(c)
    <3>1. CASE lookup[c].driver = Drivers
      BY <1>0, <2>3, <3>1 DEF GetDriver, End, Unhurried
    <3>2. CASE lookup[c].driver # Drivers
      <4>1. c \notin crowded /\ lookup'[c] = Getting(lookup[c].driver + 1, 1)
        BY <1>0, <2>3, <3>2 DEF GetDriver
      <4>2. Others(c)' = Others(c) /\ Others(c) = {}
        BY <1>0, <2>1, <2>3, <4>1 DEF AttemptInv, Unhurried, Others
      <4>. QED  BY <4>1, <4>2 DEF Getting, Unhurried
    <3>. QED  BY <3>1, <3>2
  <2>4. CASE c = d /\ Timeout(c)
    <3>1. c \notin crowded
      BY <2>4 DEF Timeout
    <3>2. Unhurried(c) /\ lookup[c].stage = "get" /\ TimesOut
      BY <1>0, <2>4, <3>1 DEF AttemptInv, Timeout
    <3>3. lookup[c].attempt = 1
      BY <1>0, <3>2 DEF TimesOut, Enough, Unhurried
    <3>4. lookup'[c] = Getting(lookup[c].driver, 2) /\ countTillError' = errorFreq
      BY <1>0, <2>4, <3>3 DEF Timeout, MaxAttempts
    <3>5. Others(c)' = Others(c) /\ Others(c) = {}
      BY <2>1, <2>4, <3>2 DEF Unhurried, Others
    <3>. QED  BY <1>0, <3>4, <3>5 DEF Getting, Unhurried
  <2>. QED  BY <1>2, <2>2, <2>3, <2>4
<1>. QED  BY <1>0, <1>1, <1>2, BeginAttempts DEF StoreNext

LEMMA AttemptImplies == AttemptInv => LookupSucceeds
BY DEF AttemptInv, LookupSucceeds, Unhurried

(* For any number of drivers and claims and any frequency that lets a call
   succeed, a lookup that no other one overlaps never runs out of attempts.  *)
THEOREM ThreeAttemptsSuffice == StoreSpec => []LookupSucceeds
<1>1. StoreSpec => [](StoreTypeOK /\ AttemptInv)
  BY StoreTypesInit, StoreTypesStep, AttemptInit, AttemptStep, PTL DEF StoreSpec
<1>. QED  BY <1>1, AttemptImplies, PTL

-----------------------------------------------------------------------------
(* The worker pool. *)

LEMMA CallStages ==
    ASSUME PoolTypeOK, NEW c \in Claims
    PROVE  /\ call[c].stage \in {"ready", "submit", "wait", "answered"}
           /\ call[c].stage = "submit" => call[c].next \in DriverSet
           /\ call[c].stage = "answered" => call[c].answer \in DriverSet \cup {Error}
BY DEF PoolTypeOK, Calls

LEMMA WorkerStages ==
    ASSUME PoolTypeOK, NEW w \in Workers
    PROVE  /\ worker[w].stage \in {"idle", "route", "append", "done"}
           /\ worker[w].stage # "idle" => /\ worker[w].caller \in Claims
                                          /\ worker[w].driver \in DriverSet
           /\ worker[w].stage = "append" => worker[w].out \in Outcomes
<1>1. worker[w] \in Jobs
  BY DEF PoolTypeOK
<1>. QED  BY <1>1 DEF Jobs

LEMMA CallValues ==
    /\ Ready \in Calls /\ Waiting \in Calls
    /\ \A d \in DriverSet : Submitting(d) \in Calls
    /\ \A a \in DriverSet \cup {Error} : Answered(a) \in Calls
BY DEF Ready, Waiting, Submitting, Answered, Calls

LEMMA JobValues ==
    /\ Idle \in Jobs
    /\ \A c \in Claims, d \in DriverSet :
          /\ Routing(c, d) \in Jobs /\ SigningOff(c, d) \in Jobs
          /\ \A o \in Outcomes : Appending(c, d, o) \in Jobs
BY DEF Idle, Routing, Appending, SigningOff, Jobs

LEMMA DriverNumbers ==
    /\ Drivers \in Nat /\ 1 \in DriverSet
    /\ \A d \in DriverSet : d \in Nat /\ d <= Drivers /\ (d # Drivers => d + 1 \in DriverSet)
BY DriversAssumption, PoolAssumption DEF DriverSet

-----------------------------------------------------------------------------
(* Type correctness. *)
LEMMA PoolTypesInit == PoolInit => PoolTypeOK
<1>. SUFFICES ASSUME PoolInit PROVE PoolTypeOK
  OBVIOUS
<1>1. <<>> \in Seq(RouteResults)
  OBVIOUS
<1>. QED  BY <1>1, CallValues, JobValues DEF PoolInit, PoolTypeOK

LEMMA PoolTypesStep == PoolTypeOK /\ [PoolNext]_poolVars => PoolTypeOK'
<1>. SUFFICES ASSUME PoolTypeOK, [PoolNext]_poolVars PROVE PoolTypeOK'
  OBVIOUS
<1>1. ASSUME NEW c \in Claims, Start(c)
      PROVE  PoolTypeOK'
  <2>1. Submitting(1) \in Calls /\ <<>> \in Seq(RouteResults)
    BY CallValues, DriverNumbers
  <2>. QED  BY <1>1, <2>1 DEF Start, PoolTypeOK
<1>2. ASSUME NEW c \in Claims, NEW w \in Workers, Submit(c, w)
      PROVE  PoolTypeOK'
  <2>. DEFINE d == call[c].next
  <2>1. d \in DriverSet
    BY <1>2, CallStages DEF Submit
  <2>2. Waiting \in Calls /\ (d # Drivers => Submitting(d + 1) \in Calls)
    BY <2>1, CallValues, DriverNumbers
  <2>3. Routing(c, d) \in Jobs
    BY <2>1, JobValues
  <2>. QED  BY <1>2, <2>1, <2>2, <2>3 DEF Submit, PoolTypeOK
<1>3. ASSUME NEW w \in Workers, FindRoute(w)
      PROVE  PoolTypeOK'
  <2>1. \A o \in Outcomes : Appending(worker[w].caller, worker[w].driver, o) \in Jobs
    BY <1>3, WorkerStages, JobValues DEF FindRoute
  <2>. QED  BY <1>3, <2>1 DEF FindRoute, PoolTypeOK
<1>4. ASSUME NEW w \in Workers, AppendResult(w)
      PROVE  PoolTypeOK'
  <2>. DEFINE j == worker[w]
              r == [driver |-> j.driver, out |-> j.out]
  <2>1. j.caller \in Claims /\ j.driver \in DriverSet /\ r \in RouteResults
    BY <1>4, WorkerStages DEF AppendResult, RouteResults
  <2>2. SigningOff(j.caller, j.driver) \in Jobs
    BY <2>1, JobValues
  <2>3. Append(results[j.caller], r) \in Seq(RouteResults)
    BY <2>1, AppendProperties DEF PoolTypeOK
  <2>. QED  BY <1>4, <2>1, <2>2, <2>3 DEF AppendResult, PoolTypeOK
<1>5. ASSUME NEW w \in Workers, JobDone(w)
      PROVE  PoolTypeOK'
  BY <1>5, WorkerStages, JobValues DEF JobDone, PoolTypeOK
<1>6. ASSUME NEW c \in Claims, Choose(c)
      PROVE  PoolTypeOK'
  <2>1. results[c] \in Seq(RouteResults)
    BY DEF PoolTypeOK
  <2>2. \A i \in BestResults(results[c]) : Answered(results[c][i].driver) \in Calls
    <3>1. \A i \in DOMAIN results[c] : results[c][i] \in RouteResults
      BY <2>1
    <3>2. \A i \in DOMAIN results[c] : results[c][i].driver \in DriverSet
      BY <3>1 DEF RouteResults
    <3>. QED  BY <3>2, CallValues DEF BestResults
  <2>3. Answered(Error) \in Calls
    BY CallValues
  <2>. QED  BY <1>6, <2>2, <2>3 DEF Choose, PoolTypeOK
<1>7. CASE UNCHANGED poolVars
  BY <1>7 DEF poolVars, PoolTypeOK
<1>. QED  BY <1>1, <1>2, <1>3, <1>4, <1>5, <1>6, <1>7 DEF PoolNext, Work

(* Claims, WaitGroups, results and workers are well formed. *)
THEOREM PoolTypeCorrect == PoolSpec => []PoolTypeOK
BY PoolTypesInit, PoolTypesStep, PTL DEF PoolSpec

-----------------------------------------------------------------------------
(* Every driver of a call in progress is in exactly one place: not handed out
   yet, with one worker that has still to append it, or in the results; and
   the WaitGroup counts it until after it has been appended.                *)
HasResult(rs, d) == \E i \in DOMAIN rs : rs[i].driver = d

Distinct(rs) == \A i, j \in DOMAIN rs : rs[i].driver = rs[j].driver => i = j

Busy(w) == worker[w].stage # "idle"

WorkersAccounted ==
    \A w \in Workers : Busy(w) =>
        /\ call[worker[w].caller].stage \in {"submit", "wait"}
        /\ worker[w].driver \in open[worker[w].caller]
        /\ worker[w].stage \in {"route", "append"}
              => ~HasResult(results[worker[w].caller], worker[w].driver)
        /\ worker[w].stage = "done"
              => HasResult(results[worker[w].caller], worker[w].driver)

OneWorkerEach ==
    \A v, w \in Workers :
        Busy(v) /\ Busy(w) /\ worker[v].caller = worker[w].caller
           /\ worker[v].driver = worker[w].driver => v = w

DriversAccounted ==
    \A c \in Claims :
        /\ call[c].stage = "submit" => \A d \in DriverSet :
              /\ d >= call[c].next => d \notin open[c] /\ ~HasResult(results[c], d)
              /\ d < call[c].next => d \in open[c] \/ HasResult(results[c], d)
        /\ call[c].stage = "wait" => \A d \in DriverSet :
              d \in open[c] \/ HasResult(results[c], d)

ResultsDistinct == \A c \in Claims : Distinct(results[c])

PoolInv == /\ PoolTypeOK
           /\ WorkersAccounted
           /\ OneWorkerEach
           /\ DriversAccounted
           /\ ResultsDistinct

LEMMA PoolInvInit == PoolInit => PoolInv
<1>. SUFFICES ASSUME PoolInit PROVE PoolInv
  OBVIOUS
<1>1. \A w \in Workers : ~Busy(w)
  BY DEF PoolInit, Busy, Idle
<1>2. \A c \in Claims : call[c].stage = "ready" /\ results[c] = <<>>
  BY DEF PoolInit, Ready
<1>. QED  BY <1>1, <1>2, PoolTypesInit
          DEF PoolInv, WorkersAccounted, OneWorkerEach, DriversAccounted,
              ResultsDistinct, Distinct

(* What one more result changes. *)
LEMMA AppendedResults ==
    ASSUME NEW rs \in Seq(RouteResults), NEW r \in RouteResults
    PROVE  /\ \A d : HasResult(Append(rs, r), d) <=> HasResult(rs, d) \/ d = r.driver
           /\ Distinct(rs) /\ ~HasResult(rs, r.driver) => Distinct(Append(rs, r))
<1>. DEFINE n == Len(rs)
            qs == Append(rs, r)
<1>1. /\ n \in Nat /\ DOMAIN rs = 1..n /\ DOMAIN qs = 1..(n + 1)
      /\ \A i \in 1..n : qs[i] = rs[i]
      /\ qs[n + 1] = r
  BY AppendProperties, LenProperties
<1>. HIDE DEF n, qs
<1>2. \A i \in 1..(n + 1) : i \in 1..n \/ i = n + 1
  BY <1>1
<1>3. 1..n \subseteq 1..(n + 1) /\ n + 1 \in 1..(n + 1)
  BY <1>1
<1>4. \A d : HasResult(qs, d) <=> HasResult(rs, d) \/ d = r.driver
  BY <1>1, <1>2, <1>3 DEF HasResult
<1>5. ASSUME Distinct(rs), ~HasResult(rs, r.driver) PROVE Distinct(qs)
  BY <1>1, <1>2, <1>5 DEF Distinct, HasResult
<1>. QED  BY <1>4, <1>5 DEF qs

LEMMA StartKeepsPool ==
    ASSUME PoolInv, NEW c \in Claims, Start(c)
    PROVE  PoolInv'
<1>0. PoolTypeOK'
  BY PoolTypesStep DEF PoolInv, PoolNext
<1>1. /\ call' = [call EXCEPT ![c] = Submitting(1)]
      /\ results' = [results EXCEPT ![c] = <<>>]
      /\ open' = [open EXCEPT ![c] = {}]
      /\ worker' = worker
  BY DEF Start
<1>2. \A w \in Workers : Busy(w) => worker[w].caller # c
  BY DEF PoolInv, WorkersAccounted, Start
<1>3. \A b \in Claims : b # c => call'[b] = call[b] /\ results'[b] = results[b] /\ open'[b] = open[b]
  BY <1>1 DEF PoolInv, PoolTypeOK
<1>4. call'[c] = Submitting(1) /\ results'[c] = <<>> /\ open'[c] = {}
  BY <1>1 DEF PoolInv, PoolTypeOK
<1>5. WorkersAccounted'
  <2>. SUFFICES ASSUME NEW w \in Workers, Busy(w)
                PROVE  /\ call'[worker[w].caller].stage \in {"submit", "wait"}
                       /\ worker[w].driver \in open'[worker[w].caller]
                       /\ worker[w].stage \in {"route", "append"}
                             => ~HasResult(results'[worker[w].caller], worker[w].driver)
                       /\ worker[w].stage = "done"
                             => HasResult(results'[worker[w].caller], worker[w].driver)
    BY <1>1 DEF WorkersAccounted, Busy
  <2>1. worker[w].caller \in Claims
    BY WorkerStages DEF PoolInv, Busy
  <2>. QED  BY <1>2, <1>3, <2>1 DEF PoolInv, WorkersAccounted
<1>6. OneWorkerEach'
  BY <1>1 DEF PoolInv, OneWorkerEach, Busy
<1>7. DriversAccounted'
  <2>1. \A d \in DriverSet : ~(d < 1)
    BY DriverNumbers DEF DriverSet
  <2>2. \A d : ~HasResult(<<>>, d)
    BY DEF HasResult
  <2>3. Submitting(1).stage = "submit" /\ Submitting(1).next = 1
    BY DEF Submitting
  <2>4. ASSUME NEW b \in Claims
        PROVE  /\ call'[b].stage = "submit" => \A d \in DriverSet :
                     /\ d >= call'[b].next => d \notin open'[b] /\ ~HasResult(results'[b], d)
                     /\ d < call'[b].next => d \in open'[b] \/ HasResult(results'[b], d)
               /\ call'[b].stage = "wait" => \A d \in DriverSet :
                     d \in open'[b] \/ HasResult(results'[b], d)
    <3>1. CASE b = c
      BY <1>4, <2>1, <2>2, <2>3, <3>1
    <3>2. CASE b # c
      BY <1>3, <3>2 DEF PoolInv, DriversAccounted
    <3>. QED  BY <3>1, <3>2
  <2>. QED  BY <2>4 DEF DriversAccounted
<1>8. ResultsDistinct'
  <2>1. Distinct(<<>>)
    BY DEF Distinct
  <2>2. \A b \in Claims : Distinct(results'[b])
    BY <1>3, <1>4, <2>1 DEF PoolInv, ResultsDistinct
  <2>. QED  BY <2>2 DEF ResultsDistinct
<1>. QED  BY <1>0, <1>5, <1>6, <1>7, <1>8 DEF PoolInv

LEMMA SubmitKeepsPool ==
    ASSUME PoolInv, NEW c \in Claims, NEW w \in Workers, Submit(c, w)
    PROVE  PoolInv'
<1>. DEFINE d == call[c].next
<1>0. PoolTypeOK'
  BY PoolTypesStep DEF PoolInv, PoolNext
<1>1. /\ open' = [open EXCEPT ![c] = @ \cup {d}]
      /\ worker' = [worker EXCEPT ![w] = Routing(c, d)]
      /\ call' = [call EXCEPT ![c] = IF d = Drivers THEN Waiting ELSE Submitting(d + 1)]
      /\ results' = results
  BY DEF Submit
<1>2. /\ call[c].stage = "submit" /\ d \in DriverSet /\ ~Busy(w)
      /\ d \notin open[c] /\ ~HasResult(results[c], d)
  <2>1. call[c].stage = "submit" /\ d \in DriverSet /\ ~Busy(w)
    BY CallStages DEF Submit, PoolInv, Busy
  <2>2. \A e \in DriverSet : e >= d => e \notin open[c] /\ ~HasResult(results[c], e)
    BY <2>1 DEF PoolInv, DriversAccounted
  <2>3. d \in Nat
    BY <2>1 DEF DriverSet
  <2>. QED  BY <2>1, <2>2, <2>3
<1>3. \A b \in Claims : /\ b # c => call'[b] = call[b] /\ open'[b] = open[b]
                         /\ open[b] \subseteq open'[b]
  BY <1>1 DEF PoolInv, PoolTypeOK
<1>4. /\ open'[c] = open[c] \cup {d}
      /\ call'[c] = IF d = Drivers THEN Waiting ELSE Submitting(d + 1)
  BY <1>1 DEF PoolInv, PoolTypeOK
<1>5. /\ worker'[w] = Routing(c, d)
      /\ \A v \in Workers : v # w => worker'[v] = worker[v]
  BY <1>1 DEF PoolInv, PoolTypeOK
<1>6. /\ Routing(c, d).stage = "route" /\ Routing(c, d).caller = c
      /\ Routing(c, d).driver = d
  BY DEF Routing
<1>7. call'[c].stage \in {"submit", "wait"}
  BY <1>4 DEF Waiting, Submitting
<1>8. \A v \in Workers : Busy(v) => /\ worker[v].caller \in Claims
                                   /\ worker[v].driver \in open[worker[v].caller]
  BY WorkerStages DEF PoolInv, WorkersAccounted, Busy
<1>9. WorkersAccounted'
  <2>1. ASSUME NEW v \in Workers, Busy(v)'
        PROVE  /\ call'[worker'[v].caller].stage \in {"submit", "wait"}
               /\ worker'[v].driver \in open'[worker'[v].caller]
               /\ worker'[v].stage \in {"route", "append"}
                     => ~HasResult(results'[worker'[v].caller], worker'[v].driver)
               /\ worker'[v].stage = "done"
                     => HasResult(results'[worker'[v].caller], worker'[v].driver)
    <3>1. CASE v = w
      BY <1>1, <1>2, <1>4, <1>5, <1>6, <1>7, <3>1
    <3>2. CASE v # w
      <4>1. worker'[v] = worker[v] /\ Busy(v)
        BY <1>5, <2>1, <3>2 DEF Busy
      <4>2. worker[v].caller \in Claims
        BY <1>8, <4>1
      <4>3. call'[worker[v].caller].stage \in {"submit", "wait"}
        BY <1>3, <1>7, <4>1, <4>2 DEF PoolInv, WorkersAccounted
      <4>. QED  BY <1>1, <1>3, <4>1, <4>2, <4>3 DEF PoolInv, WorkersAccounted
    <3>. QED  BY <3>1, <3>2
  <2>. QED  BY <2>1 DEF WorkersAccounted
<1>10. OneWorkerEach'
  <2>1. \A v \in Workers : v # w /\ Busy(v)'
            => worker'[v] = worker[v] /\ Busy(v) /\ ~(worker[v].caller = c /\ worker[v].driver = d)
    BY <1>2, <1>5, <1>8 DEF Busy
  <2>2. ASSUME NEW u \in Workers, NEW v \in Workers, Busy(u)', Busy(v)',
               worker'[u].caller = worker'[v].caller, worker'[u].driver = worker'[v].driver
        PROVE  u = v
    <3>1. CASE u # w /\ v # w
      BY <2>1, <2>2, <3>1 DEF PoolInv, OneWorkerEach
    <3>2. CASE u = w /\ v # w
      BY <1>5, <1>6, <2>1, <2>2, <3>2
    <3>3. CASE u # w /\ v = w
      BY <1>5, <1>6, <2>1, <2>2, <3>3
    <3>. QED  BY <3>1, <3>2, <3>3
  <2>. QED  BY <2>2 DEF OneWorkerEach
<1>11. DriversAccounted'
  <2>1. ASSUME NEW e \in DriverSet
        PROVE  /\ e > d => e \notin open'[c] /\ ~HasResult(results[c], e)
               /\ e <= d => e \in open'[c] \/ HasResult(results[c], e)
    <3>1. /\ e >= d => e \notin open[c] /\ ~HasResult(results[c], e)
          /\ e < d => e \in open[c] \/ HasResult(results[c], e)
      BY <1>2 DEF PoolInv, DriversAccounted
    <3>. QED  BY <1>2, <1>4, <3>1, DriverNumbers
  <2>2. ASSUME NEW b \in Claims
        PROVE  /\ call'[b].stage = "submit" => \A e \in DriverSet :
                     /\ e >= call'[b].next => e \notin open'[b] /\ ~HasResult(results'[b], e)
                     /\ e < call'[b].next => e \in open'[b] \/ HasResult(results'[b], e)
               /\ call'[b].stage = "wait" => \A e \in DriverSet :
                     e \in open'[b] \/ HasResult(results'[b], e)
    <3>1. CASE b # c
      BY <1>1, <1>3, <3>1 DEF PoolInv, DriversAccounted
    <3>2. CASE b = c /\ d = Drivers
      <4>1. call'[b].stage = "wait" /\ \A e \in DriverSet : e <= d
        BY <1>4, <3>2, DriverNumbers DEF Waiting
      <4>. QED  BY <1>1, <2>1, <3>2, <4>1
    <3>3. CASE b = c /\ d # Drivers
      <4>1. call'[b].stage = "submit" /\ call'[b].next = d + 1
        BY <1>4, <3>3 DEF Submitting
      <4>2. \A e \in DriverSet : (e >= d + 1 <=> e > d) /\ (e < d + 1 <=> e <= d)
        BY <1>2, DriverNumbers
      <4>. QED  BY <1>1, <2>1, <3>3, <4>1, <4>2
    <3>. QED  BY <3>1, <3>2, <3>3
  <2>. QED  BY <2>2 DEF DriversAccounted
<1>12. ResultsDistinct'
  BY <1>1 DEF PoolInv, ResultsDistinct
<1>. QED  BY <1>0, <1>9, <1>10, <1>11, <1>12 DEF PoolInv


LEMMA FindRouteKeepsPool ==
    ASSUME PoolInv, NEW w \in Workers, FindRoute(w)
    PROVE  PoolInv'
<1>0. PoolTypeOK'
  BY PoolTypesStep DEF PoolInv, PoolNext, Work
<1>1. call' = call /\ results' = results /\ open' = open /\ worker[w].stage = "route"
  BY DEF FindRoute
<1>2. /\ worker'[w].stage = "append" /\ worker'[w].caller = worker[w].caller
      /\ worker'[w].driver = worker[w].driver
      /\ \A v \in Workers : v # w => worker'[v] = worker[v]
  BY DEF FindRoute, PoolInv, PoolTypeOK, Appending
<1>3. \A v \in Workers : /\ Busy(v)' => Busy(v)
                         /\ Busy(v) => /\ worker'[v].caller = worker[v].caller
                                        /\ worker'[v].driver = worker[v].driver
                         /\ worker'[v].stage \in {"route", "append"}
                               => worker[v].stage \in {"route", "append"}
                         /\ worker'[v].stage = "done" => worker[v].stage = "done"
  BY <1>1, <1>2 DEF Busy
<1>4. WorkersAccounted'
  BY <1>1, <1>3 DEF PoolInv, WorkersAccounted
<1>5. OneWorkerEach'
  BY <1>3 DEF PoolInv, OneWorkerEach
<1>6. DriversAccounted' /\ ResultsDistinct'
  BY <1>1 DEF PoolInv, DriversAccounted, ResultsDistinct
<1>. QED  BY <1>0, <1>4, <1>5, <1>6 DEF PoolInv

LEMMA AppendResultKeepsPool ==
    ASSUME PoolInv, NEW w \in Workers, AppendResult(w)
    PROVE  PoolInv'
<1>. DEFINE c == worker[w].caller
            d == worker[w].driver
            r == [driver |-> d, out |-> worker[w].out]
<1>0. PoolTypeOK'
  BY PoolTypesStep DEF PoolInv, PoolNext, Work
<1>1. /\ call' = call /\ open' = open /\ worker[w].stage = "append" /\ Busy(w)
      /\ results' = [results EXCEPT ![c] = Append(@, r)]
      /\ worker' = [worker EXCEPT ![w] = SigningOff(c, d)]
  BY DEF AppendResult, Busy
<1>2. c \in Claims /\ r \in RouteResults /\ r.driver = d
  BY <1>1, WorkerStages DEF PoolInv, RouteResults
<1>3. /\ worker'[w].stage = "done" /\ worker'[w].caller = c /\ worker'[w].driver = d
      /\ \A v \in Workers : v # w => worker'[v] = worker[v]
  BY <1>1 DEF PoolInv, PoolTypeOK, SigningOff
<1>4. /\ results[c] \in Seq(RouteResults)
      /\ results'[c] = Append(results[c], r)
      /\ \A b \in Claims : b # c => results'[b] = results[b]
  BY <1>1, <1>2 DEF PoolInv, PoolTypeOK
<1>. HIDE DEF c, d, r
<1>5. \A e : HasResult(results'[c], e) <=> HasResult(results[c], e) \/ e = d
  BY <1>2, <1>4, AppendedResults
<1>6. ~HasResult(results[c], d)
  BY <1>1 DEF PoolInv, WorkersAccounted, c, d
<1>7. WorkersAccounted'
  <2>1. ASSUME NEW v \in Workers, Busy(v)'
        PROVE  /\ call'[worker'[v].caller].stage \in {"submit", "wait"}
               /\ worker'[v].driver \in open'[worker'[v].caller]
               /\ worker'[v].stage \in {"route", "append"}
                     => ~HasResult(results'[worker'[v].caller], worker'[v].driver)
               /\ worker'[v].stage = "done"
                     => HasResult(results'[worker'[v].caller], worker'[v].driver)
    <3>1. CASE v = w
      BY <1>1, <1>3, <1>5, <3>1 DEF PoolInv, WorkersAccounted, c, d
    <3>2. CASE v # w
      <4>1. worker'[v] = worker[v] /\ Busy(v) /\ worker[v].caller \in Claims
        BY <1>3, <2>1, <3>2, WorkerStages DEF Busy, PoolInv
      <4>2. ~(worker[v].caller = c /\ worker[v].driver = d)
        BY <1>1, <3>2, <4>1 DEF PoolInv, OneWorkerEach, c, d
      <4>3. worker[v].stage \in {"route", "append"}
               => ~HasResult(results'[worker[v].caller], worker[v].driver)
        BY <1>4, <1>5, <4>1, <4>2 DEF PoolInv, WorkersAccounted
      <4>4. worker[v].stage = "done"
               => HasResult(results'[worker[v].caller], worker[v].driver)
        BY <1>4, <1>5, <4>1 DEF PoolInv, WorkersAccounted
      <4>. QED  BY <1>1, <4>1, <4>3, <4>4 DEF PoolInv, WorkersAccounted
    <3>. QED  BY <3>1, <3>2
  <2>. QED  BY <2>1 DEF WorkersAccounted
<1>8. OneWorkerEach'
  <2>1. \A v \in Workers : Busy(v)' => /\ Busy(v)
                                      /\ worker'[v].caller = worker[v].caller
                                      /\ worker'[v].driver = worker[v].driver
    BY <1>1, <1>3 DEF Busy, c, d
  <2>. QED  BY <2>1 DEF PoolInv, OneWorkerEach
<1>9. DriversAccounted'
  <2>1. call[c].stage \in {"submit", "wait"} /\ d \in open[c]
    BY <1>1 DEF PoolInv, WorkersAccounted, c, d
  <2>2. \A b \in Claims : \A e \in DriverSet :
           /\ e \in open[b] \/ HasResult(results[b], e)
                 => e \in open[b] \/ HasResult(results'[b], e)
           /\ e \notin open[b] /\ ~HasResult(results[b], e)
                 => e \notin open[b] /\ ~HasResult(results'[b], e)
    BY <1>4, <1>5, <2>1
  <2>. QED  BY <1>1, <2>2 DEF PoolInv, DriversAccounted
<1>10. ResultsDistinct'
  <2>1. Distinct(results'[c])
    BY <1>2, <1>4, <1>6, AppendedResults DEF PoolInv, ResultsDistinct
  <2>. QED  BY <1>4, <2>1 DEF PoolInv, ResultsDistinct
<1>. QED  BY <1>0, <1>7, <1>8, <1>9, <1>10 DEF PoolInv

LEMMA JobDoneKeepsPool ==
    ASSUME PoolInv, NEW w \in Workers, JobDone(w)
    PROVE  PoolInv'
<1>. DEFINE c == worker[w].caller
            d == worker[w].driver
<1>0. PoolTypeOK'
  BY PoolTypesStep DEF PoolInv, PoolNext, Work
<1>1. /\ call' = call /\ results' = results /\ worker[w].stage = "done" /\ Busy(w)
      /\ open' = [open EXCEPT ![c] = @ \ {d}]
      /\ worker' = [worker EXCEPT ![w] = Idle]
  BY DEF JobDone, Busy
<1>2. c \in Claims /\ d \in DriverSet
  BY <1>1, WorkerStages DEF PoolInv
<1>3. /\ open'[c] = open[c] \ {d}
      /\ \A b \in Claims : b # c => open'[b] = open[b]
  BY <1>1, <1>2 DEF PoolInv, PoolTypeOK
<1>4. /\ ~Busy(w)'
      /\ \A v \in Workers : v # w => worker'[v] = worker[v]
  BY <1>1 DEF PoolInv, PoolTypeOK, Busy, Idle
<1>5. HasResult(results[c], d)
  BY <1>1 DEF PoolInv, WorkersAccounted
<1>. HIDE DEF c, d
<1>6. WorkersAccounted'
  <2>1. ASSUME NEW v \in Workers, Busy(v)'
        PROVE  /\ call'[worker'[v].caller].stage \in {"submit", "wait"}
               /\ worker'[v].driver \in open'[worker'[v].caller]
               /\ worker'[v].stage \in {"route", "append"}
                     => ~HasResult(results'[worker'[v].caller], worker'[v].driver)
               /\ worker'[v].stage = "done"
                     => HasResult(results'[worker'[v].caller], worker'[v].driver)
    <3>1. v # w /\ worker'[v] = worker[v] /\ Busy(v) /\ worker[v].caller \in Claims
      BY <1>4, <2>1, WorkerStages DEF Busy, PoolInv
    <3>2. ~(worker[v].caller = c /\ worker[v].driver = d)
      BY <1>1, <3>1 DEF PoolInv, OneWorkerEach, c, d
    <3>3. worker[v].driver \in open'[worker[v].caller]
      BY <1>3, <3>1, <3>2 DEF PoolInv, WorkersAccounted
    <3>. QED  BY <1>1, <3>1, <3>3 DEF PoolInv, WorkersAccounted
  <2>. QED  BY <2>1 DEF WorkersAccounted
<1>7. OneWorkerEach'
  <2>1. \A v \in Workers : Busy(v)' => Busy(v) /\ worker'[v] = worker[v]
    BY <1>4 DEF Busy
  <2>. QED  BY <2>1 DEF PoolInv, OneWorkerEach
<1>8. DriversAccounted'
  <2>1. \A b \in Claims : \A e \in DriverSet :
           /\ e \in open[b] \/ HasResult(results[b], e)
                 => e \in open'[b] \/ HasResult(results[b], e)
           /\ e \notin open[b] => e \notin open'[b]
    BY <1>3, <1>5
  <2>. QED  BY <1>1, <2>1 DEF PoolInv, DriversAccounted
<1>9. ResultsDistinct'
  BY <1>1 DEF PoolInv, ResultsDistinct
<1>. QED  BY <1>0, <1>6, <1>7, <1>8, <1>9 DEF PoolInv

LEMMA ChooseKeepsPool ==
    ASSUME PoolInv, NEW c \in Claims, Choose(c)
    PROVE  PoolInv'
<1>0. PoolTypeOK'
  BY PoolTypesStep DEF PoolInv, PoolNext
<1>1. /\ results' = results /\ open' = open /\ worker' = worker
      /\ open[c] = {}
      /\ \E a : call' = [call EXCEPT ![c] = Answered(a)]
  BY DEF Choose
<1>2. /\ call'[c].stage = "answered"
      /\ \A b \in Claims : b # c => call'[b] = call[b]
  BY <1>1 DEF PoolInv, PoolTypeOK, Answered
<1>3. \A w \in Workers : Busy(w) => worker[w].caller \in Claims /\ worker[w].caller # c
  BY <1>1, WorkerStages DEF PoolInv, WorkersAccounted, Busy
<1>4. WorkersAccounted'
  BY <1>1, <1>2, <1>3 DEF PoolInv, WorkersAccounted, Busy
<1>5. OneWorkerEach'
  BY <1>1 DEF PoolInv, OneWorkerEach, Busy
<1>6. DriversAccounted'
  BY <1>1, <1>2 DEF PoolInv, DriversAccounted
<1>7. ResultsDistinct'
  BY <1>1 DEF PoolInv, ResultsDistinct
<1>. QED  BY <1>0, <1>4, <1>5, <1>6, <1>7 DEF PoolInv

LEMMA PoolInvStep == PoolInv /\ [PoolNext]_poolVars => PoolInv'
<1>. SUFFICES ASSUME PoolInv, [PoolNext]_poolVars PROVE PoolInv'
  OBVIOUS
<1>1. CASE UNCHANGED poolVars
  <2>1. PoolTypeOK'
    BY <1>1, PoolTypesStep DEF PoolInv
  <2>. QED  BY <1>1, <2>1 DEF poolVars, PoolInv, WorkersAccounted, OneWorkerEach, Busy,
                             DriversAccounted, ResultsDistinct
<1>. QED  BY <1>1, StartKeepsPool, SubmitKeepsPool, FindRouteKeepsPool,
             AppendResultKeepsPool, JobDoneKeepsPool, ChooseKeepsPool DEF PoolNext, Work

-----------------------------------------------------------------------------
(* Refinement.  What the results say about a driver is settled by the one
   entry of that driver.                                                    *)
LEMMA OutcomeOfEntry ==
    ASSUME NEW rs, Distinct(rs), NEW i \in DOMAIN rs
    PROVE  Outcome(rs, rs[i].driver) = rs[i].out
BY DEF Outcome, Distinct

LEMMA OutcomeOfNone ==
    ASSUME NEW rs, NEW d, ~HasResult(rs, d)
    PROVE  Outcome(rs, d) = Pending
BY DEF Outcome, HasResult

LEMMA OutcomeAppended ==
    ASSUME NEW rs \in Seq(RouteResults), NEW r \in RouteResults, Distinct(rs),
           ~HasResult(rs, r.driver), NEW d
    PROVE  Outcome(Append(rs, r), d) = IF d = r.driver THEN r.out ELSE Outcome(rs, d)
<1>. DEFINE n == Len(rs)
            qs == Append(rs, r)
<1>1. /\ n \in Nat /\ DOMAIN rs = 1..n /\ DOMAIN qs = 1..(n + 1)
      /\ \A i \in 1..n : qs[i] = rs[i]
      /\ qs[n + 1] = r
  BY AppendProperties, LenProperties
<1>2. Distinct(qs) /\ (HasResult(qs, d) <=> HasResult(rs, d) \/ d = r.driver)
  BY AppendedResults
<1>. HIDE DEF n, qs
<1>3. 1..n \subseteq 1..(n + 1) /\ n + 1 \in 1..(n + 1)
  BY <1>1
<1>4. CASE d = r.driver
  <2>1. Outcome(qs, qs[n + 1].driver) = qs[n + 1].out
    BY <1>1, <1>2, <1>3, OutcomeOfEntry
  <2>. QED  BY <1>1, <1>4, <2>1 DEF qs
<1>5. CASE d # r.driver /\ HasResult(rs, d)
  <2>1. PICK i \in DOMAIN rs : rs[i].driver = d
    BY <1>5 DEF HasResult
  <2>2. i \in DOMAIN qs /\ qs[i] = rs[i]
    BY <1>1, <1>3, <2>1
  <2>3. Outcome(rs, d) = rs[i].out /\ Outcome(qs, d) = qs[i].out
    BY <1>2, <2>1, <2>2, OutcomeOfEntry
  <2>. QED  BY <1>5, <2>2, <2>3 DEF qs
<1>6. CASE d # r.driver /\ ~HasResult(rs, d)
  BY <1>2, <1>6, OutcomeOfNone DEF qs
<1>. QED  BY <1>4, <1>5, <1>6 DEF qs


(* The initial states and the steps of the pool, seen through the mapping. *)
LEMMA RefinementInit == PoolInit => Best!Init
<1>. SUFFICES ASSUME PoolInit PROVE Best!Init
  OBVIOUS
<1>1. \A d : Outcome(<<>>, d) = Pending
  BY DEF Outcome
<1>2. AnswerOf(Ready) = 0
  BY DEF AnswerOf, Ready
<1>. QED  BY <1>1, <1>2 DEF PoolInit, Best!Init, Best!DriverSet, DriverSet

LEMMA RefinementStep ==
    PoolInv /\ [PoolNext]_poolVars
       => [Best!Next]_<<[c \in Claims |-> [d \in DriverSet |-> Outcome(results[c], d)]],
                        [c \in Claims |-> AnswerOf(call[c])]>>
<1>. DEFINE out == [c \in Claims |-> [d \in DriverSet |-> Outcome(results[c], d)]]
            ans == [c \in Claims |-> AnswerOf(call[c])]
<1>. SUFFICES ASSUME PoolInv, [PoolNext]_poolVars
              PROVE  Best!Next \/ (out' = out /\ ans' = ans)
  OBVIOUS
<1>. USE DEF PoolInv
<1>1. ASSUME NEW c \in Claims, Start(c)
      PROVE  Best!Next
  <2>1. /\ call'[c] = Submitting(1) /\ results'[c] = <<>>
        /\ \A b \in Claims : b # c => call'[b] = call[b] /\ results'[b] = results[b]
    BY <1>1 DEF Start, PoolTypeOK
  <2>2. \A d : Outcome(<<>>, d) = Pending
    BY DEF Outcome
  <2>3. out' = [out EXCEPT ![c] = [d \in DriverSet |-> Pending]]
    <3>1. [d \in DriverSet |-> Outcome(results'[c], d)] = [d \in DriverSet |-> Pending]
      BY <2>1, <2>2
    <3>2. \A b \in Claims : b # c =>
             [d \in DriverSet |-> Outcome(results'[b], d)] = [d \in DriverSet |-> Outcome(results[b], d)]
      BY <2>1
    <3>. QED  BY <3>1, <3>2
  <2>4. AnswerOf(Submitting(1)) = 0
    BY DEF AnswerOf, Submitting
  <2>5. ans' = [ans EXCEPT ![c] = 0]
    BY <2>1, <2>4
  <2>6. Best!Ask(c)
    BY <2>3, <2>5 DEF Best!Ask, Best!DriverSet, DriverSet
  <2>. QED  BY <2>6 DEF Best!Next
<1>2. ASSUME NEW c \in Claims, NEW w \in Workers, Submit(c, w)
      PROVE  out' = out /\ ans' = ans
  <2>1. results' = results /\ call[c].stage = "submit"
    BY <1>2 DEF Submit
  <2>2. \A b \in Claims : b # c => call'[b] = call[b]
    BY <1>2 DEF Submit, PoolTypeOK
  <2>3. call'[c].stage \in {"submit", "wait"}
    BY <1>2 DEF Submit, PoolTypeOK, Waiting, Submitting
  <2>4. AnswerOf(call'[c]) = 0 /\ AnswerOf(call[c]) = 0
    BY <2>1, <2>3 DEF AnswerOf
  <2>. QED  BY <2>1, <2>2, <2>4
<1>3. ASSUME NEW w \in Workers, FindRoute(w) \/ JobDone(w)
      PROVE  out' = out /\ ans' = ans
  BY <1>3 DEF FindRoute, JobDone
<1>4. ASSUME NEW w \in Workers, AppendResult(w)
      PROVE  Best!Next
  <2>. DEFINE c == worker[w].caller
              r == [driver |-> worker[w].driver, out |-> worker[w].out]
  <2>1. c \in Claims /\ r \in RouteResults /\ r.out \in Outcomes /\ r.driver \in DriverSet
    BY <1>4, WorkerStages DEF AppendResult, RouteResults
  <2>2. /\ ~HasResult(results[c], r.driver)
        /\ call[c].stage \in {"submit", "wait"}
    BY <1>4 DEF AppendResult, WorkersAccounted, Busy
  <2>3. /\ call' = call /\ results[c] \in Seq(RouteResults) /\ Distinct(results[c])
        /\ results'[c] = Append(results[c], r)
        /\ \A b \in Claims : b # c => results'[b] = results[b]
    BY <1>4, <2>1 DEF AppendResult, PoolTypeOK, ResultsDistinct
  <2>. HIDE DEF c, r
  <2>4. \A d : Outcome(results'[c], d) = IF d = r.driver THEN r.out ELSE Outcome(results[c], d)
    BY <2>1, <2>2, <2>3, OutcomeAppended
  <2>5. out[c][r.driver] = Pending
    BY <2>1, <2>2, OutcomeOfNone
  <2>6. out' = [out EXCEPT ![c][r.driver] = r.out]
    <3>1. [d \in DriverSet |-> Outcome(results'[c], d)]
             = [[d \in DriverSet |-> Outcome(results[c], d)] EXCEPT ![r.driver] = r.out]
      BY <2>1, <2>4
    <3>2. \A b \in Claims : b # c =>
             [d \in DriverSet |-> Outcome(results'[b], d)] = [d \in DriverSet |-> Outcome(results[b], d)]
      BY <2>3
    <3>. QED  BY <2>1, <3>1, <3>2
  <2>7. ans' = ans /\ ans[c] = 0
    BY <2>1, <2>2, <2>3 DEF AnswerOf
  <2>8. Best!Learn(c)
    <3>1. r.driver \in Best!DriverSet /\ r.out \in ETAs \cup {Error}
      BY <2>1 DEF Best!DriverSet, DriverSet, Outcomes
    <3>2. \E d \in Best!DriverSet, o \in ETAs \cup {Error} :
             out[c][d] = Pending /\ out' = [out EXCEPT ![c][d] = o]
      <4>. HIDE DEF out
      <4>1. out[c][r.driver] = Pending /\ out' = [out EXCEPT ![c][r.driver] = r.out]
        BY <2>5, <2>6
      <4>. QED  BY <3>1, <4>1
    <3>. HIDE DEF out, ans
    <3>. QED  BY <2>7, <3>2 DEF Best!Learn, out, ans
  <2>. QED  BY <2>1, <2>8 DEF Best!Next
<1>5. ASSUME NEW c \in Claims, Choose(c)
      PROVE  Best!Next
  <2>. DEFINE rs == results[c]
  <2>1. /\ results' = results /\ call[c].stage = "wait" /\ open[c] = {}
        /\ \A b \in Claims : b # c => call'[b] = call[b]
    BY <1>5 DEF Choose, PoolTypeOK
  <2>2. /\ Distinct(rs)
        /\ \A d \in DriverSet : HasResult(rs, d)
        /\ \A i \in DOMAIN rs : rs[i] \in RouteResults
    BY <2>1 DEF DriversAccounted, ResultsDistinct, PoolTypeOK
  <2>3. \A i \in DOMAIN rs : /\ rs[i].driver \in DriverSet /\ rs[i].out \in Outcomes
                             /\ Outcome(rs, rs[i].driver) = rs[i].out
    BY <2>2, OutcomeOfEntry DEF RouteResults
  <2>4. \A d \in DriverSet : \E i \in DOMAIN rs : rs[i].driver = d /\ Outcome(rs, d) = rs[i].out
    BY <2>2, <2>3 DEF HasResult
  <2>5. \A d \in DriverSet : out[c][d] # Pending /\ out[c][d] = Outcome(rs, d)
    BY <2>3, <2>4, PoolAssumption DEF Outcomes
  <2>6. Failed(rs) <=> \E d \in DriverSet : out[c][d] = Error
    BY <2>3, <2>4, <2>5 DEF Failed
  <2>7. out' = out /\ ans[c] = 0
    BY <2>1 DEF AnswerOf
  <2>8. \A a : AnswerOf(Answered(a)) = a
    BY DEF AnswerOf, Answered
  <2>9. CASE Failed(rs)
    <3>1. call'[c] = Answered(Error)
      BY <1>5, <2>9 DEF Choose, PoolTypeOK
    <3>2. ans' = [ans EXCEPT ![c] = Error]
      BY <2>1, <2>8, <3>1
    <3>. QED  BY <2>5, <2>6, <2>7, <2>9, <3>2 DEF Best!Next, Best!Answer, Best!DriverSet, DriverSet
  <2>10. CASE ~Failed(rs)
    <3>1. PICK i \in BestResults(rs) : call'[c] = Answered(rs[i].driver)
      BY <1>5, <2>10 DEF Choose, PoolTypeOK
    <3>2. ans' = [ans EXCEPT ![c] = rs[i].driver]
      BY <2>1, <2>8, <3>1
    <3>3. i \in DOMAIN rs /\ \A j \in DOMAIN rs : rs[i].out <= rs[j].out
      BY <3>1 DEF BestResults
    <3>4. \A e \in DriverSet : out[c][rs[i].driver] <= out[c][e]
      BY <2>3, <2>4, <2>5, <3>3
    <3>5. rs[i].driver \in Best!Fastest(out[c])
      BY <2>3, <3>3, <3>4 DEF Best!Fastest, Best!DriverSet, DriverSet
    <3>6. Best!Answer(c)
      BY <2>5, <2>6, <2>7, <2>10, <3>2, <3>5 DEF Best!Answer, Best!DriverSet, DriverSet
    <3>. QED  BY <3>6 DEF Best!Next
  <2>. QED  BY <2>9, <2>10
<1>6. CASE UNCHANGED poolVars
  BY <1>6 DEF poolVars
<1>. QED  BY <1>1, <1>2, <1>3, <1>4, <1>5, <1>6 DEF PoolNext, Work

(* The pool of any size, shared by any number of dispatches, answers each of
   them with the best of all its own routes.                                *)
THEOREM PoolImplementsBestAnswer == PoolSpec => ImplementsBest
<1>1. PoolSpec => []PoolInv
  BY PoolInvInit, PoolInvStep, PTL DEF PoolSpec
<1>. QED  BY <1>1, RefinementInit, RefinementStep, PTL DEF PoolSpec, ImplementsBest, Best!AnswerSpec

-----------------------------------------------------------------------------
(* No dispatch waits in vain.  Each driver that a WaitGroup counts is with a
   worker, which will sign off; and when none is left, there is an error to
   return or a best result to choose.                                        *)
WithWorker(c, d) ==
    \E w \in Workers : Busy(w) /\ worker[w].caller = c /\ worker[w].driver = d

OpenInv == \A c \in Claims : \A d \in open[c] : WithWorker(c, d)

NeverInVain ==
    \A c \in Claims : call[c].stage = "wait" =>
        /\ \A d \in open[c] : WithWorker(c, d)
        /\ open[c] = {} => Failed(results[c]) \/ BestResults(results[c]) # {}

LEMMA OpenInvStep == PoolTypeOK /\ OpenInv /\ [PoolNext]_poolVars => OpenInv'
<1>. SUFFICES ASSUME PoolTypeOK, OpenInv, [PoolNext]_poolVars,
                     NEW c \in Claims, NEW d \in open'[c]
              PROVE  WithWorker(c, d)'
  BY DEF OpenInv
<1>. USE DEF PoolTypeOK
<1>1. CASE UNCHANGED <<open, worker>>
  BY <1>1 DEF OpenInv, WithWorker, Busy
<1>2. ASSUME NEW b \in Claims, Start(b)
      PROVE  WithWorker(c, d)'
  <2>1. d \in open[c] /\ UNCHANGED worker
    BY <1>2 DEF Start
  <2>. QED  BY <2>1 DEF OpenInv, WithWorker, Busy
<1>3. ASSUME NEW b \in Claims, NEW w \in Workers, Submit(b, w)
      PROVE  WithWorker(c, d)'
  <2>. DEFINE e == call[b].next
  <2>1. /\ worker[w].stage = "idle"
        /\ worker' = [worker EXCEPT ![w] = Routing(b, e)]
        /\ open' = [open EXCEPT ![b] = @ \cup {e}]
    BY <1>3 DEF Submit
  <2>2. CASE c = b /\ d = e
    BY <2>1, <2>2 DEF WithWorker, Busy, Routing
  <2>3. CASE ~(c = b /\ d = e)
    <3>1. d \in open[c]
      BY <2>1, <2>3
    <3>2. PICK v \in Workers : Busy(v) /\ worker[v].caller = c /\ worker[v].driver = d
      BY <3>1 DEF OpenInv, WithWorker
    <3>3. worker'[v] = worker[v]
      BY <2>1, <3>2 DEF Busy
    <3>. QED  BY <3>2, <3>3 DEF WithWorker, Busy
  <2>. QED  BY <2>2, <2>3
<1>4. ASSUME NEW w \in Workers, FindRoute(w) \/ AppendResult(w)
      PROVE  WithWorker(c, d)'
  <2>1. /\ UNCHANGED open /\ Busy(w)
        /\ worker'[w].stage # "idle" /\ worker'[w].caller = worker[w].caller
        /\ worker'[w].driver = worker[w].driver
        /\ \A v \in Workers \ {w} : worker'[v] = worker[v]
    BY <1>4 DEF FindRoute, AppendResult, Busy, Appending, SigningOff
  <2>2. PICK v \in Workers : Busy(v) /\ worker[v].caller = c /\ worker[v].driver = d
    BY <2>1 DEF OpenInv, WithWorker
  <2>. QED  BY <2>1, <2>2 DEF WithWorker, Busy
<1>5. ASSUME NEW w \in Workers, JobDone(w)
      PROVE  WithWorker(c, d)'
  <2>1. /\ open' = [open EXCEPT ![worker[w].caller] = @ \ {worker[w].driver}]
        /\ \A v \in Workers \ {w} : worker'[v] = worker[v]
    BY <1>5 DEF JobDone
  <2>2. d \in open[c] /\ ~(c = worker[w].caller /\ d = worker[w].driver)
    BY <2>1
  <2>3. PICK v \in Workers : Busy(v) /\ worker[v].caller = c /\ worker[v].driver = d
    BY <2>2 DEF OpenInv, WithWorker
  <2>. QED  BY <2>1, <2>2, <2>3 DEF WithWorker, Busy
<1>6. ASSUME NEW b \in Claims, Choose(b)
      PROVE  UNCHANGED <<open, worker>>
  BY <1>6 DEF Choose
<1>7. CASE UNCHANGED poolVars
  BY <1>1, <1>7 DEF poolVars
<1>. QED  BY <1>1, <1>2, <1>3, <1>4, <1>5, <1>6, <1>7 DEF PoolNext, Work

(* A set of numbers that is not empty has a least one. *)
LEMMA LeastNumber ==
    ASSUME NEW T \in SUBSET Nat, T # {}
    PROVE  \E x \in T : \A y \in T : x <= y
<1>. DEFINE R == OpToRel(<, Nat)
<1>1. IsWellFoundedOn(R, Nat)
  BY NatLessThanWellFounded
<1>2. \E x \in T : \A y \in T : ~(<<y, x>> \in R)
  <2>. HIDE DEF R
  <2>. QED  BY <1>1, WFMin
<1>3. PICK x \in T : \A y \in T : ~(<<y, x>> \in R)
  BY <1>2
<1>4. \A y \in T : ~(y < x)
  BY <1>3 DEF OpToRel
<1>. QED  BY <1>4

(* Among results without an error there is a first one of the least ETA. *)
LEMMA BestExists ==
    ASSUME NEW rs \in Seq(RouteResults), rs # <<>>, ~Failed(rs)
    PROVE  BestResults(rs) # {}
<1>. DEFINE outs == {rs[i].out : i \in DOMAIN rs}
<1>1. DOMAIN rs = 1..Len(rs) /\ Len(rs) \in Nat /\ 1 \in DOMAIN rs
  BY EmptySeq
<1>2. \A i \in DOMAIN rs : rs[i].out \in Nat
  <2>1. \A i \in DOMAIN rs : rs[i] \in RouteResults
    BY <1>1, ElementOfSeq
  <2>. QED  BY <2>1, PoolAssumption DEF Failed, RouteResults, Outcomes
<1>3. PICK e \in outs : \A o \in outs : e <= o
  <2>1. outs \in SUBSET Nat /\ outs # {}
    BY <1>1, <1>2
  <2>. HIDE DEF outs
  <2>. QED  BY <2>1, LeastNumber
<1>. DEFINE least == {i \in DOMAIN rs : rs[i].out = e}
<1>4. PICK i \in least : \A j \in least : i <= j
  <2>1. least \in SUBSET Nat /\ least # {}
    BY <1>1, <1>3
  <2>. HIDE DEF least
  <2>. QED  BY <2>1, LeastNumber
<1>5. i \in DOMAIN rs /\ i \in Nat /\ rs[i].out = e /\ e \in Nat
  BY <1>1, <1>2, <1>4
<1>6. ASSUME NEW j \in DOMAIN rs
      PROVE  rs[i].out <= rs[j].out /\ (j < i => rs[i].out < rs[j].out)
  <2>1. e <= rs[j].out /\ rs[j].out \in Nat /\ j \in Nat
    BY <1>1, <1>2, <1>3
  <2>2. j < i => rs[j].out # e
    BY <1>4, <1>5, <2>1
  <2>. QED  BY <1>5, <2>1, <2>2
<1>7. i \in BestResults(rs)
  BY <1>5, <1>6 DEF BestResults
<1>. QED  BY <1>7

LEMMA WaitEnds == PoolInv /\ OpenInv => NeverInVain
<1>. SUFFICES ASSUME PoolInv, OpenInv, NEW c \in Claims, call[c].stage = "wait"
              PROVE  /\ \A d \in open[c] : WithWorker(c, d)
                     /\ open[c] = {} => Failed(results[c]) \/ BestResults(results[c]) # {}
  BY DEF NeverInVain
<1>1. ASSUME open[c] = {}, ~Failed(results[c])
      PROVE  BestResults(results[c]) # {}
  <2>1. HasResult(results[c], 1)
    BY <1>1, DriverNumbers DEF PoolInv, DriversAccounted
  <2>2. results[c] \in Seq(RouteResults)
    BY DEF PoolInv, PoolTypeOK
  <2>3. results[c] # <<>>
    BY <2>1 DEF HasResult
  <2>. QED  BY <1>1, <2>2, <2>3, BestExists
<1>. QED  BY <1>1 DEF OpenInv

(* Whatever number of dispatches shares however few workers, none waits for a
   job that no worker has, and none is left without an answer at the end.    *)
THEOREM NobodyWaitsInVain == PoolSpec => []NeverInVain
<1>1. PoolInit => OpenInv
  BY DEF PoolInit, OpenInv
<1>2. PoolInv => PoolTypeOK
  BY DEF PoolInv
<1>. QED  BY <1>1, <1>2, PoolInvInit, PoolInvStep, OpenInvStep, WaitEnds, PTL DEF PoolSpec

-----------------------------------------------------------------------------
(* Both together. *)

LEMMA StepsOfStore == Next => StoreNext \/ UNCHANGED storeVars
<1>. SUFFICES ASSUME Next PROVE StoreNext \/ UNCHANGED storeVars
  OBVIOUS
<1>1. ASSUME NEW c \in Claims, FindDrivers(c) \/ Locate(c)
      PROVE  StoreNext
  BY <1>1 DEF FindDrivers, Locate, StoreNext
<1>2. ASSUME NEW c \in Claims, FindBest(c)
      PROVE  UNCHANGED storeVars
  BY <1>2 DEF FindBest
<1>3. CASE PoolWorks
  BY <1>3 DEF PoolWorks
<1>. QED  BY <1>1, <1>2, <1>3 DEF Next

LEMMA StepsOfPool == Next => PoolNext \/ UNCHANGED poolVars
<1>. SUFFICES ASSUME Next PROVE PoolNext \/ UNCHANGED poolVars
  OBVIOUS
<1>1. ASSUME NEW c \in Claims, FindDrivers(c) \/ Locate(c)
      PROVE  UNCHANGED poolVars
  BY <1>1 DEF FindDrivers, Locate
<1>2. ASSUME NEW c \in Claims, FindBest(c)
      PROVE  PoolNext
  BY <1>2 DEF FindBest, PoolNext
<1>3. CASE PoolWorks
  BY <1>3 DEF PoolWorks, PoolNext
<1>. QED  BY <1>1, <1>2, <1>3 DEF Next

(* The lookups of the claims use the store one call at a time. *)
THEOREM DispatchUsesStore == Spec => StoreSpec
<1>1. Init => StoreInit
  BY DEF Init
<1>2. [Next]_vars => [StoreNext]_storeVars
  BY StepsOfStore DEF vars
<1>. QED  BY <1>1, <1>2, PTL DEF Spec, StoreSpec

(* The claims use the pool for one dispatch at a time each. *)
THEOREM DispatchUsesPool == Spec => PoolSpec
<1>1. Init => PoolInit
  BY DEF Init
<1>2. [Next]_vars => [PoolNext]_poolVars
  BY StepsOfPool DEF vars
<1>. QED  BY <1>1, <1>2, PTL DEF Spec, PoolSpec

-----------------------------------------------------------------------------
PartsOK == part \in [Claims -> Parts]

LEMMA PartsInit == Init => PartsOK
BY DEF Init, Parts, PartsOK

LEMMA PartsStep == PartsOK /\ [Next]_vars => PartsOK'
BY DEF Next, FindDrivers, Locate, FindBest, PoolWorks, vars, Parts, PartsOK

(* The goroutines, the store and the pool are well formed. *)
THEOREM DispatchTypeCorrect == Spec => []TypeOK
<1>1. Spec => []StoreTypeOK
  BY DispatchUsesStore, DriverStoreTypeCorrect
<1>2. Spec => []PoolTypeOK
  BY DispatchUsesPool, PoolTypeCorrect
<1>3. Spec => []PartsOK
  BY PartsInit, PartsStep, PTL DEF Spec
<1>4. StoreTypeOK /\ PoolTypeOK /\ PartsOK => TypeOK
  BY DEF TypeOK, PartsOK
<1>. QED  BY <1>1, <1>2, <1>3, <1>4, PTL

(* A dispatch whose lookup no other one overlaps is not dropped for a simulated
   timeout, also while the pool works for other dispatches and after lookups
   that did overlap.                                                         *)
THEOREM DispatchLookupSucceeds == Spec => []LookupSucceeds
BY DispatchUsesStore, ThreeAttemptsSuffice

(* Whatever lookups go on, the dispatch is answered with the best driver. *)
THEOREM DispatchAnswersBest == Spec => ImplementsBest
BY DispatchUsesPool, PoolImplementsBestAnswer

(* Nor does a dispatch wait in vain while others look up their drivers. *)
THEOREM DispatchNeverInVain == Spec => []NeverInVain
BY DispatchUsesPool, NobodyWaitsInVain

=============================================================================
