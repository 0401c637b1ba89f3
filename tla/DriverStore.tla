------------------------------ MODULE DriverStore ------------------------------
(***************************************************************************)
(* The driver lookup of services/driver/driverstore.go.  It simulates a    *)
(* store that times out: checkError counts the calls of all goroutines     *)
(* under a lock and fails one in errorFreq.  GetDriversLocation gives      *)
(* every driver three attempts, and the dispatch is dropped (consumer.go)  *)
(* when one driver used them up.                                           *)
(*                                                                         *)
(* There is one goroutine per partition a consumer has claimed             *)
(* (ConsumeClaim), and all share the store and so its counter.             *)
(***************************************************************************)
EXTENDS Integers, DispatchClaims

CONSTANT Freqs          \* values of DRIVERSTORE_ERROR_FREQ

ASSUME StoreAssumption == Freqs \subseteq Int

VARIABLES errorFreq,        \* errorSimulator: read from the environment once
          countTillError,   \* errorSimulator: calls left, under its lock
          lookup,           \* where the GetDriversLocation of each claim is
          since,            \* history: calls that succeeded since the last timeout
          crowded           \* history: claims whose lookup, under way or failed, another
                            \* one overlapped

storeVars == <<errorFreq, countTillError, lookup, since, crowded>>

MaxAttempts == 3

Ended == {"idle", "found", "failed"}

Getting(d, a) == [stage |-> "get", driver |-> d, attempt |-> a]
End(stage) == [stage |-> stage]

Lookups == [stage : Ended]
             \cup [stage : {"get"}, driver : 1..Drivers, attempt : 1..MaxAttempts]

-----------------------------------------------------------------------------
StoreInit ==
    /\ errorFreq \in Freqs
    /\ countTillError = 0
    /\ lookup = [c \in Claims |-> End("idle")]
    /\ since = errorFreq - 1
    /\ crowded = {}

(* The other lookups under way. *)
Others(c) == {d \in Claims \ {c} : lookup[d].stage = "get"}

(* FindDriverIDs has returned its drivers, GetDriversLocation starts. *)
Begin(c) ==
    /\ lookup[c].stage \in Ended
    /\ lookup' = [lookup EXCEPT ![c] = Getting(1, 1)]
    /\ crowded' = IF Others(c) = {} THEN crowded \ {c} ELSE crowded \cup Others(c) \cup {c}
    /\ UNCHANGED <<errorFreq, countTillError, since>>

(* checkError fails the call whose decrement leaves nothing to count. *)
TimesOut == errorFreq # 0 /\ countTillError - 1 <= 0

(* The location of a driver is found: on to the next driver. *)
GetDriver(c) ==
    /\ lookup[c].stage = "get"
    /\ ~TimesOut
    /\ countTillError' = IF errorFreq = 0 THEN countTillError ELSE countTillError - 1
    /\ lookup' = [lookup EXCEPT ![c] = IF @.driver = Drivers THEN End("found")
                                       ELSE Getting(@.driver + 1, 1)]
    /\ since' = IF errorFreq = 0 THEN since ELSE since + 1
    /\ crowded' = IF lookup[c].driver = Drivers THEN crowded \ {c} ELSE crowded
    /\ UNCHANGED errorFreq

(* mutants: the counter is not set again, or set again to one too many *)
TimeoutNoReset(c) ==
    /\ lookup[c].stage = "get" /\ TimesOut
    /\ countTillError' = countTillError - 1
    /\ lookup' = [lookup EXCEPT ![c] = IF @.attempt = MaxAttempts THEN End("failed")
                                       ELSE Getting(@.driver, @.attempt + 1)]
    /\ since' = 0
    /\ UNCHANGED <<errorFreq, crowded>>
TimeoutResetTo1(c) ==
    /\ lookup[c].stage = "get" /\ TimesOut
    /\ countTillError' = errorFreq + 1
    /\ lookup' = [lookup EXCEPT ![c] = IF @.attempt = MaxAttempts THEN End("failed")
                                       ELSE Getting(@.driver, @.attempt + 1)]
    /\ since' = 0
    /\ UNCHANGED <<errorFreq, crowded>>
(* A simulated timeout: another attempt, or the end of the lookup. *)
Timeout(c) ==
    /\ lookup[c].stage = "get"
    /\ TimesOut
    /\ countTillError' = errorFreq
    /\ lookup' = [lookup EXCEPT ![c] = IF @.attempt = MaxAttempts THEN End("failed")
                                       ELSE Getting(@.driver, @.attempt + 1)]
    /\ since' = 0
    /\ UNCHANGED <<errorFreq, crowded>>

StoreNext == \E c \in Claims : Begin(c) \/ GetDriver(c) \/ Timeout(c)

StoreSpec == StoreInit /\ [][StoreNext]_storeVars

-----------------------------------------------------------------------------
(* A lookup in progress is at one of the drivers, in one of its attempts. *)
StoreTypeOK ==
    /\ errorFreq \in Freqs
    /\ countTillError \in Int
    /\ lookup \in [Claims -> Lookups]
    /\ since \in Int
    /\ crowded \subseteq Claims

(* "simulate timeout errors every x calls" (pkg/config/driver.go): whichever
   claims call, a call succeeds only while fewer than x - 1 have succeeded since
   the last timeout, and times out only when x - 1 have; the first call of all
   times out.                                                                *)
EveryXCalls ==
    [][errorFreq > 0 => \A c \in Claims : /\ GetDriver(c) => since < errorFreq - 1
                                          /\ Timeout(c) => since = errorFreq - 1]_storeVars

(* Enough calls succeed for some lookup to. *)
Enough == errorFreq = 0 \/ errorFreq >= 2

(* A lookup that no other lookup overlaps gets by with the three attempts:
   unless every call times out (x = 1, or a negative x), it does not fail,
   wherever in its list of drivers the counter runs down, whatever earlier
   lookups have left of the counter, and whatever became of them.  It rests on
   the reset of the counter, which all lookups share.                        *)
LookupSucceeds ==
    Enough => \A c \in Claims \ crowded : lookup[c].stage # "failed"

=============================================================================
