----------------------- MODULE NotificationStoreProofs -----------------------
(***************************************************************************)
(* Proofs about NotificationStore, for any sets of sessions, identifiers,  *)
(* bodies and callers.                                                     *)
(***************************************************************************)
EXTENDS NotificationStore, SequenceTheorems, TLAPS

-----------------------------------------------------------------------------
(* Lemmas on lists of notifications *)

Distinct(l) == \A i, j \in DOMAIN l : l[i].id = l[j].id => i = j

(* The key of a session determines the session. *)
LEMMA SessionKeyInjective ==
    ASSUME NEW s, NEW t, SessionKey(s) = SessionKey(t)
    PROVE  s = t
BY DEF SessionKey

LEMMA KeyOfNotification ==
    ASSUME NEW n \in Notifications
    PROVE  /\ n.session \in Sessions
           /\ n.id \in IDs
           /\ KeyOf(n) \in Keys
BY DEF Notifications, KeyOf, Keys

(* A list extended by a new identifier still names each identifier once. *)
LEMMA AppendDistinct ==
    ASSUME NEW l \in Seq(Notifications), NEW n \in Notifications,
           Distinct(l), n.id \notin ListIDs(l)
    PROVE  /\ Append(l, n) \in Seq(Notifications)
           /\ Distinct(Append(l, n))
BY DEF Distinct, ListIDs

(* The identifiers of an extended list. *)
LEMMA AppendIDSeq ==
    ASSUME NEW l \in Seq(Notifications), NEW n \in Notifications
    PROVE  /\ IDSeq(l) \in Seq(IDs)
           /\ IDSeq(Append(l, n)) = Append(IDSeq(l), n.id)
<1>1. IDSeq(l) \in Seq(IDs) /\ Len(IDSeq(l)) = Len(l)
  <2>1. /\ Len(l) \in Nat
        /\ DOMAIN l = 1..Len(l)
        /\ \A i \in 1..Len(l) : l[i].id \in IDs
    <3>1. Len(l) \in Nat /\ DOMAIN l = 1..Len(l)
      BY LenProperties
    <3>2. ASSUME NEW i \in 1..Len(l) PROVE l[i].id \in IDs
      <4>1. l[i] \in Notifications
        BY ElementOfSeq
      <4> QED  BY <4>1 DEF Notifications
    <3> QED  BY <3>1, <3>2
  <2>2. IDSeq(l) \in [1..Len(l) -> IDs]
    BY <2>1 DEF IDSeq
  <2> QED  BY <2>1, <2>2, SeqDef, LenProperties
<1>2. /\ DOMAIN IDSeq(Append(l, n)) = 1..(Len(l) + 1)
      /\ DOMAIN Append(IDSeq(l), n.id) = 1..(Len(l) + 1)
  BY <1>1, AppendProperties DEF IDSeq
<1>3. \A i \in 1..(Len(l) + 1) : IDSeq(Append(l, n))[i] = Append(IDSeq(l), n.id)[i]
  BY <1>1, AppendProperties DEF IDSeq
<1> QED  BY <1>1, <1>2, <1>3 DEF IDSeq

-----------------------------------------------------------------------------
(* Type correctness *)

LEMMA TypeInit == Init => TypeOK
BY EmptySeq DEF Init, TypeOK, Idle, Calls

(* One lemma for the steps of Store and one for the key's expiry. *)
LEMMA TypeStep ==
    ASSUME TypeOK, [Next]_vars
    PROVE  TypeOK'
<1>1. CASE UNCHANGED vars
  BY <1>1 DEF vars, TypeOK
<1>2. ASSUME NEW c \in Callers, NEW n \in Notifications, BeginStore(c, n)
      PROVE  TypeOK'
  BY <1>2 DEF TypeOK, BeginStore, Reading, Calls
<1>3. ASSUME NEW c \in Callers, AlreadyStored(c) \/ FailStore(c)
      PROVE  TypeOK'
  BY <1>3 DEF TypeOK, AlreadyStored, FailStore, Idle, Calls
<1>4. ASSUME NEW c \in Callers, ReadList(c)
      PROVE  TypeOK'
  <2>1. call[c].note \in Notifications
    BY <1>4 DEF TypeOK, ReadList, Calls
  <2>2. list[KeyOf(call[c].note)] \in Seq(Notifications)
    BY <2>1, KeyOfNotification DEF TypeOK
  <2> QED  BY <1>4, <2>1, <2>2 DEF TypeOK, ReadList, Writing, Calls
<1>5. ASSUME NEW c \in Callers, WriteList(c)
      PROVE  TypeOK'
  <2>1. call[c].note \in Notifications /\ call[c].seen \in Seq(Notifications)
    BY <1>5 DEF TypeOK, WriteList, Calls
  <2>2. Append(call[c].seen, call[c].note) \in Seq(Notifications)
    BY <2>1
  <2> QED  BY <1>5, <2>1, <2>2, KeyOfNotification DEF TypeOK, WriteList, Idle, Calls
<1>6. ASSUME NEW k \in Keys, Expire(k)
      PROVE  TypeOK'
  BY <1>6, EmptySeq DEF TypeOK, Expire
<1> QED
  BY <1>1, <1>2, <1>3, <1>4, <1>5, <1>6 DEF Next, Progress

(* The state of the store and of its callers is always well formed. *)
THEOREM TypeCorrect == Spec => []TypeOK
<1>1. Init => TypeOK
  BY TypeInit
<1>2. TypeOK /\ [Next]_vars => TypeOK'
  BY TypeStep
<1> QED  BY <1>1, <1>2, PTL DEF Spec

-----------------------------------------------------------------------------
(* No identifier twice, whatever overlaps.  The invariant that makes this  *)
(* inductive says what a caller about to write has read: a list without    *)
(* repetition, without its own identifier, and of its own session.  The    *)
(* list under the key may have become anything meanwhile.                  *)

OfKey(l, k) == \A i \in DOMAIN l : KeyOf(l[i]) = k

KeysOK == \A k \in Keys : Distinct(list[k]) /\ OfKey(list[k], k)

SeenOK == \A c \in Callers : call[c].stage = "setex" =>
            /\ Distinct(call[c].seen)
            /\ call[c].note.id \notin ListIDs(call[c].seen)
            /\ OfKey(call[c].seen, KeyOf(call[c].note))

StoreInv == TypeOK /\ KeysOK /\ SeenOK

LEMMA StoreInvInit == Init => StoreInv
<1> SUFFICES ASSUME Init PROVE StoreInv
  OBVIOUS
<1>1. \A k \in Keys : DOMAIN list[k] = {}
  BY DEF Init
<1>2. \A c \in Callers : call[c].stage = "idle"
  BY DEF Init, Idle
<1> QED  BY <1>1, <1>2, TypeInit DEF StoreInv, KeysOK, Distinct, OfKey, SeenOK

(* The caller keeps the list it has just searched. *)
LEMMA ReadListStep ==
    ASSUME StoreInv, NEW c \in Callers, ReadList(c)
    PROVE  SeenOK'
<1> DEFINE n == call[c].note
           l == list[KeyOf(n)]
<1>1. n \in Notifications /\ KeyOf(n) \in Keys
  BY KeyOfNotification DEF StoreInv, TypeOK, ReadList, Calls
<1>2. Distinct(l) /\ OfKey(l, KeyOf(n)) /\ n.id \notin ListIDs(l)
  BY <1>1 DEF StoreInv, KeysOK, ReadList
<1>3. call' = [call EXCEPT ![c] = Writing(n, l)]
  BY DEF ReadList
<1> SUFFICES ASSUME NEW d \in Callers, call'[d].stage = "setex"
             PROVE  /\ Distinct(call'[d].seen)
                    /\ call'[d].note.id \notin ListIDs(call'[d].seen)
                    /\ OfKey(call'[d].seen, KeyOf(call'[d].note))
  BY DEF SeenOK, KeyOf, ListIDs, Distinct, OfKey
<1>4. CASE d = c
  <2>1. call'[d] = [stage |-> "setex", note |-> n, seen |-> l]
    BY <1>3, <1>4 DEF StoreInv, TypeOK, Writing
  <2> QED  BY <1>2, <2>1
<1>5. CASE d # c
  <2>1. call'[d] = call[d]
    BY <1>3, <1>5 DEF StoreInv, TypeOK
  <2> QED  BY <2>1 DEF StoreInv, SeenOK
<1> QED  BY <1>4, <1>5

(* What a caller writes is the list it has read, extended by its own
   notification: the key's list is without repetition again.                *)
LEMMA WriteListStep ==
    ASSUME StoreInv, NEW c \in Callers, WriteList(c)
    PROVE  KeysOK' /\ SeenOK'
<1> DEFINE n == call[c].note
           l == call[c].seen
           k == KeyOf(n)
<1>1. n \in Notifications /\ l \in Seq(Notifications) /\ k \in Keys
  BY KeyOfNotification DEF StoreInv, TypeOK, WriteList, Calls
<1>2. Distinct(l) /\ n.id \notin ListIDs(l) /\ OfKey(l, k)
  BY DEF StoreInv, SeenOK, WriteList
<1>3. Distinct(Append(l, n))
  BY <1>1, <1>2, AppendDistinct
<1>4. OfKey(Append(l, n), k)
  BY <1>1, <1>2 DEF OfKey
<1>5. \A j \in Keys : Distinct(list'[j]) /\ OfKey(list'[j], j)
  <2> SUFFICES ASSUME NEW j \in Keys PROVE Distinct(list'[j]) /\ OfKey(list'[j], j)
    OBVIOUS
  <2>1. CASE j = k
    BY <1>1, <1>3, <1>4, <2>1 DEF StoreInv, TypeOK, WriteList
  <2>2. CASE j # k
    <3>1. list'[j] = list[j]
      BY <2>2 DEF StoreInv, TypeOK, WriteList
    <3> QED  BY <3>1 DEF StoreInv, KeysOK
  <2> QED  BY <2>1, <2>2
<1>6. KeysOK'
  BY <1>5 DEF KeysOK, Distinct, OfKey
<1>7. \A d \in Callers : call'[d] = call[d] \/ call'[d].stage = "idle"
  BY DEF StoreInv, TypeOK, WriteList, Idle
<1>8. SeenOK'
  BY <1>7 DEF StoreInv, SeenOK, KeyOf, ListIDs, Distinct, OfKey
<1> QED  BY <1>6, <1>8

LEMMA StoreInvStep ==
    ASSUME StoreInv, [Next]_vars
    PROVE  StoreInv'
<1>1. TypeOK'
  BY TypeStep DEF StoreInv
<1>2. CASE UNCHANGED vars
  BY <1>1, <1>2 DEF vars, StoreInv, KeysOK, SeenOK, KeyOf, ListIDs, Distinct, OfKey
<1>3. ASSUME list' = list,
             \A d \in Callers : call'[d] = call[d] \/ call'[d].stage # "setex"
      PROVE  StoreInv'
  BY <1>1, <1>3 DEF StoreInv, KeysOK, SeenOK, KeyOf, ListIDs, Distinct, OfKey
<1>4. ASSUME NEW c \in Callers, NEW n \in Notifications, BeginStore(c, n)
      PROVE  StoreInv'
  BY <1>3, <1>4 DEF StoreInv, TypeOK, BeginStore, Reading
<1>5. ASSUME NEW c \in Callers, AlreadyStored(c) \/ FailStore(c)
      PROVE  StoreInv'
  BY <1>3, <1>5 DEF StoreInv, TypeOK, AlreadyStored, FailStore, Idle
<1>6. ASSUME NEW c \in Callers, ReadList(c)
      PROVE  StoreInv'
  <2>1. KeysOK'
    BY <1>6 DEF StoreInv, KeysOK, Distinct, OfKey, KeyOf, ReadList
  <2> QED  BY <1>1, <1>6, <2>1, ReadListStep DEF StoreInv
<1>7. ASSUME NEW c \in Callers, WriteList(c)
      PROVE  StoreInv'
  BY <1>1, <1>7, WriteListStep DEF StoreInv
<1>8. ASSUME NEW k \in Keys, Expire(k)
      PROVE  StoreInv'
  <2>1. \A j \in Keys : list'[j] = list[j] \/ DOMAIN list'[j] = {}
    BY <1>8 DEF StoreInv, TypeOK, Expire
  <2>2. KeysOK'
    BY <2>1 DEF StoreInv, KeysOK, Distinct, OfKey, KeyOf
  <2>3. SeenOK'
    BY <1>8 DEF Expire, StoreInv, SeenOK, KeyOf, ListIDs, Distinct, OfKey
  <2> QED  BY <1>1, <2>2, <2>3 DEF StoreInv
<1> QED
  BY <1>2, <1>4, <1>5, <1>6, <1>7, <1>8 DEF Next, Progress

THEOREM StoreInvariant == Spec => []StoreInv
<1>1. StoreInv /\ [Next]_vars => StoreInv'
  BY StoreInvStep
<1> QED  BY <1>1, StoreInvInit, PTL DEF Spec

(* The de-duplication of Store holds for any number of overlapping, failing
   and expiring calls.                                                      *)
THEOREM IdentifiersStayUnique == Spec => []UniqueIDs
<1>1. StoreInv => UniqueIDs
  BY DEF StoreInv, KeysOK, Distinct, UniqueIDs
<1> QED  BY <1>1, StoreInvariant, PTL

(* A session never holds a notification of another one. *)
THEOREM SessionsStayApart == Spec => []OwnSession
<1>1. StoreInv => OwnSession
  <2> SUFFICES ASSUME StoreInv, NEW s \in Sessions, NEW i \in DOMAIN list[SessionKey(s)]
               PROVE  list[SessionKey(s)][i].session = s
    BY DEF OwnSession
  <2>1. KeyOf(list[SessionKey(s)][i]) = SessionKey(s)
    BY DEF StoreInv, KeysOK, OfKey, Keys
  <2> QED  BY <2>1, SessionKeyInjective DEF KeyOf
<1> QED  BY <1>1, StoreInvariant, PTL

-----------------------------------------------------------------------------
(* The writers of the serial sessions implement the append-only log.  A    *)
(* caller about to write has read the current list, or the other callers   *)
(* storing the same identifier have extended it meanwhile; its write then  *)
(* extends the log, or leaves its identifiers as they are.                 *)

SameID == \A c, d \in Callers :
            /\ InFlight(c) /\ InFlight(d)
            /\ call[c].note.session \in SerialSessions
            /\ call[c].note.session = call[d].note.session
            => call[c].note.id = call[d].note.id

WritesSerial(c) == call[c].stage = "setex" /\ call[c].note.session \in SerialSessions

SeenCurrent == \A c \in Callers : WritesSerial(c) =>
    LET now == IDSeq(list[KeyOf(call[c].note)])
    IN  \/ now = IDSeq(call[c].seen)
        \/ now = Append(IDSeq(call[c].seen), call[c].note.id)

SerialInv == StoreInv /\ SameID /\ SeenCurrent

LEMMA SerialInvInit == Init => SerialInv
BY StoreInvInit DEF Init, SerialInv, SameID, SeenCurrent, WritesSerial, InFlight, Idle

(* A write leaves the identifiers under every key as they are, or, in a serial
   session, appends the writer's.                                           *)
LEMMA SerialWrite ==
    ASSUME SerialInv, NEW c \in Callers, WriteList(c)
    PROVE  LET n == call[c].note
           IN  /\ n \in Notifications
               /\ \A k \in Keys : k # KeyOf(n) => list'[k] = list[k]
               /\ IDSeq(list'[KeyOf(n)]) = Append(IDSeq(call[c].seen), n.id)
               /\ n.session \in SerialSessions =>
                  \/ IDSeq(list'[KeyOf(n)]) = IDSeq(list[KeyOf(n)])
                  \/ /\ n.id \notin Log!Recorded(IDSeq(list[KeyOf(n)]))
                     /\ IDSeq(list'[KeyOf(n)]) = Append(IDSeq(list[KeyOf(n)]), n.id)
<1> DEFINE n == call[c].note
           l == call[c].seen
           k == KeyOf(n)
<1>1. n \in Notifications /\ l \in Seq(Notifications) /\ k \in Keys
  BY KeyOfNotification DEF SerialInv, StoreInv, TypeOK, WriteList, Calls
<1>2. /\ list'[k] = Append(l, n)
      /\ \A j \in Keys : j # k => list'[j] = list[j]
  BY <1>1 DEF SerialInv, StoreInv, TypeOK, WriteList
<1>3. IDSeq(list'[k]) = Append(IDSeq(l), n.id)
  BY <1>1, <1>2, AppendIDSeq
<1>4. n.session \in SerialSessions => \/ IDSeq(list[k]) = IDSeq(l)
                                      \/ IDSeq(list[k]) = Append(IDSeq(l), n.id)
  BY DEF SerialInv, SeenCurrent, WritesSerial, WriteList
<1>5. n.id \notin Log!Recorded(IDSeq(l))
  BY <1>1 DEF SerialInv, StoreInv, SeenOK, WriteList, ListIDs, IDSeq, Log!Recorded
<1> QED  BY <1>1, <1>2, <1>3, <1>4, <1>5

LEMMA SameIDStep ==
    ASSUME SerialInv, [Next]_vars
    PROVE  SameID'
<1> USE DEF SerialInv, StoreInv, TypeOK, SameID, InFlight
<1>1. CASE UNCHANGED vars
  BY <1>1 DEF vars
<1>2. ASSUME NEW c \in Callers, NEW n \in Notifications, BeginStore(c, n)
      PROVE  SameID'
  BY <1>2 DEF AloneOrSame, BeginStore, Reading
<1>3. ASSUME NEW c \in Callers, ReadList(c)
      PROVE  SameID'
  BY <1>3 DEF ReadList, Writing
<1>4. ASSUME NEW c \in Callers, AlreadyStored(c) \/ FailStore(c) \/ WriteList(c)
      PROVE  SameID'
  BY <1>4 DEF AlreadyStored, FailStore, WriteList, Idle
<1>5. ASSUME NEW k \in Keys, Expire(k)
      PROVE  SameID'
  BY <1>5 DEF Expire
<1> QED  BY <1>1, <1>2, <1>3, <1>4, <1>5 DEF Next, Progress

LEMMA SeenCurrentStep ==
    ASSUME SerialInv, [Next]_vars
    PROVE  SeenCurrent'
<1>1. ASSUME list' = list,
             \A d \in Callers : call'[d] = call[d] \/ call'[d].stage # "setex"
      PROVE  SeenCurrent'
  BY <1>1 DEF SerialInv, SeenCurrent, WritesSerial, KeyOf, IDSeq
<1>2. CASE UNCHANGED vars
  BY <1>1, <1>2 DEF vars
<1>3. ASSUME NEW c \in Callers, NEW n \in Notifications, BeginStore(c, n)
      PROVE  SeenCurrent'
  BY <1>1, <1>3 DEF SerialInv, StoreInv, TypeOK, BeginStore, Reading
<1>4. ASSUME NEW c \in Callers, AlreadyStored(c) \/ FailStore(c)
      PROVE  SeenCurrent'
  BY <1>1, <1>4 DEF SerialInv, StoreInv, TypeOK, AlreadyStored, FailStore, Idle
<1>5. ASSUME NEW c \in Callers, ReadList(c)
      PROVE  SeenCurrent'
  <2> SUFFICES ASSUME NEW d \in Callers, WritesSerial(d)'
               PROVE  LET now == IDSeq(list'[KeyOf(call'[d].note)])
                      IN  \/ now = IDSeq(call'[d].seen)
                          \/ now = Append(IDSeq(call'[d].seen), call'[d].note.id)
    BY DEF SeenCurrent, KeyOf, IDSeq
  <2>1. CASE d = c
    BY <1>5, <2>1 DEF SerialInv, StoreInv, TypeOK, ReadList, Writing, WritesSerial
  <2>2. CASE d # c
    <3>1. call'[d] = call[d] /\ list' = list
      BY <1>5, <2>2 DEF SerialInv, StoreInv, TypeOK, ReadList
    <3> QED  BY <3>1 DEF SerialInv, SeenCurrent, WritesSerial
  <2> QED  BY <2>1, <2>2
<1>6. ASSUME NEW c \in Callers, WriteList(c)
      PROVE  SeenCurrent'
  <2> DEFINE n == call[c].note
  <2> SUFFICES ASSUME NEW d \in Callers, WritesSerial(d)'
               PROVE  LET now == IDSeq(list'[KeyOf(call'[d].note)])
                      IN  \/ now = IDSeq(call'[d].seen)
                          \/ now = Append(IDSeq(call'[d].seen), call'[d].note.id)
    BY DEF SeenCurrent, KeyOf, IDSeq
  <2>1. d # c /\ call'[d] = call[d] /\ WritesSerial(d)
    BY <1>6 DEF WritesSerial, SerialInv, StoreInv, TypeOK, WriteList, Idle
  <2>2. call[d].note \in Notifications /\ KeyOf(call[d].note) \in Keys
    BY <2>1, KeyOfNotification DEF SerialInv, StoreInv, TypeOK, Calls, WritesSerial
  <2>3. n \in Notifications
    BY <1>6, SerialWrite
  <2>4. CASE KeyOf(call[d].note) # KeyOf(n)
    <3>1. list'[KeyOf(call[d].note)] = list[KeyOf(call[d].note)]
      BY <1>6, <2>2, <2>4, SerialWrite
    <3> QED  BY <2>1, <3>1 DEF SerialInv, SeenCurrent
  <2>5. CASE KeyOf(call[d].note) = KeyOf(n)
    <3>1. call[d].note.session = n.session
      BY <2>5, SessionKeyInjective DEF KeyOf
    <3>2. call[d].note.id = n.id
      BY <1>6, <2>1, <3>1 DEF SerialInv, SameID, InFlight, WriteList, WritesSerial
    <3> DEFINE old == IDSeq(list[KeyOf(n)])
               now == IDSeq(list'[KeyOf(n)])
    <3>3. \/ old = IDSeq(call[d].seen)
          \/ old = Append(IDSeq(call[d].seen), n.id)
      BY <2>1, <2>5, <3>2 DEF SerialInv, SeenCurrent
    <3>4. \/ now = old
          \/ n.id \notin Log!Recorded(old) /\ now = Append(old, n.id)
      BY <1>6, <2>1, <3>1, SerialWrite DEF WritesSerial
    <3>5. call[d].seen \in Seq(Notifications)
      BY <2>1 DEF SerialInv, StoreInv, TypeOK, Calls, WritesSerial
    <3>6. old = Append(IDSeq(call[d].seen), n.id) => n.id \in Log!Recorded(old)
      BY <2>3, <3>5, AppendIDSeq, KeyOfNotification, AppendProperties DEF Log!Recorded
    <3>7. now = IDSeq(call[d].seen) \/ now = Append(IDSeq(call[d].seen), n.id)
      BY <3>3, <3>4, <3>6
    <3> QED  BY <2>1, <2>5, <3>2, <3>7
  <2> QED  BY <2>4, <2>5
<1>7. ASSUME NEW k \in Keys, Expire(k)
      PROVE  SeenCurrent'
  <2> SUFFICES ASSUME NEW d \in Callers, WritesSerial(d)'
               PROVE  LET now == IDSeq(list'[KeyOf(call'[d].note)])
                      IN  \/ now = IDSeq(call'[d].seen)
                          \/ now = Append(IDSeq(call'[d].seen), call'[d].note.id)
    BY DEF SeenCurrent, KeyOf, IDSeq
  <2>1. call'[d] = call[d] /\ WritesSerial(d) /\ KeyOf(call[d].note) # k
    BY <1>7 DEF Expire, WritesSerial, KeyOf
  <2>2. KeyOf(call[d].note) \in Keys
    BY <2>1, KeyOfNotification DEF SerialInv, StoreInv, TypeOK, Calls, WritesSerial
  <2>3. list'[KeyOf(call[d].note)] = list[KeyOf(call[d].note)]
    BY <1>7, <2>1, <2>2 DEF Expire, SerialInv, StoreInv, TypeOK
  <2> QED  BY <2>1, <2>3 DEF SerialInv, SeenCurrent
<1> QED  BY <1>2, <1>3, <1>4, <1>5, <1>6, <1>7 DEF Next, Progress

LEMMA SerialInvStep ==
    ASSUME SerialInv, [Next]_vars
    PROVE  SerialInv'
BY StoreInvStep, SameIDStep, SeenCurrentStep DEF SerialInv

(* Every step of the serial store is a step of the log, or changes nothing. *)
LEMMA SerialStepSimulation ==
    ASSUME SerialInv, [Next]_vars
    PROVE  [Log!LogNext]_([s \in SerialSessions |-> IDSeq(list[SessionKey(s)])])
<1> DEFINE log == [s \in SerialSessions |-> IDSeq(list[SessionKey(s)])]
<1>1. ASSUME list' = list PROVE log' = log
  BY <1>1 DEF SessionKey, IDSeq
<1>2. ASSUME NEW c \in Callers, WriteList(c)
      PROVE  Log!LogNext \/ log' = log
  <2> DEFINE n == call[c].note
             s == n.session
  <2>1. n \in Notifications /\ s \in Sessions /\ n.id \in IDs /\ KeyOf(n) = SessionKey(s)
    BY <1>2, SerialWrite, KeyOfNotification DEF KeyOf
  <2>2. \A t \in SerialSessions : t # s => IDSeq(list'[SessionKey(t)]) = IDSeq(list[SessionKey(t)])
    <3> TAKE t \in SerialSessions
    <3> HAVE t # s
    <3>1. SessionKey(t) \in Keys /\ SessionKey(t) # KeyOf(n)
      BY <2>1, SessionKeyInjective, SessionsAssumption DEF Keys
    <3> QED  BY <1>2, <3>1, SerialWrite
  <2> DEFINE view(l, t) == IDSeq(l[SessionKey(t)])
  <2>3. log = [t \in SerialSessions |-> view(list, t)] /\ log' = [t \in SerialSessions |-> view(list', t)]
    BY DEF SessionKey, IDSeq
  <2>4. \A t \in SerialSessions : t # s => view(list', t) = view(list, t)
    BY <2>2
  <2> HIDE DEF log
  <2>7. CASE s \notin SerialSessions
    <3> HIDE DEF view
    <3> QED  BY <2>3, <2>4, <2>7
  <2>5. CASE IDSeq(list'[KeyOf(n)]) = IDSeq(list[KeyOf(n)])
    <3>1. view(list', s) = view(list, s)
      BY <2>1, <2>5
    <3> HIDE DEF view
    <3> QED  BY <2>3, <2>4, <3>1
  <2>6. CASE /\ s \in SerialSessions
             /\ n.id \notin Log!Recorded(IDSeq(list[KeyOf(n)]))
             /\ IDSeq(list'[KeyOf(n)]) = Append(IDSeq(list[KeyOf(n)]), n.id)
    <3>1. log' = [log EXCEPT ![s] = Append(@, n.id)]
      <4>1. view(list', s) = Append(view(list, s), n.id)
        BY <2>1, <2>6
      <4> HIDE DEF view
      <4> QED  BY <2>1, <2>3, <2>4, <2>6, <4>1
    <3>2. n.id \notin Log!Recorded(log[s])
      BY <2>1, <2>3, <2>6
    <3>3. Log!Record(s, n.id)
      BY <3>1, <3>2 DEF Log!Record, log
    <3> QED  BY <2>1, <2>6, <3>3 DEF Log!LogNext, log
  <2> QED  BY <1>2, <2>5, <2>6, <2>7, SerialWrite
<1>3. ASSUME NEW k \in Keys, Expire(k)
      PROVE  log' = log
  <2>1. \A s \in SerialSessions : list'[SessionKey(s)] = list[SessionKey(s)]
    <3> TAKE s \in SerialSessions
    <3>1. SessionKey(s) \in Keys /\ SessionKey(s) # k
      BY <1>3, SessionsAssumption DEF Expire, Keys
    <3> QED  BY <1>3, <3>1 DEF Expire, SerialInv, StoreInv, TypeOK
  <2> DEFINE view(l, t) == IDSeq(l[SessionKey(t)])
  <2>2. \A t \in SerialSessions : view(list', t) = view(list, t)
    BY <2>1
  <2>3. log = [t \in SerialSessions |-> view(list, t)] /\ log' = [t \in SerialSessions |-> view(list', t)]
    BY DEF SessionKey, IDSeq
  <2> HIDE DEF view, log
  <2> QED  BY <2>2, <2>3
<1> QED
  BY <1>1, <1>2, <1>3 DEF Next, Progress, vars, BeginStore, AlreadyStored, ReadList, FailStore

(* The store implements AppendLog for the serial sessions: what the steps of
   one dispatch request record is never lost, repeated or reordered, however
   the writers of the other sessions overlap.                               *)
THEOREM SerialImplementsLog == Spec => ImplementsLog
<1>1. Init => Log!LogInit
  <2> SUFFICES ASSUME Init PROVE Log!LogInit
    OBVIOUS
  <2>1. \A s \in SerialSessions : IDSeq(list[SessionKey(s)]) = <<>>
    BY SessionsAssumption DEF Init, Keys, IDSeq
  <2> QED  BY <2>1 DEF Log!LogInit
<1>2. SerialInv /\ [Next]_vars => SerialInv'
  BY SerialInvStep
<1>3. SerialInv /\ [Next]_vars
        => [Log!LogNext]_([s \in SerialSessions |-> IDSeq(list[SessionKey(s)])])
  BY SerialStepSimulation
<1> QED
  BY <1>1, <1>2, <1>3, SerialInvInit, PTL DEF Spec, ImplementsLog, Log!LogSpec

=============================================================================
