-------------------------- MODULE NotificationStore --------------------------
(***************************************************************************)
(* The notification store of pkg/notifications/handler.go: one JSON list   *)
(* per session, kept in Redis under a key that expires 30 seconds after    *)
(* its last write, and shared by the frontend, location, route and driver  *)
(* services.                                                               *)
(*                                                                         *)
(* Store is a read-modify-write of the whole list: WATCH and GET first,    *)
(* SETEX of the extended list later.  The write goes through tx.Pipeline,  *)
(* not tx.TxPipeline, so no MULTI/EXEC surrounds it and the WATCH has no   *)
(* effect: whatever another writer stored between the GET and the SETEX is *)
(* overwritten.  A Redis command is atomic; the steps of different callers *)
(* interleave between commands.                                            *)
(***************************************************************************)
EXTENDS Integers, Sequences

LOCAL INSTANCE SequencesExt

CONSTANTS Sessions,     \* session identifiers
          SerialSessions, \* those whose user requests one ride at a time
          IDs,          \* notification identifiers
          Bodies,       \* the rest of a notification: its time and its text
          Callers       \* goroutines, of any service, that may call Store

ASSUME SessionsAssumption == SerialSessions \subseteq Sessions

VARIABLES list,         \* Redis: the list under each key, <<>> if absent
          call          \* what each caller of Store is about to do

vars == <<list, call>>

Notifications == [session : Sessions, id : IDs, body : Bodies]

(* mutant: the session is left out of the key *)
SharedKey(s) == <<"session">>

(* fmt.Sprintf("session:%d", sessionID): a key per session. *)
SessionKey(s) == <<"session", s>>

Keys == {SessionKey(s) : s \in Sessions}

KeyOf(n) == SessionKey(n.session)

(* The identifiers of a list, in order, and as a set. *)
IDSeq(l) == [i \in DOMAIN l |-> l[i].id]
ListIDs(l) == {l[i].id : i \in DOMAIN l}

(* A caller outside Store, between WATCH and GET, and between GET and SETEX
   with the list it has read.                                              *)
Idle == [stage |-> "idle"]
Reading(n) == [stage |-> "get", note |-> n]
Writing(n, l) == [stage |-> "setex", note |-> n, seen |-> l]

InFlight(c) == call[c].stage # "idle"

Calls == [stage : {"idle"}]
            \cup [stage : {"get"}, note : Notifications]
            \cup [stage : {"setex"}, note : Notifications, seen : Seq(Notifications)]

-----------------------------------------------------------------------------
Init == /\ list = [k \in Keys |-> <<>>]
        /\ call = [c \in Callers |-> Idle]

(* The use one dispatch request makes of the store: its steps follow one
   another through synchronous calls and one Kafka message, and the only
   calls that overlap are those of the concurrent route requests, which all
   store the same identifier, each with its own time.                       *)
AloneOrSame(n) ==
    \A c \in Callers : InFlight(c) /\ call[c].note.session = n.session
                         => call[c].note.id = n.id

(* Store is called: the key is computed and WATCHed.  Sessions that request
   several rides at once have writers that overlap in any way.              *)
BeginStore(c, n) ==
    /\ ~InFlight(c)
    /\ n.session \in SerialSessions => AloneOrSame(n)
    /\ call' = [call EXCEPT ![c] = Reading(n)]
    /\ UNCHANGED list

(* The stored list already has this identifier: nothing is written. *)
AlreadyStored(c) ==
    /\ call[c].stage = "get"
    /\ call[c].note.id \in ListIDs(list[KeyOf(call[c].note)])
    /\ call' = [call EXCEPT ![c] = Idle]
    /\ UNCHANGED list

(* The list is read, and does not have the identifier. *)
ReadList(c) ==
    /\ call[c].stage = "get"
    /\ LET n == call[c].note
       IN  /\ n.id \notin ListIDs(list[KeyOf(n)])
           /\ call' = [call EXCEPT ![c] = Writing(n, list[KeyOf(n)])]
    /\ UNCHANGED list

(* mutants: the write appends to what the key holds by now (RPUSH), loses the
   body in the encoding, or forgets what was read                           *)
WriteToCurrent(c) ==
    /\ call[c].stage = "setex"
    /\ list' = [list EXCEPT ![KeyOf(call[c].note)] = Append(@, call[c].note)]
    /\ call' = [call EXCEPT ![c] = Idle]
WriteWithoutBody(c) ==
    /\ call[c].stage = "setex"
    /\ LET n == call[c].note
       IN  list' = [list EXCEPT ![KeyOf(n)] =
                        Append(call[c].seen, [session |-> n.session, id |-> n.id])]
    /\ call' = [call EXCEPT ![c] = Idle]
WriteOnlyNew(c) ==
    /\ call[c].stage = "setex"
    /\ list' = [list EXCEPT ![KeyOf(call[c].note)] = <<call[c].note>>]
    /\ call' = [call EXCEPT ![c] = Idle]

(* SETEX replaces whatever the key holds by the list read, extended. *)
WriteList(c) ==
    /\ call[c].stage = "setex"
    /\ list' = [list EXCEPT ![KeyOf(call[c].note)] =
                    Append(call[c].seen, call[c].note)]
    /\ call' = [call EXCEPT ![c] = Idle]

(* GET or SETEX fails.  Every caller of Store drops the error. *)
FailStore(c) ==
    /\ InFlight(c)
    /\ call' = [call EXCEPT ![c] = Idle]
    /\ UNCHANGED list

(* Redis drops a key that was not written for 30 seconds, which the steps of
   one request after the other keep from happening.                         *)
Expire(k) ==
    /\ k \notin {SessionKey(s) : s \in SerialSessions}
    /\ list[k] # <<>>
    /\ list' = [list EXCEPT ![k] = <<>>]
    /\ UNCHANGED call

(* A call goes on to its next command, or ends. *)
Progress(c) == AlreadyStored(c) \/ ReadList(c) \/ WriteList(c) \/ FailStore(c)

Next == \/ \E c \in Callers, n \in Notifications : BeginStore(c, n)
        \/ \E c \in Callers : Progress(c)
        \/ \E k \in Keys : Expire(k)

Spec == Init /\ [][Next]_vars

-----------------------------------------------------------------------------
(* Every key holds a list of notifications, and a caller that is about to
   write remembers the list it read.                                        *)
TypeOK == /\ list \in [Keys -> Seq(Notifications)]
          /\ call \in [Callers -> Calls]

(* The de-duplication of Store: however the calls overlap, fail or outlive
   the key, no identifier is twice in a stored list, so that the browser,
   which does no de-duplication of its own, shows a step once.  It rests on
   SETEX writing the list that was searched and not the current one.        *)
UniqueIDs == \A k \in Keys : \A i, j \in DOMAIN list[k] :
                list[k][i].id = list[k][j].id => i = j

(* Sessions do not see one another's notifications: what is under a key was
   stored for that session, also when its writers overlap those of others.  *)
OwnSession == \A s \in Sessions : \A i \in DOMAIN list[SessionKey(s)] :
                 list[SessionKey(s)][i].session = s

(* "apply the changes inside a transaction", "run the transaction" (Store):
   as long as the key does not expire, a write of one service must keep what
   the others have stored.                                                  *)
KeepsStored == [][\A k \in Keys : list'[k] # <<>> => IsPrefix(list[k], list'[k])]_vars

(* The steps each serial session has gone through, as its list shows them. *)
Log == INSTANCE AppendLog WITH
          Sessions <- SerialSessions,
          log <- [s \in SerialSessions |-> IDSeq(list[SessionKey(s)])]

(* Writers that overlap on the same identifier only build an append-only log:
   no notification is lost, repeated or moved, although each write replaces
   the whole list, and whatever the writers of other sessions do meanwhile.  *)
ImplementsLog == Log!LogSpec

=============================================================================
