------------------------- MODULE NotificationPolling -------------------------
(***************************************************************************)
(* How the browser follows the notifications of its session.               *)
(*                                                                         *)
(* The page (react_app/src/pages/home.tsx) asks for the notifications      *)
(* after its cursor every two seconds.  The timer does not wait for the    *)
(* previous answer, so several polls may be under way, each with the       *)
(* cursor read when it started, and their answers arrive in any order.     *)
(* The frontend answers with List (pkg/notifications/handler.go) from the  *)
(* list under the session's key, which Redis may drop.  The services add   *)
(* to it with a GET and a SETEX of the whole list (Store), and the second  *)
(* replaces whatever has been stored since the first.                      *)
(*                                                                         *)
(* The k-th notification stored for the session is the number k.           *)
(***************************************************************************)
EXTENDS Integers, Sequences

CONSTANTS Writers,      \* who stores notifications for the session
          Polls,        \* polls that may be under way at once
          MaxStored     \* bound on the notifications stored for the session

ASSUME MaxStoredAssumption == MaxStored \in Nat

VARIABLES log,          \* the list under the session's key, <<>> if absent
          stored,       \* how many notifications were stored so far
          seen,         \* the lists that the Stores under way have read
          overwritten,  \* history: a Store replaced another list than it had read
          cursor,       \* notificationCursorRef.current
          poll,         \* the polls under way
          shown,        \* the entries added to the page's logs, in order
          overlapped    \* history: a poll started before another was done

storeVars == <<log, stored, seen, overwritten>>
pollVars == <<storeVars, cursor, poll, shown, overlapped>>

Entries == 1..MaxStored

Cursors == -1..(MaxStored - 1)

(* No poll, a request on its way to the frontend, an answer on its way back. *)
NoPoll == [stage |-> "none"]
Asking(c) == [stage |-> "ask", cursor |-> c]
Answered(r) == [stage |-> "answer", resp |-> r]

Responses == [cursor : Cursors, notifications : Seq(Entries)]

PollStates == [stage : {"none"}]
                \cup [stage : {"ask"}, cursor : Cursors]
                \cup [stage : {"answer"}, resp : Responses]

(* mutant: a cursor on the last entry is reset too *)
StartIndexLast(l, c) == IF c >= Len(l) - 1 THEN -1 ELSE c

(* The check of List on the cursor, a 0-based index that starts at -1. *)
StartIndex(l, c) == IF c > Len(l) THEN -1 ELSE c

(* mutant: the loop leaves the last entry out *)
ResponseButLast(l, c) ==
    LET from == StartIndex(l, c)
    IN  [cursor        |-> IF from + 2 < Len(l) THEN Len(l) - 2 ELSE from,
         notifications |-> SubSeq(l, from + 2, Len(l) - 1)]

(* What List answers: the entries after the cursor and the last index. *)
ListResponse(l, c) ==
    LET from == StartIndex(l, c)
    IN  [cursor        |-> IF from + 1 < Len(l) THEN Len(l) - 1 ELSE from,
         notifications |-> SubSeq(l, from + 2, Len(l))]

-----------------------------------------------------------------------------
PollInit == /\ log = <<>>
            /\ stored = 0
            /\ seen = [w \in Writers |-> {}]
            /\ overwritten = FALSE
            /\ cursor = -1
            /\ poll = [p \in Polls |-> NoPoll]
            /\ shown = <<>>
            /\ overlapped = FALSE

(* GET: a Store reads the list (see NotificationStore). *)
Read(w) == /\ seen' = [seen EXCEPT ![w] = @ \cup {log}]
           /\ UNCHANGED <<log, stored, overwritten, cursor, poll, shown, overlapped>>

(* A Store that has read the list l is done; another one of the same writer may
   have read the same list.                                                  *)
Ends(w, l) == seen' \in {seen, [seen EXCEPT ![w] = @ \ {l}]}

(* SETEX: the list that was read and the next notification. *)
Write(w, l) == /\ stored < MaxStored
               /\ stored' = stored + 1
               /\ log' = Append(l, stored + 1)
               /\ overwritten' = (overwritten \/ log # l)
               /\ Ends(w, l)
               /\ UNCHANGED <<cursor, poll, shown, overlapped>>

(* SETEX fails, or changes nothing. *)
GiveUp(w, l) == /\ Ends(w, l)
                /\ UNCHANGED <<log, stored, overwritten, cursor, poll, shown, overlapped>>

(* Redis drops the key. *)
Expire == /\ log # <<>>
          /\ log' = <<>>
          /\ UNCHANGED <<stored, seen, overwritten, cursor, poll, shown, overlapped>>

(* Another poll is under way. *)
Busy == \E q \in Polls : poll[q].stage # "none"

(* mutant: the timer's closure has captured the first cursor *)
StartPollCaptured(p) == /\ poll[p].stage = "none"
                        /\ poll' = [poll EXCEPT ![p] = Asking(-1)]
                        /\ overlapped' = (overlapped \/ Busy)
                        /\ UNCHANGED <<storeVars, cursor, shown>>

(* The timer fires: the cursor is read and the request sent. *)
StartPoll(p) == /\ poll[p].stage = "none"
                /\ poll' = [poll EXCEPT ![p] = Asking(cursor)]
                /\ overlapped' = (overlapped \/ Busy)
                /\ UNCHANGED <<storeVars, cursor, shown>>

(* The frontend serves the request from the list as it is now. *)
Answer(p) == /\ poll[p].stage = "ask"
             /\ poll' = [poll EXCEPT ![p] = Answered(ListResponse(log, poll[p].cursor))]
             /\ UNCHANGED <<storeVars, cursor, shown, overlapped>>

(* mutant: the cursor moves on by what was received *)
ShowAdvance(p) == /\ poll[p].stage = "answer"
                  /\ cursor' = cursor + Len(poll[p].resp.notifications)
                  /\ shown' = shown \o poll[p].resp.notifications
                  /\ poll' = [poll EXCEPT ![p] = NoPoll]
                  /\ UNCHANGED <<storeVars, overlapped>>

(* The answer is there: its cursor is taken over, its entries are added. *)
Show(p) == /\ poll[p].stage = "answer"
           /\ cursor' = poll[p].resp.cursor
           /\ shown' = shown \o poll[p].resp.notifications
           /\ poll' = [poll EXCEPT ![p] = NoPoll]
           /\ UNCHANGED <<storeVars, overlapped>>

(* The request or its answer is lost: apiGet rejects, nothing is updated. *)
PollFails(p) == /\ poll[p].stage # "none"
                /\ poll' = [poll EXCEPT ![p] = NoPoll]
                /\ UNCHANGED <<storeVars, cursor, shown, overlapped>>

PollStep(p) == StartPoll(p) \/ Answer(p) \/ Show(p) \/ PollFails(p)

PollNext == \/ \E w \in Writers : Read(w) \/ \E l \in seen[w] : Write(w, l) \/ GiveUp(w, l)
            \/ Expire
            \/ \E p \in Polls : PollStep(p)

PollSpec == PollInit /\ [][PollNext]_pollVars

-----------------------------------------------------------------------------
PollTypeOK == /\ log \in Seq(Entries)
              /\ stored \in 0..MaxStored
              /\ seen \in [Writers -> SUBSET Seq(Entries)]
              /\ overwritten \in BOOLEAN
              /\ cursor \in Cursors
              /\ poll \in [Polls -> PollStates]
              /\ shown \in Seq(Entries)
              /\ overlapped \in BOOLEAN

IsShown(e) == \E i \in DOMAIN shown : shown[i] = e

(* The list is kept: the key never expired, as the notifications were stored less
   than 30 seconds apart, and no Store replaced a list other than the one it had
   read.                                                                     *)
Kept == ~overwritten /\ stored = Len(log)

(* As long as the list is kept, the cursor never runs ahead of the page,
   however many polls overlap and in whatever order they are answered: what is
   at or before it was shown, so asking only for what comes after it skips
   nothing.                                                                  *)
NoGap == Kept => \A i \in 1..(cursor + 1) : i \in DOMAIN log /\ IsShown(log[i])

(* When every poll was answered before the next one started, and as long as
   the list is kept, the page shows the list up to the cursor: each entry once
   and in the order of the list.                                             *)
ExactlyOnce == Kept /\ ~overlapped => shown = SubSeq(log, 1, cursor + 1)

(* Even when the key expires, between two polls or during one, and the list
   starts over, a page whose polls did not overlap never shows an entry twice
   nor out of the order in which they were stored, unless a Store replaced a list
   other than the one it had read: the reset of the cursor happens only when the
   list is one that the page has not read.                                   *)
NeverTwice == ~overlapped /\ ~overwritten => \A i, j \in DOMAIN shown : i < j => shown[i] < shown[j]

(* Whatever is stored is shown in the end, although polls overlap and fail,
   unless the list is not kept.                                              *)
EventuallyShown == \A e \in Entries : stored >= e ~> (IsShown(e) \/ ~Kept)

(* "check cursor", "reset cursor" (List): a cursor that points behind the list
   is reset, so that an answer's cursor is the index of an entry of the list,
   or -1.                                                                    *)
CursorReset == [][\A p \in Polls : Answer(p) => poll'[p].resp.cursor < Len(log)]_pollVars

=============================================================================
