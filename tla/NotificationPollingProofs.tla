---------------------- MODULE NotificationPollingProofs ----------------------
(***************************************************************************)
(* Proofs about NotificationPolling, for any number of notifications, any  *)
(* set of overlapping polls and any set of overlapping Stores.             *)
(***************************************************************************)
EXTENDS NotificationPolling, SequenceTheorems, TLAPS

-----------------------------------------------------------------------------
(* List *)

(* List answers the entries behind the index it starts from, and a cursor that
   has moved over exactly those.                                             *)
LEMMA ListResponseIs ==
    ASSUME NEW l \in Seq(Entries), Len(l) <= MaxStored, NEW c \in Cursors
    PROVE  LET r == ListResponse(l, c)
               from == StartIndex(l, c)
           IN  /\ r \in Responses
               /\ from \in Cursors
               /\ from + 1 >= Len(l) => r.notifications = <<>>
               /\ Len(r.notifications) = IF from + 1 < Len(l) THEN Len(l) - from - 1 ELSE 0
               /\ \A i \in 1..Len(r.notifications) : r.notifications[i] = l[from + 1 + i]
               /\ r.cursor = from + Len(r.notifications)
<1> DEFINE r == ListResponse(l, c)
           from == StartIndex(l, c)
           ns == SubSeq(l, from + 2, Len(l))
<1>1. Len(l) \in Nat /\ MaxStored \in Nat
  BY LenProperties, MaxStoredAssumption
<1>2. from \in Cursors /\ from \in Int /\ from >= -1
  BY <1>1 DEF StartIndex, Cursors
<1>3. \A i \in (from + 2)..Len(l) : l[i] \in Entries
  BY <1>1, <1>2, ElementOfSeq
<1>4. /\ ns \in Seq(Entries)
      /\ Len(ns) = IF from + 2 <= Len(l) THEN Len(l) - (from + 2) + 1 ELSE 0
      /\ \A i \in 1..(Len(l) - (from + 2) + 1) : ns[i] = l[from + 2 + i - 1]
  <2> HIDE DEF from
  <2> QED  BY <1>1, <1>2, <1>3, SubSeqProperties
<1>5. r = [cursor |-> IF from + 1 < Len(l) THEN Len(l) - 1 ELSE from,
           notifications |-> ns]
  BY DEF ListResponse
<1>6. from + 1 >= Len(l) => ns = <<>>
  <2> HIDE DEF from
  <2> QED  BY <1>1, <1>2, SubSeqEmpty
<1>7. r.cursor \in Cursors /\ r.cursor = from + Len(ns)
  <2> HIDE DEF from, ns
  <2> QED  BY <1>1, <1>2, <1>4, <1>5 DEF Cursors
<1>8. \A i \in 1..Len(ns) : ns[i] = l[from + 1 + i]
  <2> HIDE DEF from, ns
  <2> QED  BY <1>1, <1>2, <1>4
<1>9. Len(ns) = IF from + 1 < Len(l) THEN Len(l) - from - 1 ELSE 0
  <2> HIDE DEF from, ns
  <2> QED  BY <1>1, <1>2, <1>4
<1>10. r \in Responses
  <2> HIDE DEF from, ns
  <2> QED  BY <1>4, <1>5, <1>7 DEF Responses
<1>11. r.notifications = ns
  <2> HIDE DEF from, ns
  <2> QED  BY <1>5
<1> HIDE DEF ns, r
<1> QED  BY <1>2, <1>6, <1>7, <1>8, <1>9, <1>10, <1>11 DEF r

-----------------------------------------------------------------------------
(* Type correctness.  The list, and every list that was read, holds stored *)
(* notifications only.                                                     *)

Within(l, n) == /\ Len(l) <= n
                /\ \A i \in 1..Len(l) : l[i] <= n

LogOK == /\ Within(log, stored)
         /\ \A w \in Writers : \A l \in seen[w] : Within(l, stored)

TypeInv == PollTypeOK /\ LogOK

LEMMA TypeInvInit == PollInit => TypeInv
<1> SUFFICES ASSUME PollInit PROVE TypeInv
  OBVIOUS
<1>1. overlapped \in BOOLEAN /\ overwritten \in BOOLEAN
  BY DEF PollInit
<1>2. seen \in [Writers -> SUBSET Seq(Entries)] /\ \A w \in Writers : seen[w] = {}
  BY DEF PollInit
<1> QED
  BY <1>1, <1>2, EmptySeq, MaxStoredAssumption
     DEF PollInit, TypeInv, PollTypeOK, LogOK, Within, Cursors, PollStates, NoPoll

(* What a Store that ends leaves read was read. *)
LEMMA EndsKeeps ==
    ASSUME TypeInv, NEW w \in Writers, NEW l, Ends(w, l)
    PROVE  /\ seen' \in [Writers -> SUBSET Seq(Entries)]
           /\ \A v \in Writers : seen'[v] \subseteq seen[v]
<1>1. CASE seen' = seen
  BY <1>1 DEF TypeInv, PollTypeOK
<1>2. CASE seen' = [seen EXCEPT ![w] = seen[w] \ {l}]
  BY <1>2 DEF TypeInv, PollTypeOK
<1> QED  BY <1>1, <1>2 DEF Ends

LEMMA TypeInvStep ==
    ASSUME TypeInv, [PollNext]_pollVars
    PROVE  TypeInv'
<1> USE MaxStoredAssumption
<1>0. log \in Seq(Entries) /\ stored \in Nat /\ stored \in 0..MaxStored
  BY DEF TypeInv, PollTypeOK
<1>1. CASE UNCHANGED pollVars
  BY <1>1 DEF pollVars, storeVars, TypeInv, PollTypeOK, LogOK, Within
<1>2. ASSUME NEW w \in Writers, Read(w)
      PROVE  TypeInv'
  <2>1. /\ seen' \in [Writers -> SUBSET Seq(Entries)]
        /\ \A v \in Writers : \A l \in seen'[v] : l \in seen[v] \/ l = log
    BY <1>0, <1>2 DEF TypeInv, PollTypeOK, Read
  <2>2. \A v \in Writers : \A l \in seen'[v] : Within(l, stored)
    BY <2>1 DEF TypeInv, LogOK
  <2> QED  BY <1>2, <2>1, <2>2 DEF TypeInv, PollTypeOK, LogOK, Within, Read
<1>3. ASSUME NEW w \in Writers, NEW l \in seen[w], Write(w, l)
      PROVE  TypeInv'
  <2>1. l \in Seq(Entries) /\ Len(l) \in Nat /\ Within(l, stored)
    BY LenProperties DEF TypeInv, PollTypeOK, LogOK
  <2>2. /\ stored + 1 \in Entries /\ stored' = stored + 1 /\ stored' \in 0..MaxStored
        /\ log' = Append(l, stored + 1)
    BY <1>0, <1>3 DEF Write, Entries
  <2>3. /\ log' \in Seq(Entries)
        /\ Len(log') = Len(l) + 1
        /\ \A i \in 1..Len(l) : log'[i] = l[i]
        /\ log'[Len(l) + 1] = stored + 1
    BY <2>1, <2>2, AppendProperties
  <2>4. \A i \in 1..Len(l) : l[i] \in Entries
    BY <2>1, ElementOfSeq
  <2>5. Within(log', stored')
    BY <1>0, <2>1, <2>2, <2>3, <2>4 DEF Within, Entries
  <2>6. Ends(w, l)
    BY <1>3 DEF Write
  <2>7. /\ seen' \in [Writers -> SUBSET Seq(Entries)]
        /\ \A v \in Writers : seen'[v] \subseteq seen[v]
    BY <2>6, EndsKeeps
  <2>8. ASSUME NEW v \in Writers, NEW k \in seen'[v] PROVE Within(k, stored')
    <3>1. k \in Seq(Entries) /\ Len(k) \in Nat /\ Within(k, stored)
      BY <2>7, LenProperties DEF TypeInv, PollTypeOK, LogOK
    <3>2. \A i \in 1..Len(k) : k[i] \in Entries
      BY <3>1, ElementOfSeq
    <3> QED  BY <1>0, <2>2, <3>1, <3>2 DEF Within, Entries
  <2>9. overwritten' \in BOOLEAN /\ UNCHANGED <<cursor, poll, shown, overlapped>>
    BY <1>3 DEF Write
  <2>10. LogOK'
    BY <2>5, <2>8 DEF LogOK
  <2> QED  BY <2>2, <2>3, <2>7, <2>9, <2>10 DEF TypeInv, PollTypeOK
<1>7. ASSUME NEW w \in Writers, NEW l \in seen[w], GiveUp(w, l)
      PROVE  TypeInv'
  <2>1. Ends(w, l)
    BY <1>7 DEF GiveUp
  <2>2. /\ seen' \in [Writers -> SUBSET Seq(Entries)]
        /\ \A v \in Writers : seen'[v] \subseteq seen[v]
    BY <2>1, EndsKeeps
  <2>3. \A v \in Writers : \A k \in seen'[v] : Within(k, stored)
    BY <2>2 DEF TypeInv, LogOK
  <2> QED  BY <1>7, <2>2, <2>3 DEF TypeInv, PollTypeOK, LogOK, Within, GiveUp
<1>8. CASE Expire
  <2>1. log' = <<>> /\ Len(log') = 0
    BY <1>8, EmptySeq DEF Expire
  <2>2. Within(log', stored)
    BY <1>0, <2>1 DEF Within
  <2> QED  BY <1>8, <2>1, <2>2, EmptySeq DEF TypeInv, PollTypeOK, LogOK, Within, Expire
<1>4. ASSUME NEW p \in Polls, StartPoll(p) \/ PollFails(p)
      PROVE  TypeInv'
  <2>1. overlapped' \in BOOLEAN
    BY <1>4 DEF TypeInv, PollTypeOK, StartPoll, PollFails
  <2>2. /\ UNCHANGED <<log, stored, seen, overwritten, cursor, shown>>
        /\ poll' = [poll EXCEPT ![p] = Asking(cursor)] \/ poll' = [poll EXCEPT ![p] = NoPoll]
    BY <1>4 DEF StartPoll, PollFails, storeVars
  <2> QED
    BY <2>1, <2>2 DEF TypeInv, PollTypeOK, LogOK, Within, Asking, NoPoll, PollStates
<1>5. ASSUME NEW p \in Polls, Answer(p)
      PROVE  TypeInv'
  <2>1. poll[p].cursor \in Cursors
    BY <1>5 DEF TypeInv, PollTypeOK, Answer, PollStates
  <2>2. log \in Seq(Entries) /\ Len(log) <= MaxStored
    BY LenProperties DEF TypeInv, PollTypeOK, LogOK, Within
  <2>3. ListResponse(log, poll[p].cursor) \in Responses
    BY <2>1, <2>2, ListResponseIs
  <2> QED
    BY <1>5, <2>3
       DEF TypeInv, PollTypeOK, LogOK, Within, Answer, Answered, PollStates, storeVars
<1>6. ASSUME NEW p \in Polls, Show(p)
      PROVE  TypeInv'
  <2>1. poll[p].resp \in Responses
    BY <1>6 DEF TypeInv, PollTypeOK, Show, PollStates
  <2>2. shown \o poll[p].resp.notifications \in Seq(Entries)
    BY <2>1, ConcatProperties DEF TypeInv, PollTypeOK, Responses
  <2> QED
    BY <1>6, <2>1, <2>2
       DEF TypeInv, PollTypeOK, LogOK, Within, Show, NoPoll, PollStates, Responses, storeVars
<1> QED
  BY <1>1, <1>2, <1>3, <1>4, <1>5, <1>6, <1>7, <1>8 DEF PollNext, PollStep

(* The page, its polls and the list are always well formed. *)
THEOREM PollingTypeCorrect == PollSpec => []PollTypeOK
<1>1. TypeInv /\ [PollNext]_pollVars => TypeInv'
  BY TypeInvStep
<1>2. TypeInv => PollTypeOK
  BY DEF TypeInv
<1> QED  BY <1>1, <1>2, TypeInvInit, PTL DEF PollSpec

-----------------------------------------------------------------------------
(* No gap, for polls that overlap in any way, as long as the list is kept. *)
(* A cursor that was ever the page's stays covered, since the page forgets *)
(* nothing; an answer covers what its request's cursor did not.            *)

(* A Store whose list is still the one it has read appends to it. *)
Appends == /\ stored < MaxStored
           /\ stored' = stored + 1
           /\ log' = Append(log, stored + 1)
           /\ UNCHANGED <<cursor, poll, shown, overlapped>>

(* The list and the page stay as they are. *)
Same == UNCHANGED <<log, stored, cursor, poll, shown, overlapped>>

KeptNext == Appends \/ Same \/ \E p \in Polls : PollStep(p)

(* What a step does when no Store has replaced a list it had not read. *)
LEMMA WrittenBefore ==
    ASSUME TypeInv, [PollNext]_pollVars, ~overwritten'
    PROVE  ~overwritten /\ (KeptNext \/ Expire)
<1>1. ASSUME NEW w \in Writers, Read(w)
      PROVE  ~overwritten /\ Same
  BY <1>1 DEF Read, Same
<1>2. ASSUME NEW w \in Writers, NEW l \in seen[w], Write(w, l)
      PROVE  ~overwritten /\ Appends
  BY <1>2 DEF Write, Appends
<1>3. ASSUME NEW w \in Writers, NEW l \in seen[w], GiveUp(w, l)
      PROVE  ~overwritten /\ Same
  BY <1>3 DEF GiveUp, Same
<1>4. CASE Expire
  BY <1>4 DEF Expire
<1>5. ASSUME NEW p \in Polls, PollStep(p)
      PROVE  ~overwritten
  BY <1>5 DEF PollStep, StartPoll, Answer, Show, PollFails, storeVars
<1>6. CASE UNCHANGED pollVars
  BY <1>6 DEF pollVars, storeVars, Same, KeptNext
<1> QED  BY <1>1, <1>2, <1>3, <1>4, <1>5, <1>6 DEF PollNext, KeptNext

(* A list that is kept was kept before, and the step did not drop it. *)
LEMMA KeptBefore ==
    ASSUME TypeInv, [PollNext]_pollVars, Kept'
    PROVE  Kept /\ KeptNext
<1>0. ~overwritten /\ (KeptNext \/ Expire) /\ stored' = Len(log')
  BY WrittenBefore DEF Kept
<1>1. log \in Seq(Entries) /\ Len(log) \in Nat /\ stored \in Nat /\ Len(log) <= stored
  BY LenProperties, MaxStoredAssumption DEF TypeInv, PollTypeOK, LogOK, Within
<1>2. CASE Expire
  <2>1. Len(log') = 0 /\ stored' = stored /\ Len(log) # 0
    BY <1>1, <1>2, EmptySeq DEF Expire
  <2> QED  BY <1>0, <1>1, <2>1
<1>3. CASE Appends
  <2>1. stored + 1 \in Entries
    BY <1>3, MaxStoredAssumption DEF TypeInv, PollTypeOK, Appends, Entries
  <2>2. Len(log') = Len(log) + 1 /\ stored' = stored + 1
    BY <1>1, <1>3, <2>1, AppendProperties DEF Appends
  <2> QED  BY <1>0, <1>1, <1>3, <2>2 DEF KeptNext, Kept
<1>4. CASE \E p \in Polls : PollStep(p)
  <2>1. log' = log /\ stored' = stored
    BY <1>4 DEF PollStep, StartPoll, Answer, Show, PollFails, storeVars
  <2> QED  BY <1>0, <1>4, <2>1 DEF KeptNext, Kept
<1>5. CASE Same
  BY <1>0, <1>5 DEF Same, Kept, KeptNext
<1> QED  BY <1>0, <1>2, <1>3, <1>4, <1>5 DEF KeptNext

GapInv ==
    /\ TypeInv
    /\ \A i \in 1..(cursor + 1) : i <= Len(log) /\ IsShown(log[i])
    /\ \A p \in Polls : poll[p].stage = "ask" =>
          \A i \in 1..(poll[p].cursor + 1) : i <= Len(log) /\ IsShown(log[i])
    /\ \A p \in Polls : poll[p].stage = "answer" =>
          \A i \in 1..(poll[p].resp.cursor + 1) :
             /\ i <= Len(log)
             /\ \/ IsShown(log[i])
                \/ \E j \in 1..Len(poll[p].resp.notifications) :
                      poll[p].resp.notifications[j] = log[i]

(* The step only adds to the list and to what is shown. *)
Grows == /\ Len(log) <= Len(log') /\ Len(log') \in Nat
         /\ \A i \in 1..Len(log) : log'[i] = log[i]
         /\ \A i \in DOMAIN shown : i \in DOMAIN shown' /\ shown'[i] = shown[i]

LEMMA StepGrows ==
    ASSUME TypeInv, KeptNext
    PROVE  Grows
<1>1. log \in Seq(Entries) /\ Len(log) \in Nat /\ shown \in Seq(Entries)
  BY LenProperties DEF TypeInv, PollTypeOK
<1>2. CASE log' = log /\ shown' = shown
  BY <1>1, <1>2 DEF Grows
<1>3. CASE Appends
  <2>1. stored + 1 \in Entries
    BY <1>3, MaxStoredAssumption DEF TypeInv, PollTypeOK, Appends, Entries
  <2> QED  BY <1>1, <1>3, <2>1, AppendProperties DEF Appends, Grows
<1>4. ASSUME NEW p \in Polls, Show(p)
      PROVE  Grows
  <2>1. poll[p].resp.notifications \in Seq(Entries)
    BY <1>4 DEF TypeInv, PollTypeOK, Show, PollStates, Responses
  <2> QED  BY <1>1, <1>4, <2>1, ConcatProperties, LenProperties DEF Show, Grows, storeVars
<1> QED
  BY <1>2, <1>3, <1>4
     DEF KeptNext, Same, PollStep, StartPoll, Answer, PollFails, storeVars

(* Entries of the list that were shown stay in the list and shown. *)
LEMMA CoveredStays ==
    ASSUME TypeInv, Grows, NEW i \in Nat, i >= 1, i <= Len(log), IsShown(log[i])
    PROVE  i <= Len(log') /\ IsShown(log[i])' /\ log'[i] = log[i]
<1>1. Len(log) \in Nat
  BY LenProperties DEF TypeInv, PollTypeOK
<1>2. log'[i] = log[i] /\ i <= Len(log')
  BY <1>1 DEF Grows
<1>3. PICK k \in DOMAIN shown : shown[k] = log[i]
  BY DEF IsShown
<1>4. k \in DOMAIN shown' /\ shown'[k] = log'[i]
  BY <1>2, <1>3 DEF Grows
<1>5. IsShown(log[i])'
  BY <1>4 DEF IsShown
<1> QED  BY <1>2, <1>5

LEMMA GapInvStep ==
    ASSUME GapInv, KeptNext, TypeInv'
    PROVE  GapInv'
<1>1. TypeInv'
  OBVIOUS
<1>2. Grows
  BY StepGrows DEF GapInv
<1>3. cursor \in Int /\ Len(log) \in Nat /\ Len(log') \in Nat
  BY LenProperties, <1>2 DEF GapInv, TypeInv, PollTypeOK, Cursors, Grows
<1> DEFINE Done(i) == i <= Len(log) /\ IsShown(log[i])
<1>4. \A i \in Nat : i >= 1 /\ Done(i) => (i <= Len(log') /\ IsShown(log[i])' /\ log'[i] = log[i])
  BY <1>2, CoveredStays DEF GapInv
<1> DEFINE Page == \A i \in 1..(cursor + 1) : Done(i)
           Ask(p) == poll[p].stage = "ask" => \A i \in 1..(poll[p].cursor + 1) : Done(i)
           Ans(p) == poll[p].stage = "answer" =>
                       \A i \in 1..(poll[p].resp.cursor + 1) :
                          /\ i <= Len(log)
                          /\ \/ IsShown(log[i])
                             \/ \E j \in 1..Len(poll[p].resp.notifications) :
                                   poll[p].resp.notifications[j] = log[i]
<1>5. Page /\ \A p \in Polls : Ask(p) /\ Ans(p)
  BY DEF GapInv
<1>6. \A p \in Polls : /\ poll[p].stage = "ask" => poll[p].cursor \in Cursors
                      /\ poll[p].stage = "answer" => poll[p].resp \in Responses
  BY DEF GapInv, TypeInv, PollTypeOK, PollStates
\* what does not depend on the step
<1>7. cursor' = cursor => Page'
  BY <1>3, <1>4, <1>5
<1>8. ASSUME NEW p \in Polls, poll'[p] = poll[p] PROVE Ask(p)' /\ Ans(p)'
  <2>1. ASSUME poll[p].stage = "ask", NEW i \in 1..(poll[p].cursor + 1)
        PROVE  Done(i)'
    BY <1>4, <1>5, <1>6, <2>1 DEF Cursors
  <2>2. ASSUME poll[p].stage = "answer", NEW i \in 1..(poll[p].resp.cursor + 1)
        PROVE  /\ i <= Len(log')
               /\ \/ IsShown(log[i])'
                  \/ \E j \in 1..Len(poll[p].resp.notifications) :
                        poll[p].resp.notifications[j] = log'[i]
    <3>1. i \in Nat /\ i >= 1
      BY <1>6, <2>2 DEF Responses, Cursors
    <3>2. i <= Len(log) /\ i <= Len(log') /\ log'[i] = log[i]
      BY <1>2, <1>3, <1>5, <2>2, <3>1 DEF Grows
    <3> QED  BY <1>4, <1>5, <2>2, <3>1, <3>2
  <2> QED  BY <1>8, <2>1, <2>2
<1>9. ASSUME NEW p \in Polls, poll'[p].stage = "none" PROVE Ask(p)' /\ Ans(p)'
  BY <1>9
<1>10. Page' /\ \A p \in Polls : Ask(p)' /\ Ans(p)'
  <2>1. CASE Same \/ Appends
    BY <1>7, <1>8, <2>1 DEF Same, Appends
  <2>2. ASSUME NEW q \in Polls, PollFails(q)
        PROVE  Page' /\ \A p \in Polls : Ask(p)' /\ Ans(p)'
    <3>1. \A p \in Polls : poll'[p] = poll[p] \/ poll'[p].stage = "none"
      BY <2>2 DEF PollFails, NoPoll, GapInv, TypeInv, PollTypeOK
    <3> QED  BY <1>7, <1>8, <1>9, <2>2, <3>1 DEF PollFails
  <2>3. ASSUME NEW q \in Polls, StartPoll(q)
        PROVE  Page' /\ \A p \in Polls : Ask(p)' /\ Ans(p)'
    <3>1. /\ cursor' = cursor
          /\ poll'[q] = [stage |-> "ask", cursor |-> cursor]
          /\ \A p \in Polls : p # q => poll'[p] = poll[p]
      BY <2>3 DEF StartPoll, Asking, GapInv, TypeInv, PollTypeOK
    <3>2. Page'
      BY <1>7, <3>1
    <3>3. Ask(q)' /\ Ans(q)'
      BY <3>1, <3>2
    <3> QED  BY <1>8, <3>1, <3>2, <3>3
  <2>4. ASSUME NEW q \in Polls, Answer(q)
        PROVE  Page' /\ \A p \in Polls : Ask(p)' /\ Ans(p)'
    <3> DEFINE c == poll[q].cursor
               r == ListResponse(log, c)
    <3>1. /\ cursor' = cursor /\ log' = log /\ shown' = shown
          /\ poll'[q] = [stage |-> "answer", resp |-> r]
          /\ \A p \in Polls : p # q => poll'[p] = poll[p]
      BY <2>4 DEF Answer, Answered, GapInv, TypeInv, PollTypeOK, storeVars
    <3>2. c \in Cursors /\ \A i \in 1..(c + 1) : Done(i)
      <4>1. poll[q].stage = "ask"
        BY <2>4 DEF Answer
      <4>2. Ask(q)
        BY <1>5
      <4>3. c \in Cursors
        BY <2>4 DEF GapInv, TypeInv, PollTypeOK, Answer, PollStates
      <4>4. \A i \in 1..(c + 1) : Done(i)
        BY <4>1, <4>2
      <4> QED  BY <4>3, <4>4
    <3>3. StartIndex(log, c) = c /\ c + 1 <= Len(log)
      <4>1. c + 1 <= Len(log)
        BY <1>3, <3>2 DEF Cursors
      <4> QED  BY <1>3, <3>2, <4>1 DEF StartIndex, Cursors
    <3>4. log \in Seq(Entries) /\ Len(log) <= MaxStored
      BY MaxStoredAssumption, <1>3 DEF GapInv, TypeInv, PollTypeOK, LogOK, Within
    <3>5. /\ Len(r.notifications) = IF c + 1 < Len(log) THEN Len(log) - c - 1 ELSE 0
          /\ \A i \in 1..Len(r.notifications) : r.notifications[i] = log[c + 1 + i]
          /\ r.cursor = c + Len(r.notifications)
      BY <3>2, <3>3, <3>4, ListResponseIs
    <3>6. ASSUME NEW i \in 1..(r.cursor + 1)
          PROVE  /\ i <= Len(log)
                 /\ \/ IsShown(log[i])
                    \/ \E j \in 1..Len(r.notifications) : r.notifications[j] = log[i]
      <4> HIDE DEF c, r
      <4>0. Len(r.notifications) \in Nat /\ c \in Int /\ c >= -1 /\ i \in Nat
        BY <1>3, <3>2, <3>3, <3>5 DEF Cursors
      <4>1. CASE i <= c + 1
        BY <3>2, <4>0, <4>1
      <4>2. CASE i > c + 1
        <5>1. i - (c + 1) \in 1..Len(r.notifications)
          BY <3>5, <4>0, <4>2
        <5>2. r.notifications[i - (c + 1)] = log[c + 1 + (i - (c + 1))]
          BY <3>5, <5>1
        <5>3. c + 1 + (i - (c + 1)) = i /\ i <= Len(log)
          BY <1>3, <3>3, <3>5, <4>0
        <5> QED  BY <5>1, <5>2, <5>3
      <4> QED  BY <4>0, <4>1, <4>2
    <3>7. Ask(q)' /\ Ans(q)'
      <4> HIDE DEF r
      <4> QED  BY <3>1, <3>6 DEF IsShown
    <3> QED  BY <1>7, <1>8, <3>1, <3>7
  <2>5. ASSUME NEW q \in Polls, Show(q)
        PROVE  Page' /\ \A p \in Polls : Ask(p)' /\ Ans(p)'
    <3> DEFINE r == poll[q].resp
               ns == r.notifications
    <3>1. /\ cursor' = r.cursor /\ log' = log
          /\ shown' = shown \o ns
          /\ \A p \in Polls : poll'[p] = poll[p] \/ poll'[p].stage = "none"
      BY <2>5 DEF Show, NoPoll, GapInv, TypeInv, PollTypeOK, storeVars
    <3>2. r \in Responses /\ ns \in Seq(Entries) /\ Len(ns) \in Nat
      BY <1>6, <2>5, LenProperties DEF Show, Responses
    <3>3. /\ shown \in Seq(Entries) /\ Len(shown) \in Nat
          /\ Len(shown') = Len(shown) + Len(ns)
          /\ \A j \in 1..Len(ns) : shown'[Len(shown) + j] = ns[j]
      BY <3>1, <3>2, ConcatProperties, LenProperties DEF GapInv, TypeInv, PollTypeOK
    <3>4. DOMAIN shown' = 1..(Len(shown) + Len(ns))
      BY <1>1, <3>3, LenProperties DEF TypeInv, PollTypeOK
    <3>5. ASSUME NEW i \in 1..(r.cursor + 1) PROVE Done(i)'
      <4>1. /\ i \in Nat /\ i >= 1 /\ i <= Len(log)
            /\ IsShown(log[i]) \/ \E j \in 1..Len(ns) : ns[j] = log[i]
        <5>1. Ans(q) /\ poll[q].stage = "answer"
          BY <1>5, <2>5 DEF Show
        <5>2. i \in Nat /\ i >= 1
          BY <3>2 DEF Responses, Cursors
        <5> QED  BY <5>1, <5>2
      <4>2. CASE IsShown(log[i])
        BY <1>4, <4>1, <4>2
      <4>3. ASSUME NEW j \in 1..Len(ns), ns[j] = log[i] PROVE Done(i)'
        <5>1. Len(shown) + j \in DOMAIN shown' /\ shown'[Len(shown) + j] = log'[i]
          BY <3>1, <3>2, <3>3, <3>4, <4>3
        <5> QED  BY <3>1, <4>1, <5>1 DEF IsShown
      <4> QED  BY <4>1, <4>2, <4>3
    <3>6. Page'
      BY <3>1, <3>5
    <3> QED  BY <1>8, <1>9, <3>1, <3>6
  <2> QED  BY <2>1, <2>2, <2>3, <2>4, <2>5 DEF KeptNext, PollStep
<1> QED  BY <1>1, <1>10 DEF GapInv

(* However many polls overlap, and in whatever order their answers arrive, the
   page has shown everything up to its cursor, as long as the list is kept.  *)
THEOREM PollingLeavesNoGap == PollSpec => []NoGap
<1> DEFINE Inv == TypeInv /\ (Kept => GapInv)
<1>1. PollInit => Inv
  BY TypeInvInit DEF PollInit, GapInv, NoPoll
<1>2. Inv /\ [PollNext]_pollVars => Inv'
  <2> SUFFICES ASSUME Inv, [PollNext]_pollVars PROVE Inv'
    OBVIOUS
  <2>1. TypeInv'
    BY TypeInvStep
  <2>2. Kept' => Kept /\ KeptNext
    BY KeptBefore
  <2>3. Kept' => GapInv'
    BY <2>1, <2>2, GapInvStep
  <2> QED  BY <2>1, <2>3
<1>3. Inv => NoGap
  BY LenProperties DEF GapInv, TypeInv, PollTypeOK, NoGap, Cursors
<1> HIDE DEF Inv
<1> QED  BY <1>1, <1>2, <1>3, PTL DEF PollSpec

-----------------------------------------------------------------------------
(* Polls that do not overlap.  The list may expire between and during them. *)

Solo == \A p, q \in Polls : poll[p].stage # "none" /\ poll[q].stage # "none" => p = q

(* Polls that have not overlapped had not before. *)
LEMMA OverlappedBefore ==
    ASSUME TypeInv, [PollNext]_pollVars, ~overlapped'
    PROVE  ~overlapped
<1>1. CASE \E p \in Polls : PollStep(p)
  BY <1>1 DEF PollStep, StartPoll, Answer, Show, PollFails, TypeInv, PollTypeOK
<1>2. CASE Expire \/ UNCHANGED pollVars
  BY <1>2 DEF Expire, pollVars
<1>3. CASE \E w \in Writers : Read(w) \/ \E l \in seen[w] : Write(w, l) \/ GiveUp(w, l)
  BY <1>3 DEF Read, Write, GiveUp
<1> QED  BY <1>1, <1>2, <1>3 DEF PollNext

(* Polls that have not overlapped had not before, and the one that takes a
   step is the only one under way.                                           *)
LEMMA SoloStep ==
    ASSUME TypeInv, Solo, [PollNext]_pollVars, ~overlapped'
    PROVE  /\ ~overlapped /\ Solo'
           /\ \A p \in Polls : PollStep(p) => \A q \in Polls :
                 q # p => poll[q].stage = "none" /\ poll'[q].stage = "none"
<1> DEFINE Rest(p) == \A q \in Polls :
             q # p => poll[q].stage = "none" /\ poll'[q].stage = "none"
<1>1. ~overlapped
  BY OverlappedBefore
<1>2. ASSUME NEW p \in Polls, PollStep(p) PROVE Rest(p)
  <2>1. \A q \in Polls : q # p => poll'[q] = poll[q]
    BY <1>2 DEF PollStep, StartPoll, Answer, Show, PollFails, TypeInv, PollTypeOK
  <2>2. ASSUME NEW q \in Polls, q # p PROVE poll[q].stage = "none"
    <3>1. CASE StartPoll(p)
      BY <3>1 DEF StartPoll, Busy
    <3>2. CASE Answer(p) \/ Show(p) \/ PollFails(p)
      BY <2>2, <3>2 DEF Answer, Show, PollFails, Solo
    <3> QED  BY <1>2, <3>1, <3>2 DEF PollStep
  <2> QED  BY <2>1, <2>2
<1>3. Solo'
  <2>1. CASE UNCHANGED poll
    BY <2>1 DEF Solo
  <2>2. ASSUME NEW p \in Polls, PollStep(p) PROVE Solo'
    BY <1>2, <2>2 DEF Solo
  <2> QED  BY <2>1, <2>2 DEF PollNext, Read, Write, GiveUp, Expire, pollVars
<1> QED  BY <1>1, <1>2, <1>3

Fresh(e, sh) == \A k \in 1..Len(sh) : sh[k] < e

(* The entries of the list the page may still show from cursor c: those
   behind it, or all of them if the cursor points behind the list.          *)
Unread(c, i, l) == i > c + 1 \/ c > Len(l)

Sorted(l) == \A i, j \in 1..Len(l) : i < j => l[i] < l[j]

(* What an answer on its way to the page may hold. *)
AnswerOK(r, l, sh, st) ==
    LET ns == r.notifications
    IN  /\ Sorted(ns)
        /\ \A i \in 1..Len(ns) : Fresh(ns[i], sh) /\ ns[i] <= st
        /\ \A i \in 1..Len(l) : Unread(r.cursor, i, l) =>
              Fresh(l[i], sh) /\ \A j \in 1..Len(ns) : ns[j] < l[i]

OrderInv ==
    /\ TypeInv
    /\ Sorted(log) /\ Sorted(shown)
    /\ \A k \in 1..Len(shown) : shown[k] <= stored
    /\ \A i \in 1..Len(log) : Unread(cursor, i, log) => Fresh(log[i], shown)
    /\ \A p \in Polls : poll[p].stage = "ask" => poll[p].cursor = cursor
    /\ \A p \in Polls : poll[p].stage = "answer" => AnswerOK(poll[p].resp, log, shown, stored)

LEMMA EntryIsNat ==
    ASSUME NEW s \in Seq(Entries), NEW i \in 1..Len(s)
    PROVE  s[i] \in Nat
<1>1. s[i] \in Entries
  BY ElementOfSeq
<1> QED  BY <1>1, MaxStoredAssumption DEF Entries

(* The answer to the page's cursor holds entries that were not shown, and its
   cursor leaves none of the list's entries to read.                         *)
LEMMA AnswerIsFresh ==
    ASSUME OrderInv
    PROVE  LET r == ListResponse(log, cursor)
               ns == r.notifications
           IN  /\ Sorted(ns)
               /\ \A i \in 1..Len(ns) : Fresh(ns[i], shown) /\ ns[i] <= stored
               /\ \A i \in 1..Len(log) : ~Unread(r.cursor, i, log)
<1> DEFINE r == ListResponse(log, cursor)
           ns == r.notifications
           from == StartIndex(log, cursor)
<1>1. log \in Seq(Entries) /\ Len(log) \in Nat /\ Len(log) <= MaxStored /\ cursor \in Cursors
  BY MaxStoredAssumption, LenProperties DEF OrderInv, TypeInv, PollTypeOK, LogOK, Within
<1>2. /\ from \in Cursors
      /\ Len(ns) = IF from + 1 < Len(log) THEN Len(log) - from - 1 ELSE 0
      /\ \A i \in 1..Len(ns) : ns[i] = log[from + 1 + i]
      /\ r.cursor = from + Len(ns)
  BY <1>1, ListResponseIs
<1>3. from <= Len(log) /\ (from = cursor \/ cursor > Len(log))
  BY <1>1 DEF StartIndex, Cursors
<1>4. from \in Int /\ from >= -1 /\ cursor \in Int /\ Len(ns) \in Nat
  <2> HIDE DEF from, ns
  <2> QED  BY <1>1, <1>2 DEF Cursors
<1> HIDE DEF from, ns, r
<1>5. \A i \in 1..Len(ns) : from + 1 + i \in 1..Len(log) /\ Unread(cursor, from + 1 + i, log)
  BY <1>1, <1>2, <1>3, <1>4 DEF Unread
<1>6. \A i \in 1..Len(ns) : Fresh(ns[i], shown) /\ ns[i] <= stored
  BY <1>2, <1>5 DEF OrderInv, TypeInv, LogOK, Within
<1>7. Sorted(ns)
  <2> SUFFICES ASSUME NEW i \in 1..Len(ns), NEW j \in 1..Len(ns), i < j
               PROVE  ns[i] < ns[j]
    BY DEF Sorted
  <2>1. /\ from + 1 + i \in 1..Len(log) /\ from + 1 + j \in 1..Len(log)
        /\ from + 1 + i < from + 1 + j
    BY <1>4, <1>5
  <2>2. log[from + 1 + i] < log[from + 1 + j]
    BY <2>1 DEF OrderInv, Sorted
  <2> QED  BY <1>2, <2>2
<1>8. \A i \in 1..Len(log) : ~Unread(r.cursor, i, log)
  BY <1>1, <1>2, <1>3, <1>4 DEF Unread
<1> QED  BY <1>6, <1>7, <1>8 DEF ns, r

LEMMA OrderInvStep ==
    ASSUME OrderInv, Solo, [PollNext]_pollVars, ~overlapped', ~overwritten'
    PROVE  OrderInv'
<1>1. TypeInv'
  BY TypeInvStep DEF OrderInv
<1>2. /\ log \in Seq(Entries) /\ Len(log) \in Nat
      /\ shown \in Seq(Entries) /\ Len(shown) \in Nat
      /\ DOMAIN shown = 1..Len(shown)
      /\ stored \in Nat /\ cursor \in Int
  BY LenProperties, MaxStoredAssumption DEF OrderInv, TypeInv, PollTypeOK, Cursors
<1>3. \A p \in Polls : poll[p].stage = "answer" =>
         /\ poll[p].resp \in Responses
         /\ poll[p].resp.notifications \in Seq(Entries)
         /\ poll[p].resp.cursor \in Int
  BY DEF OrderInv, TypeInv, PollTypeOK, PollStates, Responses, Cursors
<1>4. ASSUME UNCHANGED <<log, stored, cursor, shown>>,
             \A p \in Polls : poll'[p].stage # "answer",
             \A p \in Polls : poll'[p].stage = "ask" => poll'[p].cursor = cursor
      PROVE  OrderInv'
  BY <1>1, <1>4 DEF OrderInv
<1>5. CASE Same
  BY <1>1, <1>5 DEF OrderInv, Same
<1>6. CASE Appends
  <2>1. /\ Len(log') = Len(log) + 1
        /\ \A i \in 1..Len(log) : log'[i] = log[i] /\ log'[i] \in Nat
        /\ log'[Len(log) + 1] = stored + 1
    <3>1. stored + 1 \in Entries
      BY <1>6, MaxStoredAssumption DEF OrderInv, TypeInv, PollTypeOK, Appends, Entries
    <3>2. \A i \in 1..Len(log) : log[i] \in Nat
      BY <1>2, EntryIsNat
    <3> QED  BY <1>2, <1>6, <3>1, <3>2, AppendProperties DEF Appends
  <2>2. \A i \in 1..Len(log) : log[i] <= stored
    BY DEF OrderInv, TypeInv, LogOK, Within
  <2>3. Sorted(log)'
    <3>1. ASSUME NEW i \in 1..Len(log'), NEW j \in 1..Len(log'), i < j
          PROVE  log'[i] < log'[j]
      <4>1. i \in 1..Len(log) /\ log'[i] = log[i] /\ log[i] \in Nat
        BY <1>2, <2>1, <3>1
      <4>2. CASE j \in 1..Len(log)
        BY <2>1, <3>1, <4>1, <4>2 DEF OrderInv, Sorted
      <4>3. CASE j = Len(log) + 1
        BY <1>2, <2>1, <2>2, <4>1, <4>3
      <4> QED  BY <1>2, <2>1, <4>2, <4>3
    <3> QED  BY <3>1 DEF Sorted
  <2>4. \A k \in 1..Len(shown) : shown[k] <= stored /\ shown[k] \in Nat
    BY <1>2, EntryIsNat DEF OrderInv
  <2>5. Sorted(shown)' /\ \A k \in 1..Len(shown') : shown'[k] <= stored'
    BY <1>2, <1>6, <2>4 DEF OrderInv, Sorted, Appends
  <2>6. Fresh(stored + 1, shown)
    BY <1>2, <2>4 DEF Fresh
  <2>7. \A i \in 1..Len(log'), c \in Int : Unread(c, i, log') =>
            \/ i = Len(log) + 1
            \/ i \in 1..Len(log) /\ Unread(c, i, log)
    BY <1>2, <2>1 DEF Unread
  <2>8. ASSUME NEW i \in 1..Len(log'), Unread(cursor', i, log')
        PROVE  Fresh(log'[i], shown')
    <3>1. cursor' = cursor /\ shown' = shown
      BY <1>6 DEF Appends
    <3>2. CASE i = Len(log) + 1
      BY <2>1, <2>6, <3>1, <3>2 DEF Fresh
    <3>3. CASE i \in 1..Len(log) /\ Unread(cursor, i, log)
      BY <2>1, <3>1, <3>3 DEF OrderInv, Fresh
    <3> QED  BY <1>2, <2>7, <2>8, <3>1, <3>2, <3>3
  <2>9. ASSUME NEW p \in Polls, poll'[p].stage = "answer"
        PROVE  AnswerOK(poll'[p].resp, log', shown', stored')
    <3> DEFINE ns == poll[p].resp.notifications
               c == poll[p].resp.cursor
    <3>1. poll' = poll /\ shown' = shown /\ stored' = stored + 1
      BY <1>6 DEF Appends
    <3>2. /\ Sorted(ns)
          /\ \A i \in 1..Len(ns) : Fresh(ns[i], shown) /\ ns[i] <= stored
          /\ \A i \in 1..Len(log) : Unread(c, i, log) =>
                Fresh(log[i], shown) /\ \A j \in 1..Len(ns) : ns[j] < log[i]
      BY <2>9, <3>1 DEF OrderInv, AnswerOK
    <3>3. c \in Int /\ \A i \in 1..Len(ns) : ns[i] \in Nat
      BY <1>3, <2>9, <3>1, EntryIsNat
    <3> HIDE DEF ns, c
    <3>4. \A i \in 1..Len(ns) : Fresh(ns[i], shown') /\ ns[i] <= stored'
      BY <1>2, <3>1, <3>2, <3>3 DEF Fresh
    <3>5. ASSUME NEW i \in 1..Len(log'), Unread(c, i, log')
          PROVE  Fresh(log'[i], shown') /\ \A j \in 1..Len(ns) : ns[j] < log'[i]
      <4>1. CASE i = Len(log) + 1
        BY <1>2, <2>1, <2>6, <3>1, <3>2, <3>3, <4>1 DEF Fresh
      <4>2. CASE i \in 1..Len(log) /\ Unread(c, i, log)
        BY <2>1, <3>1, <3>2, <4>2 DEF Fresh
      <4> QED  BY <2>7, <3>3, <3>5, <4>1, <4>2
    <3> QED  BY <3>1, <3>2, <3>4, <3>5 DEF AnswerOK, ns, c
  <2>10. \A p \in Polls : poll'[p].stage = "ask" => poll'[p].cursor = cursor'
    BY <1>6 DEF OrderInv, Appends
  <2> QED  BY <1>1, <2>3, <2>5, <2>8, <2>9, <2>10 DEF OrderInv
<1>7. CASE Expire
  <2>1. Len(log') = 0 /\ UNCHANGED <<stored, cursor, poll, shown>>
    BY <1>7, EmptySeq DEF Expire
  <2> QED  BY <1>1, <2>1 DEF OrderInv, AnswerOK, Sorted
<1>0. \A p \in Polls : PollStep(p) => \A q \in Polls :
         q # p => poll[q].stage = "none" /\ poll'[q].stage = "none"
  BY SoloStep DEF OrderInv
<1>8. ASSUME NEW p \in Polls, StartPoll(p)
      PROVE  OrderInv'
  BY <1>0, <1>4, <1>8 DEF OrderInv, TypeInv, PollTypeOK, PollStep, StartPoll, Asking, storeVars
<1>9. ASSUME NEW p \in Polls, PollFails(p)
      PROVE  OrderInv'
  BY <1>0, <1>4, <1>9 DEF OrderInv, TypeInv, PollTypeOK, PollStep, PollFails, NoPoll, storeVars
<1>10. ASSUME NEW p \in Polls, Answer(p)
       PROVE  OrderInv'
  <2> DEFINE r == ListResponse(log, cursor)
  <2>1. /\ poll'[p] = [stage |-> "answer", resp |-> r]
        /\ UNCHANGED <<log, stored, cursor, shown>>
        /\ \A q \in Polls : q # p => poll'[q].stage = "none"
    BY <1>0, <1>10 DEF OrderInv, TypeInv, PollTypeOK, PollStep, Answer, Answered, storeVars
  <2>2. /\ Sorted(r.notifications)
        /\ \A i \in 1..Len(r.notifications) :
              Fresh(r.notifications[i], shown) /\ r.notifications[i] <= stored
        /\ \A i \in 1..Len(log) : ~Unread(r.cursor, i, log)
    BY AnswerIsFresh
  <2> HIDE DEF r
  <2>3. AnswerOK(poll'[p].resp, log', shown', stored')
    BY <2>1, <2>2 DEF AnswerOK
  <2> QED  BY <1>1, <2>1, <2>3 DEF OrderInv
<1>11. ASSUME NEW p \in Polls, Show(p)
       PROVE  OrderInv'
  <2> DEFINE r == poll[p].resp
             ns == r.notifications
  <2>1. /\ cursor' = r.cursor /\ shown' = shown \o ns
        /\ log' = log /\ stored' = stored
        /\ \A q \in Polls : poll'[q].stage = "none"
    BY <1>0, <1>11 DEF OrderInv, TypeInv, PollTypeOK, PollStep, Show, NoPoll, storeVars
  <2>2. /\ Sorted(ns)
        /\ \A i \in 1..Len(ns) : Fresh(ns[i], shown) /\ ns[i] <= stored
        /\ \A i \in 1..Len(log) : Unread(r.cursor, i, log) =>
              Fresh(log[i], shown) /\ \A j \in 1..Len(ns) : ns[j] < log[i]
    BY <1>11 DEF OrderInv, AnswerOK, Show
  <2>3. ns \in Seq(Entries) /\ Len(ns) \in Nat /\ r.cursor \in Int
    BY <1>3, <1>11, LenProperties DEF Show
  <2> HIDE DEF ns
  <2>4. /\ Len(shown') = Len(shown) + Len(ns)
        /\ \A k \in 1..Len(shown) : shown'[k] = shown[k] /\ shown[k] \in Nat
        /\ \A k \in (Len(shown) + 1)..(Len(shown) + Len(ns)) :
              /\ k - Len(shown) \in 1..Len(ns)
              /\ shown'[k] = ns[k - Len(shown)]
              /\ shown'[k] \in Nat
    <3>1. /\ Len(shown') = Len(shown) + Len(ns)
          /\ \A k \in 1..(Len(shown) + Len(ns)) : shown'[k] =
                IF k <= Len(shown) THEN shown[k] ELSE ns[k - Len(shown)]
      BY <1>2, <2>1, <2>3, ConcatProperties
    <3>2. \A k \in 1..Len(shown) : shown[k] \in Nat
      BY <1>2, EntryIsNat
    <3>3. \A k \in 1..Len(ns) : ns[k] \in Nat
      BY <2>3, EntryIsNat
    <3>4. ASSUME NEW k \in (Len(shown) + 1)..(Len(shown) + Len(ns))
          PROVE  /\ k - Len(shown) \in 1..Len(ns)
                 /\ shown'[k] = ns[k - Len(shown)]
      BY <1>2, <2>3, <3>1
    <3> QED  BY <1>2, <2>3, <3>1, <3>2, <3>3, <3>4
  <2>5. \A k \in 1..Len(shown), i \in 1..Len(ns) : shown[k] < ns[i]
    BY <1>2, <2>2 DEF Fresh
  <2>6. Sorted(shown')
    <3> SUFFICES ASSUME NEW i \in 1..Len(shown'), NEW j \in 1..Len(shown'), i < j
                 PROVE  shown'[i] < shown'[j]
      BY DEF Sorted
    <3>1. CASE j <= Len(shown)
      <4>1. i \in 1..Len(shown) /\ j \in 1..Len(shown)
        BY <1>2, <2>3, <2>4, <3>1
      <4> QED  BY <2>4, <4>1 DEF OrderInv, Sorted
    <3>2. CASE i <= Len(shown) /\ j > Len(shown)
      <4> DEFINE b == j - Len(shown)
      <4>1. /\ i \in 1..Len(shown) /\ shown'[i] = shown[i]
            /\ b \in 1..Len(ns) /\ shown'[j] = ns[b]
        BY <1>2, <2>3, <2>4, <3>2
      <4> HIDE DEF b
      <4> QED  BY <2>5, <4>1
    <3>3. CASE i > Len(shown)
      <4> DEFINE a == i - Len(shown)
                 b == j - Len(shown)
      <4>1. /\ a \in 1..Len(ns) /\ b \in 1..Len(ns) /\ a < b
            /\ shown'[i] = ns[a] /\ shown'[j] = ns[b]
        BY <1>2, <2>3, <2>4, <3>3
      <4> HIDE DEF a, b
      <4> QED  BY <2>2, <4>1 DEF Sorted
    <3> QED  BY <1>2, <2>3, <2>4, <3>1, <3>2, <3>3
  <2>7. \A k \in 1..Len(shown') : shown'[k] <= stored'
    <3> TAKE k \in 1..Len(shown')
    <3>1. CASE k <= Len(shown)
      BY <1>2, <2>1, <2>3, <2>4, <3>1 DEF OrderInv
    <3>2. CASE k > Len(shown)
      BY <1>2, <2>1, <2>2, <2>3, <2>4, <3>2
    <3> QED  BY <1>2, <2>3, <2>4, <3>1, <3>2
  <2>8. ASSUME NEW i \in 1..Len(log'), Unread(cursor', i, log')
        PROVE  Fresh(log'[i], shown')
    <3>1. Fresh(log[i], shown) /\ \A j \in 1..Len(ns) : ns[j] < log[i]
      BY <2>1, <2>2, <2>8 DEF Unread
    <3>2. ASSUME NEW k \in 1..Len(shown') PROVE shown'[k] < log[i]
      <4>1. CASE k <= Len(shown)
        BY <1>2, <2>3, <2>4, <3>1, <4>1 DEF Fresh
      <4>2. CASE k > Len(shown)
        <5> DEFINE b == k - Len(shown)
        <5>0. k \in (Len(shown) + 1)..(Len(shown) + Len(ns))
          BY <1>2, <2>3, <2>4, <4>2
        <5>1. b \in 1..Len(ns) /\ shown'[k] = ns[b]
          BY <2>4, <5>0
        <5> HIDE DEF b
        <5> QED  BY <3>1, <5>1
      <4> QED  BY <1>2, <2>3, <2>4, <4>1, <4>2
    <3> QED  BY <2>1, <3>2 DEF Fresh
  <2>9. Sorted(log)'
    BY <2>1 DEF OrderInv, Sorted
  <2> QED  BY <1>1, <2>1, <2>6, <2>7, <2>8, <2>9 DEF OrderInv, Sorted
<1> QED
  BY WrittenBefore, <1>5, <1>6, <1>7, <1>8, <1>9, <1>10, <1>11 DEF OrderInv, KeptNext, PollStep

(* A page whose polls did not overlap shows no notification twice and none
   out of order, whenever the list under its key expires and starts over, as long
   as no Store replaces a list that it has not read.                         *)
THEOREM SinglePollNeverTwice == PollSpec => []NeverTwice
<1> DEFINE Inv == TypeInv /\ (~overlapped => Solo) /\ (~overlapped /\ ~overwritten => OrderInv)
<1>1. PollInit => Inv
  <2> SUFFICES ASSUME PollInit PROVE Solo /\ OrderInv
    BY TypeInvInit
  <2>1. log = <<>> /\ shown = <<>> /\ Len(<<>>) = 0
    BY EmptySeq DEF PollInit
  <2>2. \A q \in Polls : poll[q].stage = "none"
    BY DEF PollInit, NoPoll
  <2> QED  BY <2>1, <2>2, TypeInvInit DEF OrderInv, Sorted, Solo
<1>2. Inv /\ [PollNext]_pollVars => Inv'
  <2> SUFFICES ASSUME Inv, [PollNext]_pollVars PROVE Inv'
    OBVIOUS
  <2>1. TypeInv'
    BY TypeInvStep
  <2>2. ~overlapped' => ~overlapped
    BY OverlappedBefore
  <2>3. ~overlapped' => Solo'
    BY <2>2, SoloStep
  <2>4. ~overlapped' /\ ~overwritten' => OrderInv'
    BY <2>2, WrittenBefore, OrderInvStep
  <2> QED  BY <2>1, <2>3, <2>4
<1>3. Inv => NeverTwice
  BY LenProperties DEF OrderInv, TypeInv, PollTypeOK, Sorted, NeverTwice
<1> HIDE DEF Inv
<1> QED  BY <1>1, <1>2, <1>3, PTL DEF PollSpec

-----------------------------------------------------------------------------
(* Polls that do not overlap, and a list that is kept: the page is a copy  *)
(* of the list up to its cursor, and an answer continues it.               *)

OnceInv ==
    /\ TypeInv
    /\ Len(shown) = cursor + 1
    /\ cursor + 1 <= Len(log)
    /\ \A i \in 1..(cursor + 1) : shown[i] = log[i]
    /\ \A p \in Polls : poll[p].stage = "ask" => poll[p].cursor = cursor
    /\ \A p \in Polls : poll[p].stage = "answer" =>
          LET r == poll[p].resp
          IN  /\ r.cursor = cursor + Len(r.notifications)
              /\ r.cursor + 1 <= Len(log)
              /\ \A i \in 1..Len(r.notifications) :
                    r.notifications[i] = log[cursor + 1 + i]

LEMMA OnceInvStep ==
    ASSUME OnceInv, Solo, [PollNext]_pollVars, KeptNext, ~overlapped'
    PROVE  OnceInv'
<1>1. TypeInv'
  BY TypeInvStep DEF OnceInv
<1>2. /\ log \in Seq(Entries) /\ Len(log) \in Nat /\ Len(log) <= MaxStored
      /\ shown \in Seq(Entries) /\ Len(shown) \in Nat
      /\ cursor \in Cursors /\ cursor \in Int /\ cursor >= -1
  BY LenProperties, MaxStoredAssumption
     DEF OnceInv, TypeInv, PollTypeOK, LogOK, Within, Cursors
<1>3. \A p \in Polls : poll[p].stage = "answer" =>
         /\ poll[p].resp.notifications \in Seq(Entries)
         /\ Len(poll[p].resp.notifications) \in Nat
  BY LenProperties DEF OnceInv, TypeInv, PollTypeOK, PollStates, Responses
<1>4. ASSUME UNCHANGED <<log, cursor, shown>>,
             \A p \in Polls : poll'[p].stage # "answer",
             \A p \in Polls : poll'[p].stage = "ask" => poll'[p].cursor = cursor
      PROVE  OnceInv'
  BY <1>1, <1>4 DEF OnceInv
<1>5. CASE Same
  BY <1>1, <1>5 DEF OnceInv, Same
<1>6. CASE Appends
  <2>1. /\ Len(log') = Len(log) + 1
        /\ \A i \in 1..Len(log) : log'[i] = log[i]
        /\ UNCHANGED <<cursor, poll, shown>>
    <3>1. stored + 1 \in Entries
      BY <1>6, MaxStoredAssumption DEF OnceInv, TypeInv, PollTypeOK, Appends, Entries
    <3> QED  BY <1>2, <1>6, <3>1, AppendProperties DEF Appends
  <2>2. \A i \in 1..(cursor + 1) : shown[i] = log'[i]
    BY <1>2, <2>1 DEF OnceInv
  <2>3. ASSUME NEW p \in Polls, poll[p].stage = "answer"
        PROVE  LET r == poll[p].resp
               IN  /\ r.cursor = cursor + Len(r.notifications)
                   /\ r.cursor + 1 <= Len(log')
                   /\ \A i \in 1..Len(r.notifications) :
                         r.notifications[i] = log'[cursor + 1 + i]
    <3> DEFINE r == poll[p].resp
               ns == r.notifications
    <3>1. /\ r.cursor = cursor + Len(ns) /\ r.cursor + 1 <= Len(log)
          /\ \A i \in 1..Len(ns) : ns[i] = log[cursor + 1 + i]
      BY <2>3 DEF OnceInv
    <3>2. Len(ns) \in Nat
      BY <1>3, <2>3
    <3> HIDE DEF r, ns
    <3>3. \A i \in 1..Len(ns) : cursor + 1 + i \in 1..Len(log)
      BY <1>2, <3>1, <3>2
    <3>4. r.cursor + 1 <= Len(log')
      BY <1>2, <2>1, <3>1, <3>2
    <3> QED  BY <2>1, <3>1, <3>3, <3>4 DEF r, ns
  <2> QED  BY <1>1, <1>2, <2>1, <2>2, <2>3 DEF OnceInv
<1>0. \A p \in Polls : PollStep(p) => \A q \in Polls :
         q # p => poll[q].stage = "none" /\ poll'[q].stage = "none"
  BY SoloStep DEF OnceInv
<1>7. ASSUME NEW p \in Polls, StartPoll(p)
      PROVE  OnceInv'
  BY <1>0, <1>4, <1>7 DEF OnceInv, TypeInv, PollTypeOK, PollStep, StartPoll, Asking, storeVars
<1>8. ASSUME NEW p \in Polls, PollFails(p)
      PROVE  OnceInv'
  BY <1>0, <1>4, <1>8 DEF OnceInv, TypeInv, PollTypeOK, PollStep, PollFails, NoPoll, storeVars
<1>9. ASSUME NEW p \in Polls, Answer(p)
      PROVE  OnceInv'
  <2> DEFINE r == ListResponse(log, cursor)
             ns == r.notifications
  <2>1. /\ poll'[p] = [stage |-> "answer", resp |-> r]
        /\ UNCHANGED <<log, stored, cursor, shown>>
        /\ \A q \in Polls : q # p => poll'[q].stage = "none"
    BY <1>0, <1>9 DEF OnceInv, TypeInv, PollTypeOK, PollStep, Answer, Answered, storeVars
  <2>2. StartIndex(log, cursor) = cursor /\ cursor + 1 <= Len(log)
    BY <1>2 DEF OnceInv, StartIndex
  <2>3. /\ Len(ns) = IF cursor + 1 < Len(log) THEN Len(log) - cursor - 1 ELSE 0
        /\ \A i \in 1..Len(ns) : ns[i] = log[cursor + 1 + i]
        /\ r.cursor = cursor + Len(ns)
    <3>1. LET from == StartIndex(log, cursor)
          IN  /\ Len(ns) = IF from + 1 < Len(log) THEN Len(log) - from - 1 ELSE 0
              /\ \A i \in 1..Len(ns) : ns[i] = log[from + 1 + i]
              /\ r.cursor = from + Len(ns)
      BY <1>2, ListResponseIs
    <3> HIDE DEF r
    <3> QED  BY <2>2, <3>1
  <2> HIDE DEF r
  <2>4. r.cursor + 1 <= Len(log)
    BY <1>2, <2>2, <2>3
  <2>5. \A q \in Polls : poll'[q].stage = "answer" => q = p
    BY <2>1
  <2>6. poll'[p].resp = r /\ \A q \in Polls : poll'[q].stage # "ask"
    BY <2>1
  <2> QED  BY <1>1, <2>1, <2>3, <2>4, <2>5, <2>6 DEF OnceInv
<1>10. ASSUME NEW p \in Polls, Show(p)
       PROVE  OnceInv'
  <2> DEFINE r == poll[p].resp
             ns == r.notifications
  <2>1. /\ cursor' = r.cursor /\ shown' = shown \o ns /\ log' = log
        /\ \A q \in Polls : poll'[q].stage = "none"
    BY <1>0, <1>10 DEF OnceInv, TypeInv, PollTypeOK, PollStep, Show, NoPoll, storeVars
  <2>2. /\ r.cursor = cursor + Len(ns) /\ r.cursor + 1 <= Len(log)
        /\ \A i \in 1..Len(ns) : ns[i] = log[cursor + 1 + i]
        /\ Len(shown) = cursor + 1
        /\ \A i \in 1..(cursor + 1) : shown[i] = log[i]
    BY <1>10 DEF OnceInv, Show
  <2>3. ns \in Seq(Entries) /\ Len(ns) \in Nat
    BY <1>3, <1>10 DEF Show
  <2> HIDE DEF r, ns
  <2>4. /\ Len(shown') = Len(shown) + Len(ns)
        /\ \A i \in 1..(Len(shown) + Len(ns)) : shown'[i] =
              IF i <= Len(shown) THEN shown[i] ELSE ns[i - Len(shown)]
    BY <1>2, <2>1, <2>3, ConcatProperties
  <2>5. ASSUME NEW i \in 1..(cursor' + 1) PROVE shown'[i] = log'[i]
    <3>1. i \in 1..(Len(shown) + Len(ns))
      BY <1>2, <2>1, <2>2, <2>3
    <3>2. CASE i <= Len(shown)
      BY <1>2, <2>1, <2>2, <2>4, <3>1, <3>2
    <3>3. CASE i > Len(shown)
      <4> DEFINE b == i - Len(shown)
      <4>1. b \in 1..Len(ns) /\ shown'[i] = ns[b] /\ cursor + 1 + b = i
        BY <1>2, <2>2, <2>3, <2>4, <3>1, <3>3
      <4> HIDE DEF b
      <4> QED  BY <2>1, <2>2, <4>1
    <3> QED  BY <1>2, <3>1, <3>2, <3>3
  <2>6. Len(shown') = cursor' + 1 /\ cursor' + 1 <= Len(log')
    BY <1>2, <2>1, <2>2, <2>3, <2>4
  <2> QED  BY <1>1, <2>1, <2>5, <2>6 DEF OnceInv
<1> QED
  BY <1>5, <1>6, <1>7, <1>8, <1>9, <1>10 DEF KeptNext, PollStep

KeptInv == TypeInv /\ (~overlapped => Solo /\ (Kept => OnceInv))

(* While the list is kept, a page whose polls did not overlap shows exactly the
   notifications of the list, in its order, up to its cursor.                *)
THEOREM SinglePollExactlyOnce == PollSpec => []ExactlyOnce
<1>1. PollInit => KeptInv
  <2> SUFFICES ASSUME PollInit PROVE Solo /\ OnceInv
    BY TypeInvInit DEF KeptInv
  <2>1. cursor = -1 /\ log = <<>> /\ shown = <<>> /\ Len(<<>>) = 0
    BY EmptySeq DEF PollInit
  <2>2. \A q \in Polls : poll[q].stage = "none"
    BY DEF PollInit, NoPoll
  <2> QED  BY <2>1, <2>2, TypeInvInit DEF OnceInv, Solo
<1>2. KeptInv /\ [PollNext]_pollVars => KeptInv'
  <2> SUFFICES ASSUME KeptInv, [PollNext]_pollVars PROVE KeptInv'
    OBVIOUS
  <2>1. TypeInv'
    BY TypeInvStep DEF KeptInv
  <2>2. Kept' => Kept /\ KeptNext
    BY KeptBefore DEF KeptInv
  <2>3. ~overlapped' => ~overlapped
    BY OverlappedBefore DEF KeptInv
  <2>4. ~overlapped' => Solo'
    BY <2>3, SoloStep DEF KeptInv
  <2>5. ~overlapped' /\ Kept' => OnceInv'
    BY <2>2, <2>3, OnceInvStep DEF KeptInv
  <2> QED  BY <2>1, <2>4, <2>5 DEF KeptInv
<1>3. KeptInv => ExactlyOnce
  <2> SUFFICES ASSUME OnceInv PROVE shown = SubSeq(log, 1, cursor + 1)
    BY DEF ExactlyOnce, KeptInv
  <2>1. /\ log \in Seq(Entries) /\ shown \in Seq(Entries) /\ Len(log) \in Nat
        /\ cursor \in Int /\ cursor >= -1
    BY LenProperties, MaxStoredAssumption DEF OnceInv, TypeInv, PollTypeOK, Cursors
  <2>2. \A i \in 1..(cursor + 1) : log[i] \in Entries
    BY <2>1, ElementOfSeq DEF OnceInv
  <2> DEFINE copy == SubSeq(log, 1, cursor + 1)
  <2>3. /\ copy \in Seq(Entries)
        /\ Len(copy) = IF 1 <= cursor + 1 THEN cursor + 1 - 1 + 1 ELSE 0
        /\ \A i \in 1..(cursor + 1 - 1 + 1) : copy[i] = log[1 + i - 1]
    BY <2>1, <2>2, SubSeqProperties
  <2> HIDE DEF copy
  <2>4. Len(copy) = Len(shown) /\ \A i \in 1..Len(shown) : copy[i] = shown[i]
    BY <2>1, <2>3 DEF OnceInv
  <2>5. shown = copy
    BY <2>1, <2>3, <2>4, SeqEqual
  <2> QED  BY <2>5 DEF copy
<1> QED  BY <1>1, <1>2, <1>3, PTL DEF PollSpec

=============================================================================
