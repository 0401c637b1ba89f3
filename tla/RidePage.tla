------------------------------ MODULE RidePage -------------------------------
(***************************************************************************)
(* The page of the browser (react_app/src): it loads the locations, lets   *)
(* the user choose two of them and request rides, files the notifications  *)
(* that its polls receive under the ride they belong to, and shows the     *)
(* driver of the ride requested last and the route on a map.               *)
(*                                                                         *)
(* A ride is dispatched by the frontend and the driver service, whose      *)
(* notifications are the list that NotificationPolling reads.  Here the    *)
(* k-th of them is about[k].  Two rides of the page store at the same time *)
(* and may replace each other's notifications, and so may the calls of the *)
(* route service for one ride.  A ride's message may be delivered again,   *)
(* an attempt to store may fail, and the answer to a request may be lost   *)
(* although the dispatch goes on.  A ride has one delivery at a time: two  *)
(* at once and late route calls are in DispatchFlow.                       *)
(*                                                                         *)
(* React draws the page and runs its effects after the state has changed:  *)
(* stale says that they are still to run.                                  *)
(***************************************************************************)
EXTENDS NotificationPolling, DriverArrival, Filters

CONSTANTS Locations,    \* identifiers of locations
          MaxRides,     \* bound on the rides requested
          MaxDisturbed, \* bound on expired keys and repeated deliveries
          Drivers,      \* plates of drivers
          ETA,          \* the seconds a driver needs
          NaN,          \* what parseInt makes of the placeholder
          Undefined

ASSUME LocationsAssumption == Locations \subseteq Nat /\ NaN \notin Int
ASSUME MaxRidesAssumption == MaxRides \in Nat
ASSUME MaxDisturbedAssumption == MaxDisturbed \in Nat
ASSUME ETAAssumption == ETA \in [Drivers -> Readable \ {0}]
ASSUME UndefinedAssumption == /\ Undefined \notin Int
                              /\ Undefined \notin Durations
                              /\ Undefined \notin Drivers

VARIABLES page,           \* what is drawn, and the request for the locations
          locations,      \* the locations the page has loaded
          selected,       \* selectedLocations
          lastRequestID,  \* lastRequestIDRef.current, the next ride's number
          logs,           \* the rides with their entries, the newest first
          post,           \* what became of the request for each ride
          flow,           \* the next Store of each ride
          about,          \* what each stored notification says
          missed,         \* history: a notification was not stored
          disturbed,      \* how often a key expired or a delivery was repeated
          driver,         \* driverArrival, and the plate in driverDetails
          drawn,          \* the routes drawn on the map
          viewed,         \* the route on which the map is centred
          stale           \* the effects have to run

formVars == <<page, locations, selected, lastRequestID>>
flowVars == <<flow, about, missed, disturbed>>
viewVars == <<driver, drawn, viewed>>
pageVars == <<formVars, logs, post, viewVars, stale>>
vars == <<pollVars, flowVars, pageVars>>

Rides == 1..MaxRides

ASSUME WritersAssumption == Writers = Rides

Unselected == -1

-----------------------------------------------------------------------------
(* The notifications of a ride *)

(* The services that store a notification, in the order of the dispatch:
   dispatching, resolving locations, finding a driver, resolving routes,
   driver dispatched.                                                        *)
Services == <<"frontend", "location", "driver", "route", "driver">>

Resolving == 4      \* the one that each call of the route service stores
Dispatched == 5     \* the one that names the driver and the time

(* The Stores of a ride in the order of the dispatch, by their notification: the
   location service stores one for the pickup and again for the dropoff.     *)
Order == <<1, 2, 2, 3, 4, 5>>

Finding == 4        \* the first Store of a delivery of the ride's message

Plates(step) == IF step = Dispatched THEN Drivers ELSE {Undefined}

(* What the page keeps of a body: the driver and the time that it names. *)
Status(plate) ==
    [plate |-> plate,
     time  |-> IF plate = Undefined THEN Undefined ELSE Duration(ETA[plate])]

LogEntry == [messageType : {"error", "info"},
             service : {"browser", "api", "frontend", "location", "driver", "route"},
             status : [plate : Drivers \cup {Undefined}, time : Durations \cup {Undefined}]]

Log == [requestID : Rides, pickup : Locations, dropoff : Locations,
        entries : Seq(LogEntry)]

Notification == [request : Rides, step : DOMAIN Services,
                 plate : Drivers \cup {Undefined}]

Requested == [messageType |-> "info", service |-> "browser", status |-> Status(Undefined)]
RequestFailed == [messageType |-> "error", service |-> "api", status |-> Status(Undefined)]

(* The entry that the page makes of the k-th notification. *)
Entry(k) == [messageType |-> "info",
             service     |-> Services[about[k].step],
             status      |-> Status(about[k].plate)]

(* The notifications of ride r. *)
Of(r) == {k \in DOMAIN about : about[k].request = r}

(* The notifications ks as entries, by the ride they belong to. *)
EntriesOf(ks) ==
    [r \in Rides |-> LET own == Filter(ks, Of(r))
                     IN  [i \in DOMAIN own |-> Entry(own[i])]]

-----------------------------------------------------------------------------
(* The page's logs *)

AddNewLog(ls, pickup, dropoff, r) ==
    <<[requestID |-> r, pickup |-> pickup, dropoff |-> dropoff,
       entries |-> <<Requested>>]>> \o ls

(* mutants: the entries are put first; all are put into the newest log *)
AddEntriesFirst(ls, new) ==
    [i \in DOMAIN ls |-> [ls[i] EXCEPT !.entries = new[ls[i].requestID] \o @]]
AddEntriesToNewest(ls, new) ==
    [i \in DOMAIN ls |-> IF i = 1 THEN [ls[i] EXCEPT !.entries = @ \o new[ls[i].requestID]]
                                  ELSE ls[i]]

(* Each log gets the new entries of its ride; what belongs to no log is
   dropped.                                                                  *)
AddEntries(ls, new) ==
    [i \in DOMAIN ls |-> [ls[i] EXCEPT !.entries = @ \o new[ls[i].requestID]]]

(* mutant: the logs of the time when the ride was requested are written back *)
AddErrorToOld(ls, r) ==
    [i \in DOMAIN ls |-> IF ls[i].requestID = r
                            THEN [ls[i] EXCEPT !.entries = <<Requested, RequestFailed>>]
                            ELSE ls[i]]

AddErrorEntry(ls, r) ==
    AddEntries(ls, [q \in Rides |-> IF q = r THEN <<RequestFailed>> ELSE <<>>])

(* The seconds that a driver's entry announces. *)
ParseDriverLog(e) == IF e.service # "driver" \/ e.status.time = Undefined
                     THEN Undefined
                     ELSE Seconds(e.status.time)

NoDriver == [arrival |-> Undefined, plate |-> Undefined]

(* The entries in which it finds a time, and a plate. *)
Timed == {e \in LogEntry : ParseDriverLog(e) # Undefined}
Named == {e \in LogEntry : e.service = "driver" /\ e.status.plate # Undefined}

(* mutant: the newest time is taken, with the first plate *)
NewestArrival(ls) ==
    LET timed == Filter(ls[1].entries, Timed)
        named == Filter(ls[1].entries, Named)
    IN  [arrival |-> IF timed = <<>> THEN Undefined ELSE ParseDriverLog(timed[Len(timed)]),
         plate   |-> IF named = <<>> THEN Undefined ELSE Head(named).status.plate]

(* What the effect finds in the log of the ride requested last: the first time
   and, looked for on its own, the first plate.                              *)
RequestArrival(ls) ==
    LET timed == Filter(ls[1].entries, Timed)
        named == Filter(ls[1].entries, Named)
    IN  [arrival |-> IF timed = <<>> THEN Undefined ELSE ParseDriverLog(Head(timed)),
         plate   |-> IF named = <<>> THEN Undefined ELSE Head(named).status.plate]

(* The countdown is drawn when there is an arrival other than 0. *)
CountdownShown == driver.arrival \notin {Undefined, 0}

-----------------------------------------------------------------------------
(* The map *)

(* The locations whose coordinates the page knows. *)
COORDINATES == {1, 123, 392, 567, 731}

(* The route between the selected locations, if both have coordinates. *)
Route(sel) == IF {sel.pickup, sel.dropoff} \subseteq COORDINATES
              THEN {<<sel.pickup, sel.dropoff>>}
              ELSE {}

(* A map without a route stays where it is. *)
Centre(sel) == IF Route(sel) = {} THEN viewed ELSE Route(sel)

-----------------------------------------------------------------------------
NothingSelected == [pickup |-> Unselected, dropoff |-> Unselected]

Init == /\ PollInit
        /\ page = "loading"
        /\ locations = {}
        /\ selected = NothingSelected
        /\ lastRequestID = 1
        /\ logs = <<>>
        /\ post = [r \in Rides |-> "none"]
        /\ flow = [r \in Rides |-> 1]
        /\ about = <<>>
        /\ missed = FALSE
        /\ disturbed = 0
        /\ driver = NoDriver
        /\ drawn = {}
        /\ viewed = {}
        /\ stale = FALSE

(* The lists of locations that the frontend may answer. *)
Tables == SUBSET Locations

(* A list of no locations arrives as null, and drawing the choices throws:
   React takes the page away.                                                *)
PageWith(table) == IF table = {} THEN "crashed" ELSE "ready"

(* The locations are there. *)
SplashAnswered ==
    /\ page = "loading"
    /\ \E table \in Tables : locations' = table /\ page' = PageWith(table)
    /\ stale' = TRUE
    /\ UNCHANGED <<pollVars, flowVars, selected, lastRequestID, logs, post, viewVars>>

(* apiGet rejects: nobody asks again. *)
SplashFails == /\ page = "loading"
               /\ page' = "failed"
               /\ UNCHANGED <<pollVars, flowVars, locations, selected,
                              lastRequestID, logs, post, viewVars, stale>>

(* What the value of an option, or of the placeholder, is parsed to. *)
Choices == locations \cup {NaN}

Select(sel) == /\ page = "ready"
               /\ lastRequestID \in Rides      \* bound: for a ride to come
               /\ selected' = sel
               /\ stale' = TRUE
               /\ UNCHANGED <<pollVars, flowVars, page, locations, lastRequestID,
                              logs, post, viewVars>>

SelectPickup == \E id \in Choices : Select([selected EXCEPT !.pickup = id])
SelectDropoff == \E id \in Choices : Select([selected EXCEPT !.dropoff = id])

(* mutant: the button knows only the initial value *)
EnabledUnlessInitial(sel) == Unselected \notin {sel.pickup, sel.dropoff}

(* The button is enabled. *)
Enabled(sel) == {sel.pickup, sel.dropoff} \cap {Unselected, NaN} = {}

Find(id) == IF id \in locations THEN id ELSE Undefined

GetLastRequestID == lastRequestID

(* The button is pressed: the ride gets its number and its log, the selection
   is reset, and the request is sent.                                        *)
RequestDrive ==
    /\ page = "ready"
    /\ Enabled(selected)
    /\ lastRequestID \in Rides                 \* bound
    /\ LET requestID == GetLastRequestID
       IN  /\ logs' = AddNewLog(logs, Find(selected.pickup), Find(selected.dropoff), requestID)
           /\ post' = [post EXCEPT ![requestID] = "sent"]
    /\ lastRequestID' = lastRequestID + 1
    /\ selected' = NothingSelected
    /\ stale' = TRUE
    /\ UNCHANGED <<pollVars, flowVars, page, locations, viewVars>>

(* The frontend has sent the ride's message on its way and answers. *)
PostAnswered(r) == /\ post[r] = "sent"
                   /\ flow[r] >= Finding
                   /\ post' = [post EXCEPT ![r] = "answered"]
                   /\ UNCHANGED <<pollVars, flowVars, formVars, logs, viewVars, stale>>

(* The request fails, or its answer does not arrive or is no JSON. *)
PostFails(r) == /\ post[r] = "sent"
                /\ post' = [post EXCEPT ![r] = "failed"]
                /\ logs' = AddErrorEntry(logs, r)
                /\ stale' = TRUE
                /\ UNCHANGED <<pollVars, flowVars, formVars, viewVars>>

-----------------------------------------------------------------------------
(* The dispatch of a ride stores its notifications one after the other, but for
   the calls of the route service, which overlap.                            *)

Dispatching(r) == post[r] # "none" /\ flow[r] \in DOMAIN Order

Step(r) == Order[flow[r]]

(* mutant: the list is not searched *)
NeverListed(r, step) == FALSE

(* Store finds the notification in the list. *)
Listed(r, step) == \E i \in DOMAIN log : /\ about[log[i]].request = r
                                        /\ about[log[i]].step = step

Info(r, step, plate) == [request |-> r, step |-> step, plate |-> plate]

(* What is to be set is already there: a call of the route service that has read
   the same list was faster.                                                 *)
InPlace(r, l) == \E k \in DOMAIN about : /\ log = Append(l, k)
                                         /\ about[k] = Info(r, Step(r), Undefined)

(* A Store is done, and the dispatch goes on if it is the last of its kind. *)
Proceed(r) == \/ seen'[r] = {} /\ flow' = [flow EXCEPT ![r] = @ + 1]
              \/ Step(r) = Resolving /\ UNCHANGED flow

Reads(r) == /\ Dispatching(r)
            /\ ~Listed(r, Step(r))
            /\ seen[r] = {} \/ Step(r) = Resolving
            /\ Read(r)
            /\ UNCHANGED <<flowVars, pageVars>>

Stores(r, l) == /\ Dispatching(r)
                /\ ~InPlace(r, l)
                /\ Write(r, l)
                /\ \E plate \in Plates(Step(r)) :
                      about' = Append(about, Info(r, Step(r), plate))
                /\ Proceed(r)
                /\ UNCHANGED <<missed, disturbed, pageVars>>

StoresSame(r, l) == /\ Dispatching(r)
                    /\ InPlace(r, l)
                    /\ GiveUp(r, l)
                    /\ Proceed(r)
                    /\ UNCHANGED <<about, missed, disturbed, pageVars>>

StoresNothing(r) == /\ Dispatching(r)
                    /\ Listed(r, Step(r))
                    /\ UNCHANGED pollVars
                    /\ Proceed(r)
                    /\ UNCHANGED <<about, missed, disturbed, pageVars>>

(* GET or SETEX fails; the error is ignored. *)
StoreFails(r) == /\ Dispatching(r)
                 /\ UNCHANGED pollVars \/ \E l \in seen[r] : GiveUp(r, l)
                 /\ Proceed(r)
                 /\ missed' = TRUE
                 /\ UNCHANGED <<about, disturbed, pageVars>>

(* bound *)
Disturb == disturbed < MaxDisturbed /\ disturbed' = disturbed + 1

(* The ride's message is delivered again: its dispatch starts over. *)
DeliveredAgain(r) == /\ flow[r] > Finding
                     /\ seen[r] = {}
                     /\ Disturb
                     /\ flow' = [flow EXCEPT ![r] = Finding]
                     /\ UNCHANGED <<pollVars, about, missed, pageVars>>

StoreStep(r) == \/ Reads(r) \/ StoresNothing(r) \/ StoreFails(r)
                \/ \E l \in seen[r] : Stores(r, l) \/ StoresSame(r, l)

KeyExpires == Expire /\ Disturb /\ UNCHANGED <<flow, about, missed, pageVars>>

-----------------------------------------------------------------------------
(* The polls, on a page that is there; the crash ends the timer. *)

Asks(p) == page # "crashed" /\ StartPoll(p) /\ UNCHANGED <<flowVars, pageVars>>
IsAnswered(p) == Answer(p) /\ UNCHANGED <<flowVars, pageVars>>
Fails(p) == PollFails(p) /\ UNCHANGED <<flowVars, pageVars>>

(* mutant: the effect depends on the number of logs *)
ShowsUnseen(p) == /\ page # "crashed"
                  /\ Show(p)
                  /\ logs' = AddEntries(logs, EntriesOf(poll[p].resp.notifications))
                  /\ UNCHANGED <<flowVars, formVars, post, viewVars, stale>>

(* The answer's entries are added to the logs of their rides. *)
Shows(p) == /\ page # "crashed"
            /\ Show(p)
            /\ logs' = AddEntries(logs, EntriesOf(poll[p].resp.notifications))
            /\ stale' = (stale \/ poll[p].resp.notifications # <<>>)
            /\ UNCHANGED <<flowVars, formVars, post, viewVars>>

(* React has drawn the page and runs the effects that depend on the logs and
   on the selection.                                                         *)
Effects == /\ stale
           /\ stale' = FALSE
           /\ driver' = IF logs = <<>> THEN driver ELSE RequestArrival(logs)
           /\ drawn' = Route(selected)
           /\ viewed' = Centre(selected)
           /\ UNCHANGED <<pollVars, flowVars, formVars, logs, post>>

FormStep == SplashAnswered \/ SplashFails \/ SelectPickup \/ SelectDropoff \/ RequestDrive

RideStep(r) == PostAnswered(r) \/ PostFails(r) \/ StoreStep(r) \/ DeliveredAgain(r)

PagePollStep(p) == Asks(p) \/ IsAnswered(p) \/ Shows(p) \/ Fails(p)

Next == \/ FormStep
        \/ Effects
        \/ KeyExpires
        \/ \E r \in Rides : RideStep(r)
        \/ \E p \in Polls : PagePollStep(p)

Spec == Init /\ [][Next]_vars

(* React runs the effects of what it has drawn, the timer keeps firing, and polls
   may fail, but not all of them for ever.                                   *)
FairSpec == /\ Spec
            /\ WF_vars(Effects)
            /\ WF_vars(\E p \in Polls : Asks(p))
            /\ SF_vars(\E p \in Polls : IsAnswered(p))
            /\ SF_vars(\E p \in Polls : Shows(p))

-----------------------------------------------------------------------------
(* What is drawn of the logs: a row for each entry, of either type. *)

Row(e) == [service |-> e.service, status |-> e.status]

Panel(l) == [i \in DOMAIN l.entries |-> Row(l.entries[i])]

(* The panels of the rides whose request did not fail. *)
Panels == {Panel(logs[i]) : i \in {j \in DOMAIN logs : post[logs[j].requestID] # "failed"}}

NamesDriver(row) == row.service = "driver" /\ row.status.plate # Undefined

-----------------------------------------------------------------------------
TypeOK == /\ PollTypeOK
          /\ page \in {"loading", "failed", "ready", "crashed"}
          /\ locations \in SUBSET Locations
          /\ selected \in [pickup : Locations \cup {Unselected, NaN},
                           dropoff : Locations \cup {Unselected, NaN}]
          /\ lastRequestID \in 1..(MaxRides + 1)
          /\ logs \in Seq(Log)
          /\ post \in [Rides -> {"none", "sent", "answered", "failed"}]
          /\ flow \in [Rides -> 1..(Len(Order) + 1)]
          /\ about \in Seq(Notification) /\ Len(about) = stored
          /\ missed \in BOOLEAN
          /\ disturbed \in 0..MaxDisturbed
          /\ driver \in [arrival : Int \cup {Undefined}, plate : Drivers \cup {Undefined}]
          /\ drawn \in SUBSET (Locations \X Locations)
          /\ viewed \in SUBSET (Locations \X Locations)
          /\ stale \in BOOLEAN

OfType(type) == {e \in LogEntry : e.messageType = type}

(* Every log holds the request, then exactly those of the notifications the
   page has received that are of its ride, in the order received, and one error
   if the request failed, wherever that came: nothing is lost or misfiled when
   answers of polls, a failing request and further rides interleave.         *)
LogsComplete ==
    \A i \in DOMAIN logs :
        LET l == logs[i]
        IN  /\ Filter(l.entries, OfType("info")) = <<Requested>> \o EntriesOf(shown)[l.requestID]
            /\ Filter(l.entries, OfType("error")) =
                   IF post[l.requestID] = "failed" THEN <<RequestFailed>> ELSE <<>>

(* The log of a ride that is drawn names two locations that exist: the page
   draws their names without asking whether there are any.                   *)
KnownLocations == \A i \in DOMAIN logs : {logs[i].pickup, logs[i].dropoff} \subseteq locations

(* Once the effects have run, the driver on the page is the first one received
   for the ride requested last, plate and time of the same notification, with
   the time that was announced; later deliveries of the ride's message and
   repeated entries do not replace it, and another ride's driver is not left. *)
FirstDriverShown ==
    ~stale /\ logs # <<>> =>
        LET own == Filter(shown, {k \in Of(logs[1].requestID) : about[k].step = Dispatched})
        IN  driver = IF own = <<>>
                     THEN NoDriver
                     ELSE [arrival |-> ETA[about[Head(own)].plate],
                           plate   |-> about[Head(own)].plate]

(* As long as the list is kept and the polls did not overlap, no notification
   has two rows in a panel, although messages are delivered again, the route
   service and the location service store theirs several times, attempts to
   store and requests fail, and two rides of the page store at once.         *)
RowsOnce ==
    Kept /\ ~overlapped =>
        \A n \in DOMAIN logs : LET rows == Panel(logs[n])
                               IN  \A i, j \in DOMAIN rows :
            /\ rows[i].service = rows[j].service
            /\ NamesDriver(rows[i]) = NamesDriver(rows[j])
            => i = j

(* The sixth row of a panel names the driver, as the end-to-end test has it,
   when the list was kept, no polls overlapped, every notification was stored and
   the request did not fail, also when its message was delivered again and
   another ride of the page was under way.                                   *)
SixthRow ==
    Kept /\ ~overlapped /\ ~missed =>
        \A rows \in Panels : Len(rows) >= 6 => NamesDriver(rows[6])

(* The driver of the ride requested last is on the page in the end, with a
   countdown, whatever else was lost, unless another ride is requested or the
   list is not kept.                                                         *)
DriverArrives ==
    \A r \in Rides :
        (\E k \in DOMAIN about : about[k].request = r /\ about[k].step = Dispatched)
            ~> \/ ~stale /\ CountdownShown /\ logs[1].requestID = r
               \/ lastRequestID # r + 1
               \/ ~Kept
=============================================================================
