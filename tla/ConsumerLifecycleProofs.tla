---------------------- MODULE ConsumerLifecycleProofs ----------------------
(***************************************************************************)
(* Proofs about ConsumerLifecycle, for any number of calls of Consume.     *)
(***************************************************************************)
EXTENDS ConsumerLifecycle, TLAPS

-----------------------------------------------------------------------------
LEMMA TypeInit == Init => TypeOK
<1> SUFFICES ASSUME Init PROVE TypeOK
  OBVIOUS
<1>1. cancelled \in BOOLEAN /\ signalled \in BOOLEAN /\ failed \in BOOLEAN
  BY DEF Init
<1> QED
  BY <1>1, ChannelsAssumption DEF Init, TypeOK, Channels, MainStages, LoopStages

(* The field never holds more than the channels made so far. *)
LEMMA TypeStep ==
    ASSUME TypeOK, [Next]_vars, loop' = "consume" => ready' \in Channels
    PROVE  TypeOK'
<1> USE DEF TypeOK, Channels, MainStages, LoopStages
<1>1. CASE UNCHANGED vars
  BY <1>1 DEF vars
<1>2. CASE MainStep
  <2>1. cancelled' \in BOOLEAN /\ signalled' \in BOOLEAN /\ failed' \in BOOLEAN
    BY <1>2 DEF MainStep, Connect, ReadReady, Await, Notify, Stop, Wait, Close
  <2>2. closes' \in [Channels -> Nat] /\ ready' = ready
    BY <1>2 DEF MainStep, Connect, ReadReady, Await, Notify, Stop, Wait, Close
  <2>3. main' \in MainStages /\ loop' \in LoopStages /\ awaited' \in 0..MaxChannels
    BY <1>2, ChannelsAssumption
       DEF MainStep, Connect, ReadReady, Await, Notify, Stop, Wait, Close
  <2> QED  BY <2>1, <2>2, <2>3
<1>3. CASE Setup
  BY <1>3 DEF Setup
<1>4. CASE ConsumeFails
  <2>1. failed' \in BOOLEAN
    BY <1>4 DEF ConsumeFails
  <2> QED  BY <1>4, <2>1 DEF ConsumeFails
<1>5. CASE Rebalance \/ LoopStep
  BY <1>5 DEF Rebalance, LoopStep, Drain, Again, Exit
<1>6. CASE Signal
  BY <1>6 DEF Signal
<1> QED
  BY <1>1, <1>2, <1>3, <1>4, <1>5, <1>6 DEF Next, Consume

-----------------------------------------------------------------------------
(* The channels behind the current one are untouched, and the current one is
   when a call of Consume begins.  A call that has ended leaves a channel to
   make unless the context was cancelled, by Run, which waits for the loop.  *)

Untouched(c) == closes[c] = 0

LifeInv ==
    /\ TypeOK
    /\ \A c \in Channels : closes[c] <= 1
    /\ \A c \in Channels : c > ready => Untouched(c)
    /\ loop \in {"off", "consume"} => Untouched(ready)
    /\ main = "connect" => loop = "off"
    /\ main = "connect" \/ main = "killed" \/ loop # "off"
    /\ loop = "ended" => cancelled \/ ready < MaxChannels
    /\ Serving => \E c \in Channels : closes[c] > 0
    /\ main \in {"close", "done"} => loop = "exited"

LEMMA LifeInvInit == Init => LifeInv
BY TypeInit, ChannelsAssumption
   DEF Init, LifeInv, Untouched, Channels, Serving

LEMMA LifeInvStep ==
    ASSUME LifeInv, [Next]_vars
    PROVE  LifeInv'
<1> USE DEF LifeInv, Untouched
<1>1. /\ ready \in Channels /\ ready \in Nat /\ MaxChannels \in Nat
      /\ \A c \in Channels : closes[c] \in Nat
  BY ChannelsAssumption DEF TypeOK, Channels
<1>2. TypeOK'
  <2>1. loop' = "consume" => ready' \in Channels
    BY <1>1 DEF Next, MainStep, Connect, ReadReady, Await, Notify, Stop, Wait, Close,
        Consume, Setup, ConsumeFails, Rebalance, LoopStep, Drain, Again, Exit, Signal,
        vars, Channels
  <2> QED  BY <2>1, TypeStep
<1>3. CASE UNCHANGED vars
  BY <1>2, <1>3 DEF vars, Serving
<1>4. CASE Connect \/ ReadReady \/ Notify \/ Stop \/ Wait \/ Close
  BY <1>2, <1>4 DEF Connect, ReadReady, Notify, Stop, Wait, Close, Serving
<1>5. CASE Await
  <2>1. awaited \in Channels
    BY <1>1, <1>5 DEF Await, TypeOK, Channels
  <2> QED  BY <1>2, <1>5, <2>1 DEF Await, Serving
<1>6. CASE Setup
  <2>1. /\ closes'[ready] = 1 /\ ready' = ready
        /\ \A c \in Channels : c # ready => closes'[c] = closes[c]
    BY <1>1, <1>6 DEF Setup, TypeOK
  <2> QED  BY <1>1, <1>2, <1>6, <2>1 DEF Setup, Serving
<1>7. CASE ConsumeFails \/ Rebalance \/ Drain \/ Exit
  BY <1>2, <1>7 DEF ConsumeFails, Rebalance, Drain, Exit, Serving, Alive
<1>8. CASE Again
  <2>1. ready' = ready + 1 /\ ready' \in Channels
    BY <1>1, <1>8 DEF Again, Channels
  <2> QED  BY <1>1, <1>2, <1>8, <2>1 DEF Again, Serving, Alive
<1>9. CASE Signal
  BY <1>2, <1>9 DEF Signal, Serving, Alive
<1> QED
  BY <1>3, <1>4, <1>5, <1>6, <1>7, <1>8, <1>9 DEF Next, MainStep, Consume, LoopStep

THEOREM LifeInvariant == Spec => []LifeInv
<1>1. LifeInv /\ [Next]_vars => LifeInv'
  BY LifeInvStep
<1> QED  BY <1>1, LifeInvInit, PTL DEF Spec

(* The process and its channels are always well formed. *)
THEOREM LifecycleTypeCorrect == Spec => []TypeOK
<1>1. LifeInv => TypeOK
  BY DEF LifeInv
<1> QED  BY <1>1, LifeInvariant, PTL

(* However sessions fail, end and begin, Setup closes a channel of its own. *)
THEOREM ReadyNeverClosedTwice == Spec => []NeverClosedTwice
<1>1. LifeInv => NeverClosedTwice
  BY DEF LifeInv, NeverClosedTwice
<1> QED  BY <1>1, LifeInvariant, PTL

(* The pod is not ready before a session was set up. *)
THEOREM ReadyAfterSetup == Spec => []ServesAfterSetup
<1>1. LifeInv => ServesAfterSetup
  BY DEF LifeInv, ServesAfterSetup
<1> QED  BY <1>1, LifeInvariant, PTL

(* The group is closed behind the last call of Consume. *)
THEOREM GroupClosedLast == Spec => []ClosesLast
<1>1. LifeInv => ClosesLast
  BY DEF LifeInv, ClosesLast
<1> QED  BY <1>1, LifeInvariant, PTL

-----------------------------------------------------------------------------
(* What Run waits for.  As long as every Consume has set up its session, the
   channel that Run has read is closed, or is the one that the Consume under
   way is about to close: Run never waits for a session that will not come.  *)
AwaitsAClosed ==
    main = "await" /\ awaited # 0 /\ ~failed =>
        closes[awaited] > 0 \/ (loop = "consume" /\ awaited = ready)

(* A channel that the goroutine holds after Setup is closed, and before Run
   listens to signals nobody cancels the context.                            *)
WaitInv ==
    /\ main \in {"connect", "await", "listen", "run"} => ~cancelled
    /\ main = "connect" => awaited = 0
    /\ loop = "session" => closes[ready] > 0
    /\ loop = "ended" => failed \/ cancelled \/ closes[ready] > 0
    /\ loop = "exited" => cancelled
    /\ AwaitsAClosed

LEMMA WaitInvStep == LifeInv /\ WaitInv /\ [Next]_vars => WaitInv'
<1>. SUFFICES ASSUME LifeInv, WaitInv, [Next]_vars PROVE WaitInv'
  OBVIOUS
<1>1. /\ ready \in Channels /\ ready \in Nat
      /\ awaited # 0 => awaited \in Channels
      /\ closes \in [Channels -> Nat]
      /\ loop \in LoopStages
      /\ main = "connect" => loop = "off"
      /\ main = "await" => loop # "off"
  BY DEF LifeInv, TypeOK, Channels
<1>2. CASE UNCHANGED vars
  BY <1>2 DEF vars, WaitInv, AwaitsAClosed
<1>3. CASE Connect
  BY <1>3 DEF Connect, WaitInv, AwaitsAClosed
<1>4. CASE ReadReady
  <2>1. ~cancelled /\ loop \in {"consume", "session", "ended"}
    BY <1>1, <1>4 DEF ReadReady, WaitInv, LoopStages
  <2>2. ~failed => closes[ready] > 0 \/ loop = "consume"
    BY <2>1 DEF WaitInv
  <2>. QED  BY <1>4, <2>2 DEF ReadReady, WaitInv, AwaitsAClosed
<1>5. CASE Await \/ Notify \/ Stop \/ Wait \/ Close \/ Signal
  BY <1>5 DEF Await, Notify, Stop, Wait, Close, Signal, WaitInv, AwaitsAClosed
<1>6. CASE Setup
  <2>1. /\ closes'[ready] > 0 /\ ready' = ready
        /\ \A c \in Channels : closes[c] > 0 => closes'[c] > 0
    BY <1>1, <1>6 DEF Setup
  <2>. QED  BY <1>1, <1>6, <2>1 DEF Setup, WaitInv, AwaitsAClosed
<1>7. CASE ConsumeFails
  <2>1. failed' \/ (cancelled /\ main # "await")
    BY <1>7 DEF ConsumeFails, WaitInv
  <2>. QED  BY <1>7, <2>1 DEF ConsumeFails, WaitInv, AwaitsAClosed
<1>8. CASE Rebalance \/ Drain \/ Exit
  BY <1>8 DEF Rebalance, Drain, Exit, WaitInv, AwaitsAClosed
<1>9. CASE Again
  BY <1>9 DEF Again, WaitInv, AwaitsAClosed
<1>. QED
  BY <1>2, <1>3, <1>4, <1>5, <1>6, <1>7, <1>8, <1>9 DEF Next, MainStep, Consume, LoopStep

(* When no Consume has failed, what Run waits for has happened, or is the next
   thing that the goroutine does.                                            *)
THEOREM AwaitedIsClosed == Spec => []AwaitsAClosed
<1>1. Init => WaitInv
  BY DEF Init, WaitInv, AwaitsAClosed
<1>2. WaitInv => AwaitsAClosed
  BY DEF WaitInv
<1>3. LifeInv /\ [Next]_vars => LifeInv'
  BY LifeInvStep
<1>. QED  BY <1>1, <1>2, <1>3, WaitInvStep, LifeInvInit, PTL DEF Spec

(* Run waits on a channel that was replaced before it was closed. *)
Stuck == main = "await" /\ awaited \in Channels /\ awaited < ready /\ closes[awaited] = 0

StaysStuck == [][Stuck => Stuck' \/ main' = "killed"]_vars

(* A failed Consume is more than a delay: once Run waits on a channel that the
   goroutine has replaced, no session that is set up later wakes it, and only
   a signal that kills the process ends the wait.                            *)
THEOREM NeverWoken == Spec => StaysStuck
<1>1. LifeInv /\ Stuck /\ [Next]_vars => Stuck' \/ main' = "killed"
  <2>. SUFFICES ASSUME LifeInv, Stuck, [Next]_vars PROVE Stuck' \/ main' = "killed"
    OBVIOUS
  <2>. USE DEF Stuck
  <2>1. ready \in Nat /\ awaited \in Nat \ {0} /\ closes \in [Channels -> Nat]
    BY DEF LifeInv, TypeOK, Channels
  <2>2. CASE MainStep \/ ConsumeFails \/ Rebalance \/ Signal
    BY <2>1, <2>2 DEF MainStep, Connect, ReadReady, Await, Notify, Stop, Wait, Close,
                      ConsumeFails, Rebalance, Signal
  <2>3. CASE Setup
    BY <2>1, <2>3 DEF Setup
  <2>4. CASE LoopStep
    BY <2>1, <2>4 DEF LoopStep, Drain, Again, Exit
  <2>5. CASE UNCHANGED vars
    BY <2>5 DEF vars
  <2>. QED  BY <2>2, <2>3, <2>4, <2>5 DEF Next, Consume
<1>. QED  BY <1>1, LifeInvariant, PTL DEF Spec, StaysStuck

=============================================================================
