-------------------------- MODULE ConsumerLifecycle --------------------------
(***************************************************************************)
(* The life of a driver process: Processor.Run of                          *)
(* services/driver/processor.go, the goroutine it starts, and Setup of     *)
(* services/driver/consumer.go, which sarama calls in that goroutine.      *)
(*                                                                         *)
(* The goroutine calls Consume again and again, one session of the group   *)
(* per call.  Setup closes the channel consumer.ready when a session       *)
(* begins, and the goroutine replaces the channel after every Consume.     *)
(* The main goroutine reads the field once and waits for the channel it    *)
(* found there to be closed before it serves /healthz and listens to       *)
(* signals; on a signal it cancels the context, waits for the goroutine    *)
(* and closes the group.                                                   *)
(*                                                                         *)
(* A channel is the number of its make(chan bool).                         *)
(***************************************************************************)
EXTENDS Integers

CONSTANT MaxChannels    \* bound on the calls of Consume, a channel for each

ASSUME ChannelsAssumption == MaxChannels \in Nat \ {0}

VARIABLES main,         \* where Processor.Run is
          awaited,      \* the channel that Run waits on, 0 before it read one
          loop,         \* where the goroutine with the Consume loop is
          ready,        \* Consumer.ready
          closes,       \* how often each channel was closed
          cancelled,    \* cancel() was called
          signalled,    \* sigterm holds a signal
          failed        \* history: a Consume ended before it set up a session

vars == <<main, awaited, loop, ready, closes, cancelled, signalled, failed>>

Channels == 1..MaxChannels

MainStages == {"connect", "await", "listen", "run", "stop", "close", "done", "killed"}

LoopStages == {"off", "consume", "session", "ended", "exited"}

Alive == main \notin {"done", "killed"}

(* The probe of the pod is answered on :8082/healthz. *)
Serving == main \in {"listen", "run", "stop", "close"}

-----------------------------------------------------------------------------
Init == /\ main = "connect"
        /\ awaited = 0
        /\ loop = "off"
        /\ ready = 1
        /\ closes = [c \in Channels |-> 0]
        /\ cancelled = FALSE
        /\ signalled = FALSE
        /\ failed = FALSE

(* GetConsumerGroup has succeeded, after any number of attempts that change
   nothing: the goroutine starts.                                           *)
Connect ==
    /\ main = "connect"
    /\ main' = "await"
    /\ loop' = "consume"
    /\ UNCHANGED <<awaited, ready, closes, cancelled, signalled, failed>>

(* <-consumer.ready: the field is read, unsynchronized with the goroutine
   that replaces it, and then the channel it held is waited on.             *)
ReadReady ==
    /\ main = "await" /\ awaited = 0
    /\ awaited' = ready
    /\ UNCHANGED <<main, loop, ready, closes, cancelled, signalled, failed>>

(* mutant: the wait does not block *)
NoAwait ==
    /\ main = "await" /\ awaited # 0
    /\ main' = "listen"
    /\ UNCHANGED <<awaited, loop, ready, closes, cancelled, signalled, failed>>

Await ==
    /\ main = "await" /\ awaited # 0
    /\ closes[awaited] > 0
    /\ main' = "listen"
    /\ UNCHANGED <<awaited, loop, ready, closes, cancelled, signalled, failed>>

(* signal.Notify: from here on a signal does not kill the process. *)
Notify ==
    /\ main = "listen"
    /\ main' = "run"
    /\ UNCHANGED <<awaited, loop, ready, closes, cancelled, signalled, failed>>

(* SIGINT or SIGTERM; the channel keeps one. *)
Signal ==
    /\ Alive
    /\ IF main \in {"connect", "await", "listen"}
       THEN main' = "killed" /\ UNCHANGED signalled
       ELSE signalled' = TRUE /\ UNCHANGED main
    /\ UNCHANGED <<awaited, loop, ready, closes, cancelled, failed>>

(* mutant: the context is left alone *)
StopQuietly ==
    /\ main = "run" /\ signalled
    /\ main' = "stop"
    /\ UNCHANGED <<awaited, loop, ready, closes, cancelled, signalled, failed>>

(* The select finds the signal, and cancel() is called. *)
Stop ==
    /\ main = "run" /\ signalled
    /\ cancelled' = TRUE
    /\ main' = "stop"
    /\ UNCHANGED <<awaited, loop, ready, closes, signalled, failed>>

(* mutant: no wg.Wait() *)
NoWait ==
    /\ main = "stop"
    /\ main' = "close"
    /\ UNCHANGED <<awaited, loop, ready, closes, cancelled, signalled, failed>>

(* wg.Wait() returns. *)
Wait ==
    /\ main = "stop" /\ loop = "exited"
    /\ main' = "close"
    /\ UNCHANGED <<awaited, loop, ready, closes, cancelled, signalled, failed>>

(* consumerGroup.Close(), whose error is logged only. *)
Close ==
    /\ main = "close"
    /\ main' = "done"
    /\ UNCHANGED <<awaited, loop, ready, closes, cancelled, signalled, failed>>

-----------------------------------------------------------------------------
(* The goroutine.  Consume joins the group and calls Setup, or fails. *)

(* mutant: the channel is left to Cleanup *)
SetupSilent ==
    /\ Alive /\ loop = "consume"
    /\ loop' = "session"
    /\ UNCHANGED <<main, awaited, ready, closes, cancelled, signalled, failed>>

Setup ==
    /\ Alive /\ loop = "consume"
    /\ closes' = [closes EXCEPT ![ready] = @ + 1]
    /\ loop' = "session"
    /\ UNCHANGED <<main, awaited, ready, cancelled, signalled, failed>>

(* Consume returns before Setup: the broker or the coordinator cannot be
   reached, or the context is cancelled.                                    *)
ConsumeFails ==
    /\ Alive /\ loop = "consume"
    /\ cancelled \/ ready < MaxChannels
    /\ loop' = "ended"
    /\ failed' = (failed \/ ~cancelled)
    /\ UNCHANGED <<main, awaited, ready, closes, cancelled, signalled>>

(* The session ends, by a rebalance or a lost connection. *)
Rebalance ==
    /\ Alive /\ loop = "session"
    /\ ready < MaxChannels
    /\ loop' = "ended"
    /\ UNCHANGED <<main, awaited, ready, closes, cancelled, signalled, failed>>

(* The session ends because its context was cancelled. *)
Drain ==
    /\ Alive /\ loop = "session"
    /\ cancelled
    /\ loop' = "ended"
    /\ UNCHANGED <<main, awaited, ready, closes, cancelled, signalled, failed>>

(* mutants: the channel is made once only; the field is cleared *)
AgainSameChannel ==
    /\ Alive /\ loop = "ended" /\ ~cancelled
    /\ loop' = "consume"
    /\ UNCHANGED <<main, awaited, ready, closes, cancelled, signalled, failed>>
AgainNoChannel ==
    /\ Alive /\ loop = "ended" /\ ~cancelled
    /\ ready' = 0
    /\ loop' = "consume"
    /\ UNCHANGED <<main, awaited, closes, cancelled, signalled, failed>>

(* The next Consume gets a channel of its own. *)
Again ==
    /\ Alive /\ loop = "ended"
    /\ ~cancelled
    /\ ready' = ready + 1
    /\ loop' = "consume"
    /\ UNCHANGED <<main, awaited, closes, cancelled, signalled, failed>>

Exit ==
    /\ Alive /\ loop = "ended"
    /\ cancelled
    /\ loop' = "exited"
    /\ UNCHANGED <<main, awaited, ready, closes, cancelled, signalled, failed>>

MainStep == Connect \/ ReadReady \/ Await \/ Notify \/ Stop \/ Wait \/ Close

Consume == Setup \/ ConsumeFails

LoopStep == Drain \/ Again \/ Exit

Next == MainStep \/ Consume \/ LoopStep \/ Rebalance \/ Signal

Spec == Init /\ [][Next]_vars

(* The Go scheduler runs what can run, the broker is there in the end, and
   sarama ends a call of Consume whose context is cancelled.  Rebalances and
   signals need not happen.                                                  *)
FairSpec == /\ Spec
            /\ WF_vars(MainStep)
            /\ WF_vars(Consume)
            /\ WF_vars(LoopStep)

-----------------------------------------------------------------------------
TypeOK == /\ main \in MainStages
          /\ awaited \in 0..MaxChannels
          /\ loop \in LoopStages
          /\ ready \in Channels
          /\ closes \in [Channels -> Nat]
          /\ cancelled \in BOOLEAN
          /\ signalled \in BOOLEAN
          /\ failed \in BOOLEAN

(* Setup never closes a channel twice, which would panic in sarama's
   goroutine and end the process: however sessions fail, end and begin, each
   Setup finds a channel that no earlier one has closed.                      *)
NeverClosedTwice == \A c \in Channels : closes[c] <= 1

(* The pod is never reported ready before a session of the group was set up. *)
ServesAfterSetup == Serving => \E c \in Channels : closes[c] > 0

(* The group is closed, and Run returns, only when no Consume is under way and
   none will be called: the offsets of the last session are flushed by its end. *)
ClosesLast == main \in {"close", "done"} => loop = "exited"

(* A signal that Run has received ends it, whatever the group is doing. *)
ShutsDown == (signalled /\ Alive) ~> main = "done"

(* If every Consume sets up its session, the first one makes the pod ready. *)
ServesUnlessFailed == (loop = "session") ~> (Serving \/ ~Alive \/ failed)

(* "Await till the consumer has been set up" (Run): once a session is set up,
   Run goes on.                                                              *)
AwaitsSetup == (loop = "session") ~> main # "await"

=============================================================================
