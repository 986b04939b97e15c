-------------------------------- MODULE Timer --------------------------------
(***************************************************************************)
(* org.zoolu.tools.Timer and the thread InnerTimer that runs it.           *)
(*                                                                         *)
(* SipStack sets Timer.SINGLE_THREAD to false by default, so every started *)
(* timer owns a thread that sleeps and then calls onInnerTimeout, while    *)
(* halt is called by whatever thread is handling a message.  Nothing is    *)
(* synchronised.  onInnerTimeout first reads "active" and "listener" and   *)
(* only then calls listener.onTimeout; a halt that lands between the two   *)
(* does not stop the call.  The states of one Timer object:                *)
(*                                                                         *)
(*   "created"   constructed, not started, listener set                    *)
(*   "running"   started: its thread sleeps                                *)
(*   "firing"    its thread has passed the test, onTimeout is about to run *)
(*   "zombie"    halted while "firing": onTimeout is still about to run    *)
(*   "dead"      halted, or expired: listener is null, nothing can happen  *)
(***************************************************************************)

TimerState == {"created", "running", "firing", "zombie", "dead"}

\* Timer.start: a halted timer has lost its listener and stays silent.
Started(t) == IF t = "created" THEN "running" ELSE t

\* Timer.halt.
Halted(t) == IF t \in {"firing", "zombie"} THEN "zombie" ELSE "dead"

\* The thread wakes up and finds the timer active with a listener.
CanElapse(t) == t = "running"

\* The thread is inside onInnerTimeout and is going to call onTimeout.
InFlight(t) == t \in {"firing", "zombie"}

\* What is left of the Timer object when its onTimeout has returned.
Expired == "dead"
==============================================================================
