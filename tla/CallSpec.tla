------------------------------- MODULE CallSpec -------------------------------
(***************************************************************************)
(* What a call between two user agents promises, whatever the network does *)
(* to its messages: nobody's call comes up unless the callee has accepted  *)
(* it, the callee's comes up only after the caller's, and a call that is   *)
(* down stays down.  InviteDialog.getStatus seen from outside: isEarly,    *)
(* isConfirmed, isTerminated (InviteDialog.java:132).                      *)
(***************************************************************************)

VARIABLES
  phase,      \* phase of each user agent's call
  accepted,   \* whether the callee has ever accepted
  wasUp       \* whether the caller's call has ever been up

vars == <<phase, accepted, wasUp>>

Party == {"caller", "callee"}
Phase == {"none", "asking", "accepted", "refused", "up", "down"}

Init ==
  /\ phase = [u \in Party |-> "none"]
  /\ accepted = FALSE
  /\ wasUp = FALSE

Move(u, from, to) == phase[u] \in from /\ phase' = [phase EXCEPT ![u] = to]

Ask ==
  /\ Move("caller", {"none"}, "asking")
  /\ UNCHANGED <<accepted, wasUp>>

Ring ==
  /\ phase["caller"] # "none"
  /\ Move("callee", {"none"}, "asking")
  /\ UNCHANGED <<accepted, wasUp>>

Accept ==
  /\ Move("callee", {"asking"}, "accepted")
  /\ accepted' = TRUE
  /\ UNCHANGED wasUp

\* A callee may refuse as soon as it is asked.
Refuse ==
  /\ phase["caller"] # "none"
  /\ Move("callee", {"none", "asking"}, "refused")
  /\ UNCHANGED <<accepted, wasUp>>

CallerUp ==
  /\ accepted
  /\ Move("caller", {"asking"}, "up")
  /\ wasUp' = TRUE
  /\ UNCHANGED accepted

CalleeUp ==
  /\ wasUp
  /\ Move("callee", {"accepted"}, "up")
  /\ UNCHANGED <<accepted, wasUp>>

Down ==
  /\ \E u \in Party : Move(u, Phase \ {"none", "down"}, "down")
  /\ UNCHANGED <<accepted, wasUp>>

Next == Ask \/ Ring \/ Accept \/ Refuse \/ CallerUp \/ CalleeUp \/ Down

Spec == Init /\ [][Next]_vars
================================================================================
