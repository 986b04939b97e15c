-------------------- MODULE InviteTransactionServer_proofs --------------------
(***************************************************************************)
(* What InviteTransactionServer guarantees for every set of status codes,  *)
(* every schedule of its threads and every behaviour of the network.       *)
(***************************************************************************)
EXTENDS InviteTransactionServer, TLAPS

\* Nothing has happened to an object that has not taken an INVITE.
WaitingIsFresh ==
  status \in {"IDLE", "WAITING"} =>
    /\ transaction_id = "INVITE" /\ Own \notin keys
    /\ busy = {} /\ transaction_listener
    /\ status = "IDLE" => keys = {} /\ rx = "none"

\* The receive thread past its test, and past the first step of a handler.  terminate()
\* may land anywhere in between.
Handling ==
  /\ rx = "INVITE" /\ "trying" \notin busy =>
       status \in {"WAITING", "TERMINATED"} /\ transaction_id = "INVITE" /\ Own \notin keys
  /\ "trying" \in busy => rx = "INVITE" /\ status \in {"TRYING", "TERMINATED"}
  /\ "acked" \in busy => rx = "ACK" /\ status \in {"CONFIRMED", "TERMINATED"}
  /\ rx = "ACK" => status \in {"COMPLETED", "CONFIRMED", "TERMINATED"} /\ clearing_to = "created"

\* The own key in the table is the one the object knows.
KnowsItsKey == Own \in keys => transaction_id = Own

\* While the 100 is being sent it is the last response.
TryingResponse == status = "TRYING" => response = Trying

\* Whoever is about to send the last response has one.
Responded ==
  (\/ status \in {"TRYING", "PROCEEDING", "COMPLETED", "CONFIRMED"}
   \/ busy # {} \/ Own \in keys \/ rx = "ACK") => response # 0

\* An object that may still answer has timers that have never run; one that has been
\* terminated, and was then revived by the INVITE being handled, answers no more.
TimersFresh ==
  /\ status \in {"IDLE", "WAITING", "TRYING", "PROCEEDING"} /\ transaction_listener =>
       end_to = "created" /\ clearing_to = "created"
  /\ status = "COMPLETED" => clearing_to = "created"
  /\ status = "TERMINATED" => ~transaction_listener

Rest == /\ ListedWhileLive /\ WatchdogRuns /\ WaitingIsFresh /\ Handling /\ KnowsItsKey
        /\ TryingResponse /\ Responded /\ TimersFresh

IInv == TypeOK /\ Rest

--------------------------------------------------------------------------------

\* What either side sends is a message of this transaction.
LEMMA Messages ==
  /\ \A m \in {"INVITE", "OPTIONS", "ACK"} : Req(m) \in Message
  /\ \A c \in Code \cup {Trying} : Resp(c) \in Message
  BY DEF Message

\* The handlers keep every variable in its type.
LEMMA TypeStep == IInv /\ [Next]_vars => TypeOK'
  <1> SUFFICES ASSUME IInv, [Next]_vars PROVE TypeOK'
    OBVIOUS
  <1> USE DEF IInv, Rest, Responded, TypeOK, TimerState, Status, Thread, Key, Own, timers, threads
  <1>1. CASE Listen
    BY <1>1 DEF Listen
  <1>2. CASE Answer
    <2> SUFFICES ASSUME NEW c \in Code, RespondWith(c) PROVE TypeOK'
      BY <1>2 DEF Answer
    <2>1. net' \subseteq Message /\ response' \in Code
      BY Messages DEF RespondWith, Send
    <2>2. status' \in Status /\ keys' \subseteq Key /\ transaction_listener' \in BOOLEAN
      BY DEF RespondWith
    <2>3. retransmission_to' \in TimerState /\ end_to' \in TimerState
      BY DEF RespondWith, Started
    <2> QED
      BY <2>1, <2>2, <2>3 DEF RespondWith
  <1>3. CASE Terminate
    BY <1>3 DEF Terminate, HaltAnswerTimers, Halted, KeyToRemove
  <1>4. CASE Admit
    BY <1>4 DEF Admit, Exchange, Req
  <1>5. CASE OnInvite
    BY <1>5 DEF OnInvite, Trying
  <1>6. CASE FinishInvite
    BY Messages, <1>6 DEF FinishInvite, Send
  <1>7. CASE OnInviteAgain
    BY Messages, <1>7 DEF OnInviteAgain, Exchange
  <1>8. CASE OnOptions
    BY <1>8 DEF OnOptions, Exchange
  <1>9. CASE OnAck
    <2>1. acked' \in BOOLEAN
      BY <1>9, Zenon DEF OnAck, TypeOK
    <2> QED
      BY <1>9, <2>1 DEF OnAck, HaltAnswerTimers, Halted
  <1>10. CASE FinishAck
    BY <1>10 DEF FinishAck, Started
  <1>11. CASE OnIgnored
    BY <1>11 DEF OnIgnored, Exchange
  <1>12. CASE ElapseRetransmission
    BY <1>12 DEF ElapseRetransmission, Saw, CanElapse, Expired
  <1>13. CASE Retransmit
    BY Messages, <1>13 DEF Retransmit, Send, Started
  <1>14. CASE ElapseEnd
    BY <1>14 DEF ElapseEnd, Saw, CanElapse, Expired
  <1>15. CASE OnEndTimeout
    BY <1>15 DEF OnEndTimeout, Halted
  <1>16. CASE ElapseClearing
    BY <1>16 DEF ElapseClearing, Saw, CanElapse, Expired
  <1>17. CASE OnClearingTimeout
    BY <1>17 DEF OnClearingTimeout
  <1>18. CASE PeerSends
    BY Messages, <1>18 DEF PeerSends, Send
  <1>19. CASE Vanish
    BY <1>19 DEF Vanish
  <1>20. CASE UNCHANGED vars
    BY <1>20 DEF vars
  <1> QED
    BY <1>1, <1>2, <1>3, <1>4, <1>5, <1>6, <1>7, <1>8, <1>9, <1>10, <1>11, <1>12,
       <1>13, <1>14, <1>15, <1>16, <1>17, <1>18, <1>19, <1>20 DEF Next, Step, Receive, OnTimeout

\* Each handler preserves the rest of the inductive invariant.
LEMMA RestStep == IInv /\ [Next]_vars => Rest'
  <1> SUFFICES ASSUME IInv, [Next]_vars PROVE Rest'
    OBVIOUS
  <1> USE DEF IInv, Rest, TypeOK, TimerState, Status, Key, Own, timers, threads, ListedWhileLive,
              WatchdogRuns, WaitingIsFresh, Handling, KnowsItsKey, TryingResponse, Responded,
              TimersFresh
  <1>1. CASE Listen
    BY <1>1 DEF Listen
  <1>2. CASE Answer
    <2> SUFFICES ASSUME NEW c \in Code, RespondWith(c) PROVE Rest'
      BY <1>2 DEF Answer
    <2>1. c \in 100..699 /\ c # 0
      BY CodeAssumption
    <2>2. CASE c \in Provisional
      BY <2>1, <2>2 DEF RespondWith, Started, Provisional, Success, Failure
    <2>3. CASE c \in Success
      BY <2>1, <2>3 DEF RespondWith, Started, Provisional, Success, Failure
    <2>4. CASE c \in Failure
      BY <2>1, <2>4 DEF RespondWith, Started, Provisional, Success, Failure
    <2> QED
      BY <2>2, <2>3, <2>4 DEF RespondWith
  <1>3. CASE Terminate
    BY <1>3 DEF Terminate, HaltAnswerTimers, Halted, KeyToRemove
  <1>4. CASE Admit
    BY <1>4 DEF Admit
  <1>5. CASE OnInvite
    BY CodeAssumption, <1>5 DEF OnInvite, Trying
  <1>6. CASE FinishInvite
    BY <1>6 DEF FinishInvite
  <1>7. CASE OnInviteAgain
    BY <1>7 DEF OnInviteAgain
  <1>8. CASE OnOptions
    BY <1>8 DEF OnOptions
  <1>9. CASE OnAck
    BY <1>9 DEF OnAck, HaltAnswerTimers, Halted
  <1>10. CASE FinishAck
    BY <1>10 DEF FinishAck, Started
  <1>11. CASE OnIgnored
    BY <1>11 DEF OnIgnored
  <1>12. CASE ElapseRetransmission
    BY <1>12 DEF ElapseRetransmission, Saw, CanElapse, Expired
  <1>13. CASE Retransmit
    BY <1>13 DEF Retransmit, Started
  <1>14. CASE ElapseEnd
    BY <1>14 DEF ElapseEnd, Saw, CanElapse, Expired
  <1>15. CASE OnEndTimeout
    BY <1>15 DEF OnEndTimeout, Halted
  <1>16. CASE ElapseClearing
    BY <1>16 DEF ElapseClearing, Saw, CanElapse, Expired
  <1>17. CASE OnClearingTimeout
    BY <1>17 DEF OnClearingTimeout
  <1>18. CASE PeerSends
    BY <1>18 DEF PeerSends
  <1>19. CASE Vanish
    BY <1>19 DEF Vanish
  <1>20. CASE UNCHANGED vars
    BY <1>20 DEF vars
  <1> QED
    BY <1>1, <1>2, <1>3, <1>4, <1>5, <1>6, <1>7, <1>8, <1>9, <1>10, <1>11, <1>12,
       <1>13, <1>14, <1>15, <1>16, <1>17, <1>18, <1>19, <1>20 DEF Next, Step, Receive, OnTimeout

\* The inductive invariant holds in every state the transaction reaches.
LEMMA Invariance == Spec => []IInv
  <1>1. Init => IInv
    BY DEF Init, IInv, Rest, TypeOK, TimerState, Status, Key, Own, ListedWhileLive, WatchdogRuns,
           WaitingIsFresh, Handling, KnowsItsKey, TryingResponse, Responded,
              TimersFresh
  <1>2. IInv /\ [Next]_vars => IInv'
    BY TypeStep, RestStep DEF IInv
  <1> QED
    BY <1>1, <1>2, PTL DEF Spec

--------------------------------------------------------------------------------

\* Every variable keeps its type: no response but 100 and the codes the user agent may
\* answer with is ever recorded or sent.
THEOREM TypeCorrect == Spec => []TypeOK
  <1>1. IInv => TypeOK
    BY DEF IInv
  <1> QED
    BY <1>1, Invariance, PTL

\* Which keys of the provider's table hold the transaction in which status, and the one
\* way in which a finished one stays there (InviteTransactionServer.java:284).
THEOREM ListingCorrect == Spec => []ListedWhileLive
  <1>1. IInv => ListedWhileLive
    BY DEF IInv, Rest
  <1> QED
    BY <1>1, Invariance, PTL

\* A refusal in the table always has a timer or a thread that will take it out.
THEOREM WatchdogCorrect == Spec => []WatchdogRuns
  <1>1. IInv => WatchdogRuns
    BY DEF IInv, Rest
  <1> QED
    BY <1>1, Invariance, PTL

\* Once the refusal is acknowledged or given up at most one retransmission is left: no
\* timer that expires then repeats it (InviteTransactionServer.java:251).
THEOREM LateResponseCorrect == Spec => OneLateResponse
  <1> DEFINE Late == status \in {"CONFIRMED", "TERMINATED"} /\ "resend" \notin busy =>
                       "resend" \notin busy'
  <1>1. [Next]_vars => Late
    <2> SUFFICES ASSUME [Next]_vars PROVE Late
      OBVIOUS
    <2>1. CASE Listen \/ Answer \/ Terminate \/ PeerSends \/ Vanish \/ UNCHANGED vars
      BY <2>1 DEF Listen, Answer, RespondWith, Terminate, PeerSends, Vanish, vars, threads
    <2>2. CASE Receive
      BY <2>2 DEF Receive, Admit, OnInvite, FinishInvite, OnInviteAgain, OnOptions, OnAck,
                  FinishAck, OnIgnored, threads
    <2>3. CASE OnTimeout
      BY <2>3 DEF OnTimeout, ElapseRetransmission, Retransmit, ElapseEnd, OnEndTimeout,
                  ElapseClearing, OnClearingTimeout, Saw
    <2> QED
      BY <2>1, <2>2, <2>3 DEF Next, Step
  <1> QED
    BY <1>1, PTL DEF Spec, OneLateResponse

--------------------------------------------------------------------------------
(* The abstract transaction. *)

\* A dialog that has been told of the ACK is past the answer, and no other ACK is being handled.
ToldIsOver ==
  /\ rx = "ACK" => transaction_id = Own
  /\ acked => /\ transaction_id = Own /\ status \in {"CONFIRMED", "TERMINATED"}
              /\ rx = "ACK" => "acked" \in busy

\* COMPLETED, in which an ACK is taken, comes before CONFIRMED and never after it.
LEMMA ToldStep == IInv /\ ToldIsOver /\ [Next]_vars => ToldIsOver'
  <1> SUFFICES ASSUME IInv, ToldIsOver, [Next]_vars PROVE ToldIsOver'
    OBVIOUS
  <1> USE DEF IInv, Rest, TypeOK, Key, Own, timers, threads, WaitingIsFresh, Handling, KnowsItsKey,
              ToldIsOver
  <1>1. CASE Listen
    BY <1>1 DEF Listen
  <1>10. CASE Answer
    <2>1. /\ status = "PROCEEDING" /\ UNCHANGED <<transaction_id, rx, busy, acked>>
      BY <1>10 DEF Answer, RespondWith
    <2> QED
      BY <2>1
  <1>9. CASE Terminate
    BY <1>9 DEF Terminate
  <1>2. CASE Admit
    BY <1>2 DEF Admit
  <1>3. CASE OnInvite
    BY <1>3 DEF OnInvite
  <1>4. CASE FinishInvite
    BY <1>4 DEF FinishInvite
  <1>5. CASE OnAck
    BY <1>5 DEF OnAck
  <1>6. CASE FinishAck
    BY <1>6 DEF FinishAck
  <1>7. CASE OnInviteAgain \/ OnOptions \/ OnIgnored \/ PeerSends \/ Vanish \/ UNCHANGED vars
    BY <1>7 DEF OnInviteAgain, OnOptions, OnIgnored, PeerSends, Vanish, vars
  <1>8. CASE OnTimeout
    BY <1>8 DEF OnTimeout, ElapseRetransmission, Retransmit, ElapseEnd, OnEndTimeout,
                ElapseClearing, OnClearingTimeout, Saw
  <1> QED
    BY <1>1, <1>2, <1>3, <1>4, <1>5, <1>6, <1>7, <1>8, <1>9, <1>10
       DEF Next, Step, Receive

\* The abstract variables.
Place == IF transaction_id = "INVITE" THEN "outside" ELSE IF Own \in keys THEN "inside" ELSE "left"
Due == IF rx = "ACK" /\ "acked" \notin busy THEN {"ack"} ELSE {}
Told == IF acked THEN <<"ack">> ELSE <<>>

\* The abstract actions, and the stutter.
Enters == Place = "outside" /\ Place' = "inside" /\ UNCHANGED <<Due, Told>>
Leaves == Place = "inside" /\ Place' = "left" /\ UNCHANGED <<Due, Told>>
Decides == /\ Place = "inside" /\ Told = <<>>
           /\ "ack" \notin Due /\ Due' = Due \cup {"ack"}
           /\ UNCHANGED <<Place, Told>>
Reports == /\ "ack" \in Due /\ Due' = Due \ {"ack"}
           /\ Told' \in {Told, Append(Told, "ack")}
           /\ Place' \in {Place, "left"}
Stays == UNCHANGED <<Place, Due, Told>>

\* Every step is one of them.
LEMMA Refines ==
  IInv /\ ToldIsOver /\ [Next]_vars => Enters \/ Leaves \/ Stays \/ Decides \/ Reports
  <1> SUFFICES ASSUME IInv, ToldIsOver, [Next]_vars
               PROVE Enters \/ Leaves \/ Stays \/ Decides \/ Reports
    OBVIOUS
  <1> USE DEF IInv, Rest, TypeOK, Key, Own, timers, threads, WaitingIsFresh, Handling, KnowsItsKey,
              ToldIsOver, Place, Due
  <1>a. UNCHANGED acked => UNCHANGED Told
    BY DEF Told
  <1>b. ~acked => Told = <<>> /\ Append(Told, "ack") = <<"ack">>
    BY DEF Told
  <1>1. CASE Listen
    BY <1>1, <1>a DEF Listen, Stays
  <1>2. CASE Answer \/ Terminate
    BY <1>2, <1>a DEF Answer, RespondWith, Terminate, KeyToRemove, Leaves, Stays
  <1>3. CASE Admit
    <2>1. CASE rx' = "ACK"
      BY <1>3, <2>1, <1>a, <1>b DEF Admit, Decides
    <2>2. CASE rx' # "ACK"
      BY <1>3, <2>2, <1>a DEF Admit, Stays
    <2> QED
      BY <2>1, <2>2
  <1>4. CASE OnInvite
    BY <1>4, <1>a DEF OnInvite, Enters
  <1>5. CASE FinishInvite \/ FinishAck
    BY <1>5, <1>a DEF FinishInvite, FinishAck, Stays
  <1>6. CASE OnAck
    <2>1. ~acked /\ "ack" \in Due /\ Due' = Due \ {"ack"} /\ Place' = Place
      BY <1>6 DEF OnAck
    <2>2. Told' \in {Told, Append(Told, "ack")}
      BY <2>1, <1>b DEF Told
    <2> QED
      BY <2>1, <2>2 DEF Reports
  <1>7. CASE OnInviteAgain \/ OnOptions \/ OnIgnored \/ PeerSends \/ Vanish \/ UNCHANGED vars
    BY <1>7, <1>a DEF OnInviteAgain, OnOptions, OnIgnored, PeerSends, Vanish, vars, Stays
  <1>8. CASE ElapseRetransmission \/ Retransmit \/ ElapseEnd \/ ElapseClearing
    BY <1>8, <1>a DEF ElapseRetransmission, Retransmit, ElapseEnd, ElapseClearing, Saw, Stays
  <1>9. CASE OnEndTimeout \/ OnClearingTimeout
    BY <1>9, <1>a DEF OnEndTimeout, OnClearingTimeout, Leaves, Stays
  <1> QED
    BY <1>1, <1>2, <1>3, <1>4, <1>5, <1>6, <1>7, <1>8, <1>9 DEF Next, Step, Receive, OnTimeout

\* The own key is entered once and given back for good, and the dialog is told of the ACK once,
\* for any codes and any interleaving with terminate() (InviteTransactionServer.java:192,233,284).
THEOREM TransactionCorrect == Spec => Transacts
  <1>1. Init => ToldIsOver /\ Transaction!Init
    BY DEF Init, ToldIsOver, Transaction!Init
  <1>2. IInv /\ ToldIsOver /\ [Next]_vars => [Transaction!Next]_(Transaction!vars)
    BY Refines DEF Enters, Leaves, Decides, Reports, Stays, Place, Due, Told, Transaction!Next,
       Transaction!Enter, Transaction!Leave, Transaction!Decide, Transaction!Report,
       Transaction!vars
  <1> QED
    BY <1>1, <1>2, Invariance, ToldStep, PTL DEF Spec, Transacts, Transaction!Spec
================================================================================
