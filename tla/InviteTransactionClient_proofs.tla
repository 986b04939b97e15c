-------------------- MODULE InviteTransactionClient_proofs --------------------
(***************************************************************************)
(* What InviteTransactionClient guarantees for every set of status codes,  *)
(* every schedule of its threads and every behaviour of the network.       *)
(***************************************************************************)
EXTENDS InviteTransactionClient, TLAPS

\* Nothing has happened to a transaction that has not been started.
IdleIsFresh ==
  status = "IDLE" =>
    /\ transaction_to = "created"
    /\ end_to = "created"
    /\ rx = 0
    /\ busy = {}

\* A response past its test found the transaction unanswered: since then only a
\* timeout or terminate() can have touched the status.
AdmittedUnanswered ==
  rx # 0 /\ "answer" \notin busy =>
    status \in {"TRYING", "PROCEEDING", "TERMINATED"}

\* While the callback of a final response runs, the transaction has been answered and
\* its timer halted.
AnswerHaltedTimer ==
  "answer" \in busy =>
    /\ rx \in Success \cup Failure
    /\ transaction_to \in {"zombie", "dead"}
    /\ status \in {"COMPLETED", "TERMINATED"}

\* While the callback of the transaction timeout runs, its timer is spent.
TimeoutSpentTimer == "timeout" \in busy => transaction_to = "dead"

\* A dialog that has been told and can still be told is inside a callback.
ToldInCallback == told # <<>> /\ transaction_listener => {"answer", "timeout"} \cap busy # {}

\* "Timer D" is untouched while the transaction waits for its answer.
EndTimerFresh == listening /\ status \in {"TRYING", "PROCEEDING"} => end_to = "created"

IInv ==
  /\ TypeOK
  /\ ListedWhileLive
  /\ WatchdogRuns
  /\ IdleIsFresh
  /\ AdmittedUnanswered
  /\ AnswerHaltedTimer
  /\ TimeoutSpentTimer
  /\ ToldInCallback
  /\ EndTimerFresh

--------------------------------------------------------------------------------

\* The handlers keep every variable in its type.
LEMMA TypeStep == TypeOK /\ [Next]_vars => TypeOK'
  <1> SUFFICES ASSUME TypeOK, [Next]_vars PROVE TypeOK'
    OBVIOUS
  <1> USE DEF TypeOK, TimerState, Status, Thread, timers, threads
  <1>1. CASE SendRequest
    BY <1>1 DEF SendRequest, Send, Started, Message, Request, Response
  <1>2. CASE Terminate
    BY <1>2 DEF Terminate, HaltRequestTimers, Deregister, Halted
  <1>3. CASE Admit
    BY <1>3 DEF Admit, Exchange, Receiving, Message, Request, Response
  <1>4. CASE OnIgnored
    BY <1>4 DEF OnIgnored, Exchange, Receiving, Message, Request, Response, Provisional, Success
  <1>5. CASE OnFailureAgain
    BY <1>5 DEF OnFailureAgain, Exchange, Receiving, Message, Request, Response, Failure
  <1>6. CASE OnProvisional
    BY <1>6 DEF OnProvisional, HaltRequestTimers, Halted
  <1>7. CASE OnFailure
    BY <1>7 DEF OnFailure, Send, Tell, HaltRequestTimers, Halted, Message, Request, Response,
        Success, Failure, Timeout
  <1>8. CASE OnSuccess
    <2>1. told' \in Seq({Timeout} \cup Success \cup Failure)
      BY <1>8 DEF OnSuccess, Tell, Success, Timeout
    <2> QED
      BY <1>8, <2>1 DEF OnSuccess, HaltRequestTimers, Deregister, Halted
  <1>9. CASE FinishFinal
    BY <1>9 DEF FinishFinal, Started
  <1>10. CASE ElapseRetransmission
    BY <1>10 DEF ElapseRetransmission, CanElapse, Expired
  <1>11. CASE Retransmit
    BY <1>11 DEF Retransmit, Send, Started, Message, Request, Response
  <1>12. CASE ElapseTransaction
    BY <1>12 DEF ElapseTransaction, CanElapse
  <1>13. CASE OnTransactionTimeout
    <2>1. told' \in Seq({Timeout} \cup Success \cup Failure)
      BY <1>13 DEF OnTransactionTimeout, Tell, Timeout
    <2> QED
      BY <1>13, <2>1 DEF OnTransactionTimeout, Deregister, Halted, Expired
  <1>14. CASE FinishTimeout
    BY <1>14 DEF FinishTimeout
  <1>15. CASE ElapseEnd
    BY <1>15 DEF ElapseEnd, CanElapse
  <1>16. CASE OnEndTimeout
    BY <1>16 DEF OnEndTimeout, HaltRequestTimers, Deregister, InFlight, Expired, Halted
  <1>17. CASE PeerAnswers
    BY <1>17 DEF PeerAnswers, Send, Message, Request, Response
  <1>18. CASE Vanish
    BY <1>18 DEF Vanish
  <1>19. CASE UNCHANGED vars
    BY <1>19 DEF vars
  <1> QED
    BY <1>1, <1>2, <1>3, <1>4, <1>5, <1>6, <1>7, <1>8, <1>9, <1>10, <1>11, <1>12, <1>13, <1>14,
        <1>15, <1>16, <1>17, <1>18, <1>19 DEF Next, Step, Receive, OnTimeout

\* Each handler preserves the inductive invariant.
LEMMA IInvStep == IInv /\ [Next]_vars => IInv'
  <1> SUFFICES ASSUME IInv, [Next]_vars PROVE IInv'
    OBVIOUS
  <1>0. TypeOK'
    BY TypeStep DEF IInv
  <1> DEFINE Rest == /\ ListedWhileLive /\ WatchdogRuns /\ IdleIsFresh
                     /\ AdmittedUnanswered /\ AnswerHaltedTimer /\ TimeoutSpentTimer
                     /\ ToldInCallback /\ EndTimerFresh
  <1> SUFFICES Rest'
    BY <1>0 DEF IInv
  <1> USE DEF IInv, TypeOK, TimerState, Live, timers, threads, ListedWhileLive, WatchdogRuns,
              IdleIsFresh, AdmittedUnanswered, AnswerHaltedTimer, TimeoutSpentTimer,
              ToldInCallback, EndTimerFresh
  <1>1. CASE SendRequest
    BY <1>1 DEF SendRequest, Started
  <1>2. CASE Terminate
    BY <1>2 DEF Terminate, HaltRequestTimers, Deregister, Halted
  <1>3. CASE Admit
    BY CodeAssumption, <1>3 DEF Admit, Receiving, Provisional, Success, Failure
  <1>4. CASE OnIgnored
    BY <1>4 DEF OnIgnored
  <1>5. CASE OnFailureAgain
    BY <1>5 DEF OnFailureAgain
  <1>6. CASE OnProvisional
    BY CodeAssumption, <1>6 DEF OnProvisional, HaltRequestTimers, Halted, Provisional, Success,
        Failure
  <1>7. CASE OnFailure
    BY CodeAssumption, <1>7 DEF OnFailure, Tell, HaltRequestTimers, Halted, Provisional,
        Success, Failure
  <1>8. CASE OnSuccess
    BY CodeAssumption, <1>8 DEF OnSuccess, Tell, HaltRequestTimers, Deregister, Halted,
        Provisional, Success, Failure
  <1>9. CASE FinishFinal
    BY CodeAssumption, <1>9 DEF FinishFinal, Started, Provisional, Success, Failure
  <1>10. CASE ElapseRetransmission
    BY <1>10 DEF ElapseRetransmission, CanElapse, Expired
  <1>11. CASE Retransmit
    BY <1>11 DEF Retransmit, Started
  <1>12. CASE ElapseTransaction
    BY <1>12 DEF ElapseTransaction, CanElapse
  <1>13. CASE OnTransactionTimeout
    BY <1>13 DEF OnTransactionTimeout, Tell, Deregister, Halted, InFlight, Expired, Timeout
  <1>14. CASE FinishTimeout
    BY <1>14 DEF FinishTimeout
  <1>15. CASE ElapseEnd
    BY <1>15 DEF ElapseEnd, CanElapse
  <1>16. CASE OnEndTimeout
    BY <1>16 DEF OnEndTimeout, HaltRequestTimers, Deregister, InFlight, Expired, Halted
  <1>17. CASE PeerAnswers
    BY <1>17 DEF PeerAnswers
  <1>18. CASE Vanish
    BY <1>18 DEF Vanish
  <1>19. CASE UNCHANGED vars
    BY <1>19 DEF vars
  <1> QED
    BY <1>1, <1>2, <1>3, <1>4, <1>5, <1>6, <1>7, <1>8, <1>9, <1>10, <1>11, <1>12, <1>13, <1>14,
        <1>15, <1>16, <1>17, <1>18, <1>19 DEF Next, Step, Receive, OnTimeout

\* The inductive invariant holds in every state the transaction reaches.
LEMMA Invariance == Spec => []IInv
  <1>1. Init => IInv
    <2>1. Init => TypeOK
      <3>1. Init => told \in Seq({Timeout} \cup Success \cup Failure)
        BY DEF Init
      <3> QED
        BY <3>1 DEF Init, TypeOK, TimerState, Status
    <2> QED
      BY <2>1 DEF Init, IInv, Live, ListedWhileLive, WatchdogRuns, IdleIsFresh,
                  AdmittedUnanswered, AnswerHaltedTimer, TimeoutSpentTimer, ToldInCallback,
                  EndTimerFresh
  <1>2. IInv /\ [Next]_vars => IInv'
    BY IInvStep
  <1> QED
    BY <1>1, <1>2, PTL DEF Spec

--------------------------------------------------------------------------------

\* Every variable keeps its type: the dialog is only ever told final codes, and the
\* network only carries messages of this transaction.
THEOREM TypeCorrect == Spec => []TypeOK
  <1>1. IInv => TypeOK
    BY DEF IInv
  <1> QED
    BY <1>1, Invariance, PTL

\* The provider's table never holds a finished transaction, and holds one that is still
\* waiting for its first answer.
THEOREM ListingCorrect == Spec => []ListedWhileLive
  <1>1. IInv => ListedWhileLive
    BY DEF IInv
  <1> QED
    BY <1>1, Invariance, PTL

\* A transaction in the table that is not PROCEEDING always has a timer that will end it.
THEOREM WatchdogCorrect == Spec => []WatchdogRuns
  <1>1. IInv => WatchdogRuns
    BY DEF IInv
  <1> QED
    BY <1>1, Invariance, PTL

\* The dialog is told of two outcomes only in the race of an answer and the timeout.
THEOREM OutcomeCorrect == Spec => OneOutcome
  <1> DEFINE Race == \/ transaction_to = "zombie" /\ "answer" \in busy
                     \/ rx # 0 /\ "timeout" \in busy
  <1>1. IInv /\ [Next]_vars => (told # <<>> /\ told' # told => Race)
    <2> SUFFICES ASSUME IInv, [Next]_vars, told # <<>>, told' # told
                 PROVE Race
      OBVIOUS
    <2>1. CASE OnFailure \/ OnSuccess
      \* The listener is still there, and not because of an answer's callback.
      <3>1. transaction_listener /\ "answer" \notin busy /\ rx # 0
        BY <2>1, CodeAssumption DEF OnFailure, OnSuccess, Tell, Success, Failure
      <3> QED
        BY <3>1 DEF IInv, ToldInCallback
    <2>2. CASE OnTransactionTimeout
      \* The timer is not spent, so this timeout is the first.
      <3>1. transaction_listener /\ "timeout" \notin busy
        BY <2>2 DEF OnTransactionTimeout, Tell, InFlight, IInv, TimeoutSpentTimer
      <3>2. "answer" \in busy
        BY <3>1 DEF IInv, ToldInCallback
      <3> QED
        BY <2>2, <3>2 DEF OnTransactionTimeout, InFlight, IInv, AnswerHaltedTimer
    <2>3. OnFailure \/ OnSuccess \/ OnTransactionTimeout
      BY DEF Next, Step, Receive, OnTimeout, vars, SendRequest, Terminate, Admit, OnIgnored,
             OnFailureAgain, OnProvisional, FinishFinal, ElapseRetransmission, Retransmit,
             ElapseTransaction, FinishTimeout, ElapseEnd, OnEndTimeout, PeerAnswers, Vanish
    <2> QED
      BY <2>1, <2>2, <2>3
  <1> QED
    BY <1>1, Invariance, PTL DEF Spec, OneOutcome

\* Once the INVITE has been answered, at most one more INVITE is sent: the one of a
\* retransmission timer that was past its test.
THEOREM LateInviteCorrect == Spec => OneLateInvite
  <1> DEFINE Late == status \notin {"IDLE", "TRYING"} =>
                       /\ Request("INVITE") \in net' \ net => "resend" \in busy \ busy'
                       /\ "resend" \notin busy => "resend" \notin busy'
  <1>1. IInv /\ [Next]_vars => Late
    <2> SUFFICES ASSUME IInv, [Next]_vars, status \notin {"IDLE", "TRYING"} PROVE Late
      OBVIOUS
    <2> USE DEF timers, threads
    <2>1. Request("INVITE") # Request("ACK") /\ \A c \in Code : Request("INVITE") # Response(c)
      BY DEF Request, Response
    <2>2. CASE SendRequest \/ Terminate
      BY <2>2 DEF SendRequest, Terminate
    <2>3. CASE Receive
      BY <2>1, <2>3 DEF Receive, Admit, OnIgnored, OnFailureAgain, OnProvisional, OnFailure,
                        OnSuccess, FinishFinal, Exchange, Send, Receiving
    <2>4. CASE OnTimeout
      BY <2>4 DEF OnTimeout, ElapseRetransmission, Retransmit, ElapseTransaction,
                  OnTransactionTimeout, FinishTimeout, ElapseEnd, OnEndTimeout, Send
    <2>5. CASE PeerAnswers \/ Vanish
      BY <2>1, <2>5 DEF PeerAnswers, Vanish, Send
    <2>6. CASE UNCHANGED vars
      BY <2>6 DEF vars
    <2> QED
      BY <2>2, <2>3, <2>4, <2>5, <2>6 DEF Next, Step
  <1> QED
    BY <1>1, Invariance, PTL DEF Spec, OneLateInvite

--------------------------------------------------------------------------------
(* The abstract transaction. *)

\* What the refinement needs besides IInv: the transaction timeout runs only while the first
\* answer is awaited, and a transaction whose dialog has been told and that is still in the table
\* has had a refusal.
Undecided ==
  /\ transaction_to = "running" => status = "TRYING"
  /\ told # <<>> /\ listening => status = "COMPLETED"
  /\ status = "IDLE" => told = <<>>

\* Whatever decides also halts the timer, or ends the transaction.
LEMMA UndecidedStep == IInv /\ Undecided /\ [Next]_vars => Undecided'
  <1> SUFFICES ASSUME IInv, Undecided, [Next]_vars PROVE Undecided'
    OBVIOUS
  <1> USE DEF Undecided, IInv, TypeOK, TimerState, Status, Live, timers, threads, ListedWhileLive
  <1>1. CASE SendRequest
    BY <1>1 DEF SendRequest, Started, IdleIsFresh
  <1>2. CASE Terminate
    BY <1>2 DEF Terminate, HaltRequestTimers, Deregister, Halted
  <1>3. CASE Admit \/ OnIgnored \/ OnFailureAgain
    BY <1>3 DEF Admit, OnIgnored, OnFailureAgain
  <1>4. CASE OnProvisional
    BY <1>4, CodeAssumption DEF OnProvisional, HaltRequestTimers, Halted, AdmittedUnanswered,
       AnswerHaltedTimer, Provisional, Success, Failure
  <1>5. CASE OnFailure
    BY <1>5 DEF OnFailure, HaltRequestTimers, Halted
  <1>6. CASE OnSuccess
    BY <1>6 DEF OnSuccess, HaltRequestTimers, Deregister, Halted
  <1>7. CASE FinishFinal \/ ElapseRetransmission \/ Retransmit \/ FinishTimeout \/ ElapseEnd
    BY <1>7 DEF FinishFinal, ElapseRetransmission, Retransmit, FinishTimeout, ElapseEnd
  <1>8. CASE ElapseTransaction
    BY <1>8 DEF ElapseTransaction
  <1>9. CASE OnTransactionTimeout
    BY <1>9 DEF OnTransactionTimeout, Deregister, Expired
  <1>10. CASE OnEndTimeout
    BY <1>10 DEF OnEndTimeout, HaltRequestTimers, Deregister, Halted
  <1>11. CASE PeerAnswers \/ Vanish \/ UNCHANGED vars
    BY <1>11 DEF PeerAnswers, Vanish, vars
  <1> QED
    BY <1>1, <1>2, <1>3, <1>4, <1>5, <1>6, <1>7, <1>8, <1>9, <1>10, <1>11
       DEF Next, Step, Receive, OnTimeout

\* The abstract variables.
Place == IF status = "IDLE" THEN "outside" ELSE IF listening THEN "inside" ELSE "left"
Due == {o \in {"answer", "timeout"} :
          IF o = "timeout" THEN InFlight(transaction_to)
          ELSE rx \in Success \cup Failure /\ "answer" \notin busy}
Kinds(f) == [i \in 1..Len(f) |-> IF f[i] = Timeout THEN "timeout" ELSE "answer"]

\* One more outcome is one more kind.
LEMMA KindsAppend ==
  ASSUME TypeOK, NEW code \in {Timeout} \cup Success \cup Failure
  PROVE  Kinds(Append(told, code))
           = Append(Kinds(told), IF code = Timeout THEN "timeout" ELSE "answer")
  BY DEF TypeOK, Kinds

\* No outcome, no kind.
LEMMA KindsEmpty == Kinds(<<>>) = <<>>
  BY DEF Kinds

\* A callback tells of its own kind, or of nothing.
LEMMA TellsKind ==
  ASSUME TypeOK, NEW code \in {Timeout} \cup Success \cup Failure, Tell(code)
  PROVE  Kinds(told)' \in {Kinds(told),
                           Append(Kinds(told), IF code = Timeout THEN "timeout" ELSE "answer")}
  BY KindsAppend DEF Tell

\* The abstract actions, and the stutter.
Enters == Place = "outside" /\ Place' = "inside" /\ UNCHANGED <<Due, Kinds(told)>>
Leaves == Place = "inside" /\ Place' = "left" /\ UNCHANGED <<Due, Kinds(told)>>
Decides(o) == /\ Place = "inside" /\ Kinds(told) = <<>>
              /\ o \notin Due /\ Due' = Due \cup {o}
              /\ UNCHANGED <<Place, Kinds(told)>>
Reports(o) == /\ o \in Due /\ Due' = Due \ {o}
              /\ Kinds(told)' \in {Kinds(told), Append(Kinds(told), o)}
              /\ Place' \in {Place, "left"}
Stays == UNCHANGED <<Place, Due, Kinds(told)>>

\* Every step is one of them.
LEMMA Refines ==
  IInv /\ Undecided /\ [Next]_vars =>
    Enters \/ Leaves \/ Stays \/ \E o \in {"answer", "timeout"} : Decides(o) \/ Reports(o)
  <1> SUFFICES ASSUME IInv, Undecided, [Next]_vars
               PROVE Enters \/ Leaves \/ Stays
                       \/ \E o \in {"answer", "timeout"} : Decides(o) \/ Reports(o)
    OBVIOUS
  <1> USE DEF IInv, Undecided, TypeOK, TimerState, Status, Live, timers, threads, ListedWhileLive,
              Place, Due
  <1>a. told' = told => UNCHANGED Kinds(told)
    OBVIOUS
  <1>b. told = <<>> => Kinds(told) = <<>>
    BY KindsEmpty
  <1>1. CASE SendRequest
    <2>1. Enters
      BY <1>1, <1>a DEF SendRequest, Started, Enters, InFlight, IdleIsFresh
    <2> QED
      BY <2>1
  <1>2. CASE Terminate
    <2>1. Leaves \/ Stays
      BY <1>2, <1>a DEF Terminate, HaltRequestTimers, Deregister, Halted, InFlight, Leaves, Stays
    <2> QED
      BY <2>1
  <1>3. CASE Admit
    <2>1. CASE rx' \in Success \cup Failure
      <3>1. Decides("answer")
        BY <1>3, <2>1, <1>a, <1>b, CodeAssumption
           DEF Admit, Receiving, Decides, Success, Failure, Provisional, AnswerHaltedTimer
      <3> QED
        BY <3>1
    <2>2. CASE rx' \notin Success \cup Failure
      <3>1. Stays
        BY <1>3, <2>2, <1>a, CodeAssumption DEF Admit, Receiving, Stays, Success, Failure
      <3> QED
        BY <3>1
    <2> QED
      BY <2>1, <2>2
  <1>4. CASE OnProvisional
    <2>1. Stays
      BY <1>4, <1>a, CodeAssumption DEF OnProvisional, HaltRequestTimers, Halted, InFlight, Stays,
         Success, Failure, Provisional, AdmittedUnanswered, AnswerHaltedTimer
    <2> QED
      BY <2>1
  <1>5. CASE OnFailure \/ OnSuccess
    <2>1. Tell(rx) /\ rx \in Success \cup Failure /\ rx # Timeout
      BY <1>5, CodeAssumption DEF OnFailure, OnSuccess, Success, Failure, Timeout
    <2>2. Kinds(told)' \in {Kinds(told), Append(Kinds(told), "answer")}
      BY <2>1, TellsKind
    <2>3. "answer" \in Due /\ Due' = Due \ {"answer"} /\ Place' \in {Place, "left"}
      BY <1>5, <2>1 DEF OnFailure, OnSuccess, HaltRequestTimers, Deregister, Halted, InFlight,
         AdmittedUnanswered
    <2>4. Reports("answer")
      BY <2>2, <2>3 DEF Reports
    <2> QED
      BY <2>4
  <1>6. CASE FinishFinal
    <2>1. Stays
      BY <1>6, <1>a, CodeAssumption DEF FinishFinal, Stays, Success, Failure, AnswerHaltedTimer
    <2> QED
      BY <2>1
  <1>7. CASE OnIgnored \/ OnFailureAgain \/ ElapseRetransmission \/ Retransmit \/ FinishTimeout
               \/ ElapseEnd \/ PeerAnswers \/ Vanish \/ UNCHANGED vars
    <2>1. Stays
      BY <1>7, <1>a DEF OnIgnored, OnFailureAgain, ElapseRetransmission, Retransmit, FinishTimeout,
         ElapseEnd, PeerAnswers, Vanish, vars, Stays
    <2> QED
      BY <2>1
  <1>8. CASE ElapseTransaction
    <2>1. Decides("timeout")
      BY <1>8, <1>a, <1>b DEF ElapseTransaction, CanElapse, InFlight, Decides
    <2> QED
      BY <2>1
  <1>9. CASE OnTransactionTimeout
    <2>1. Kinds(told)' \in {Kinds(told), Append(Kinds(told), "timeout")}
      BY <1>9, TellsKind DEF OnTransactionTimeout
    <2>2. "timeout" \in Due /\ Due' = Due \ {"timeout"} /\ Place' \in {Place, "left"}
      BY <1>9 DEF OnTransactionTimeout, Deregister, InFlight, Expired, IdleIsFresh
    <2>3. Reports("timeout")
      BY <2>1, <2>2 DEF Reports
    <2> QED
      BY <2>3
  <1>10. CASE OnEndTimeout
    <2>1. Leaves \/ Stays
      BY <1>10, <1>a DEF OnEndTimeout, HaltRequestTimers, Deregister, Halted, InFlight, Leaves,
         Stays, IdleIsFresh
    <2> QED
      BY <2>1
  <1> QED
    BY <1>1, <1>2, <1>3, <1>4, <1>5, <1>6, <1>7, <1>8, <1>9, <1>10
       DEF Next, Step, Receive, OnTimeout

\* The client transaction implements TransactionSpec: once the dialog has been told nothing more is
\* decided, for any codes and any interleaving (InviteTransactionClient.java:111,137,171).
THEOREM TransactionCorrect == Spec => Transacts
  <1>1. Init => Undecided
    BY DEF Init, Undecided
  <1>2. Init => Transaction!Init
    BY KindsEmpty DEF Init, Transaction!Init, InFlight, Success, Failure, Kinds
  <1>3. IInv /\ Undecided /\ [Next]_vars => [Transaction!Next]_(Transaction!vars)
    BY Refines DEF Enters, Leaves, Decides, Reports, Stays, Place, Due, Kinds, Transaction!Next,
       Transaction!Enter, Transaction!Leave, Transaction!Decide, Transaction!Report,
       Transaction!vars
  <1> QED
    BY <1>1, <1>2, <1>3, Invariance, UndecidedStep, PTL DEF Spec, Transacts, Transaction!Spec

\* No outcome twice in f, and none that is still to come.
Fresh(f, coming) == /\ \A i, j \in 1..Len(f) : f[i] = f[j] => i = j
                    /\ \A i \in 1..Len(f) : f[i] \notin coming

\* What has been decided can be told.
LEMMA FreshAppend ==
  ASSUME NEW S, NEW f \in Seq(S), NEW coming, NEW o \in S, o \in coming, Fresh(f, coming)
  PROVE  Fresh(Append(f, o), coming \ {o})
  <1> DEFINE g == Append(f, o)
  <1>1. Len(g) = Len(f) + 1 /\ Len(f) \in Nat
    OBVIOUS
  <1>2. /\ \A i \in 1..Len(f) : i \in 1..Len(g) /\ g[i] = f[i]
        /\ g[Len(f) + 1] = o
    OBVIOUS
  <1>3. \A i \in 1..Len(g) : i \in 1..Len(f) \/ i = Len(f) + 1
    BY <1>1
  <1>4. \A i \in 1..Len(f) : f[i] # o
    BY DEF Fresh
  <1> HIDE DEF g
  <1>5. ASSUME NEW i \in 1..Len(g), NEW j \in 1..Len(g), g[i] = g[j] PROVE i = j
    BY <1>2, <1>3, <1>4, <1>5 DEF Fresh
  <1>6. ASSUME NEW i \in 1..Len(g) PROVE g[i] \notin coming \ {o}
    BY <1>2, <1>3 DEF Fresh
  <1> QED
    BY <1>5, <1>6 DEF Fresh, g

\* What can still be told has not been told.
LEMMA FreshStep ==
  IInv /\ Undecided /\ Fresh(Kinds(told), Due) /\ [Next]_vars => Fresh(Kinds(told), Due)'
  <1> SUFFICES ASSUME IInv, Undecided, Fresh(Kinds(told), Due), [Next]_vars
               PROVE Fresh(Kinds(told)', Due')
    BY DEF Fresh
  <1>1. CASE Enters \/ Leaves \/ Stays
    BY <1>1 DEF Enters, Leaves, Stays
  <1>2. ASSUME NEW o \in {"answer", "timeout"}, Decides(o) PROVE Fresh(Kinds(told)', Due')
    BY <1>2 DEF Decides, Fresh
  <1>3. ASSUME NEW o \in {"answer", "timeout"}, Reports(o) PROVE Fresh(Kinds(told)', Due')
    <2>1. Kinds(told) \in Seq({"answer", "timeout"})
      BY DEF Kinds, IInv, TypeOK
    <2>2. CASE Kinds(told)' = Kinds(told)
      BY <1>3, <2>2 DEF Reports, Fresh
    <2>3. CASE Kinds(told)' = Append(Kinds(told), o)
      BY <1>3, <2>1, <2>3, FreshAppend DEF Reports
    <2> QED
      BY <1>3, <2>2, <2>3 DEF Reports
  <1> QED
    BY <1>1, <1>2, <1>3, Refines

\* The dialog is told at most once of a final answer and at most once of the timeout, for any
\* interleaving of the receive thread, the timers and terminate()
\* (InviteTransactionClient.java:119,145,178).
THEOREM OutcomeOnce == Spec => []Transaction!ToldOnce
  <1>1. Init => Undecided
    BY DEF Init, Undecided
  <1>2. Init => Fresh(Kinds(told), Due)
    BY KindsEmpty DEF Init, Fresh
  <1>3. Fresh(Kinds(told), Due) => Transaction!ToldOnce
    BY DEF Fresh, Kinds, Transaction!ToldOnce
  <1> QED
    BY <1>1, <1>2, <1>3, Invariance, UndecidedStep, FreshStep, PTL DEF Spec
================================================================================
