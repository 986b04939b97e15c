----------------------------- MODULE SipCall_proofs -----------------------------
(***************************************************************************)
(* What SipCall guarantees for every number of re-INVITEs: it implements   *)
(* CallSpec, no INVITE gets two kinds of final answer, no request runs out *)
(* of sequence numbers, and the user is shown where the dialog is.         *)
(***************************************************************************)
EXTENDS SipCall, FiniteSetTheorems, TLAPS

\* The types the arguments below need.
Types ==
  /\ status \in [Party -> Dialog]
  /\ local_cseq \in [Party -> Nat \ {0}]
  /\ remote_cseq \in [Party -> Nat]
  /\ invite_tc \in [Party -> [CSeq -> {"none", "TRYING", "PROCEEDING"}]]

\* The caller's dialog never waits for a call, the callee's never places one.
Roles ==
  /\ status["caller"] \notin {"D_WAITING", "D_INVITED", "D_ACCEPTED", "D_REFUSED"}
  /\ status["callee"] \notin {"D_INIT", "D_INVITING"}

\* The first INVITE has been accepted; its ACK has been sent.
Accepted == M("caller", "OK", 1) \in net
Up == M("callee", "ACK", 1) \in net

\* Nothing reaches the callee before the caller has placed the call, and then the
\* first INVITE comes first.
FirstInvite ==
  /\ \A n \in CSeq : M("callee", "INVITE", n) \in net => status["caller"] # "D_INIT"
  /\ status["callee"] # "D_WAITING" => status["caller"] # "D_INIT"
  /\ status["caller"] \in {"D_INIT", "D_INVITING"} =>
       \A n \in CSeq : invite_tc["caller"][n] # "none" => n = 1
  /\ status["callee"] = "D_INVITED" => remote_cseq["callee"] = 1
  /\ status["callee"] # "D_WAITING" => remote_cseq["callee"] >= 1

\* How far the first INVITE is, as the statuses and the messages tell it.
Progress ==
  /\ Accepted => status["callee"] \notin {"D_WAITING", "D_INVITED", "D_REFUSED"}
  /\ Up => Accepted /\ status["caller"] \in Confirmed \cup {"D_CLOSE"}
  /\ status["caller"] \in Confirmed => Up
  /\ status["callee"] \in Confirmed \ {"D_ACCEPTED"} => Up

\* Only a call that has come up at the caller is confirmed or changed.
InsideDialog ==
  /\ \A n \in CSeq \ {1} : M("callee", "INVITE", n) \in net => Up
  /\ \A n \in CSeq : M("caller", "INVITE", n) \in net => Up
  /\ \A n \in CSeq : M("callee", "ACK", n) \in net => Up

IInv == Types /\ Roles /\ FirstInvite /\ Progress /\ InsideDialog

\* The final answers to the INVITE n of Other(u).
Answers(u, n) == {M(Other(u), "OK", n), M(Other(u), "FAIL", n)}

\* A dialog answers the INVITEs in their order, and the one it is invited with is not
\* answered yet.
AnswersInOrder ==
  \A u \in Party :
    /\ \A n \in CSeq : Answers(u, n) \cap net # {} =>
         n <= remote_cseq[u] /\ status[u] # "D_WAITING"
    /\ status[u] \in {"D_INVITED", "D_ReINVITED"} => Answers(u, remote_cseq[u]) \cap net = {}

--------------------------------------------------------------------------------

\* The two parties are each other's other.
LEMMA Others == Other("caller") = "callee" /\ Other("callee") = "caller"
  <1>1. \E v \in Party : v # "caller"
    BY DEF Party
  <1>2. \E v \in Party : v # "callee"
    BY DEF Party
  <1>3. Other("caller") \in Party /\ Other("caller") # "caller"
    BY <1>1 DEF Other
  <1>4. Other("callee") \in Party /\ Other("callee") # "callee"
    BY <1>2 DEF Other
  <1> QED
    BY <1>3, <1>4 DEF Party

\* Only a transaction that waits is answered.
LEMMA Unanswered == ASSUME NEW u, NEW n, Answered(u, n) PROVE invite_tc[u][n] # "none"
  BY DEF Answered

\* Every handler preserves the invariant.
LEMMA IInvStep == IInv /\ [Next]_vars => IInv'
  <1> SUFFICES ASSUME IInv, [Next]_vars PROVE IInv'
    OBVIOUS
  <1> USE Others, MaxReInviteAssumption
      DEF IInv, Types, Roles, Accepted, Up, FirstInvite, Progress, InsideDialog, Party, Dialog,
          Early, Confirmed, CSeq, MaxCSeq, M, Become, Send, ua, cseqs, transactions
  <1>1. CASE Place
    BY <1>1 DEF Place, Invite
  <1>2. ASSUME NEW u \in Party, Accept(u) PROVE IInv'
    BY <1>2 DEF Accept, SendOK
  <1>3. ASSUME NEW u \in Party, Hold(u) PROVE IInv'
    <2>1. invite_tc' = [invite_tc EXCEPT ![u][local_cseq[u] + 1] = "TRYING"]
      BY <1>3 DEF Hold, Invite
    <2>2. /\ invite_tc' \in [Party -> [CSeq -> {"none", "TRYING", "PROCEEDING"}]]
          /\ \A k \in CSeq : u # "caller" => invite_tc'["caller"][k] = invite_tc["caller"][k]
      BY <2>1
    <2> QED
      BY <1>3, <2>2 DEF Hold, Invite
  <1>4. ASSUME NEW u \in Party, Hangup(u) PROVE IInv'
    BY <1>4 DEF Hangup
  <1>5. ASSUME NEW u \in Party, HangupRefuse(u) PROVE IInv'
    BY <1>5 DEF HangupRefuse, NextStep, Refuse
  <1>6. ASSUME NEW u \in Party, HangupCancel(u) PROVE IInv'
    BY <1>6 DEF HangupCancel, NextStep
  <1>7. ASSUME NEW u \in Party, HangupBye(u) PROVE IInv'
    BY <1>7 DEF HangupBye, NextStep, SendBye
  <1>8. ASSUME NEW u \in Party, HangupIdle(u) PROVE IInv'
    BY <1>8 DEF HangupIdle, NextStep
  <1>9. ASSUME NEW u \in Party, OnInvite(u) PROVE IInv'
    BY <1>9 DEF OnInvite, Takes
  <1>10. ASSUME NEW u \in Party, OnInviteRefused(u) PROVE IInv'
    BY <1>10 DEF OnInviteRefused, Takes
  <1>11. ASSUME NEW u \in Party, OnReInvite(u) PROVE IInv'
    BY <1>11 DEF OnReInvite, Takes, SendOK
  <1>12. ASSUME NEW u \in Party, OnAck(u) PROVE IInv'
    BY <1>12 DEF OnAck, Takes
  <1>13. ASSUME NEW u \in Party, OnFailureAck(u) PROVE IInv'
    BY <1>13 DEF OnFailureAck, Takes
  <1>14. ASSUME NEW u \in Party, OnCancel(u) PROVE IInv'
    BY <1>14 DEF OnCancel, Takes, Refuse
  <1>15. ASSUME NEW u \in Party, OnBye(u) PROVE IInv'
    BY <1>15 DEF OnBye, Takes
  <1>16. ASSUME NEW u \in Party, OnProvisional(u) PROVE IInv'
    <2>1. PICK n \in CSeq, x \in {"none", "PROCEEDING"} :
            invite_tc[u][n] # "none" /\ invite_tc' = [invite_tc EXCEPT ![u][n] = x]
      BY <1>16 DEF OnProvisional
    <2>2. /\ invite_tc' \in [Party -> [CSeq -> {"none", "TRYING", "PROCEEDING"}]]
          /\ \A k \in CSeq : u # "caller" \/ k # n =>
               invite_tc'["caller"][k] = invite_tc["caller"][k]
      BY <2>1
    <2>3. \A k \in CSeq : invite_tc'["caller"][k] # "none" => invite_tc["caller"][k] # "none"
      BY <2>1, <2>2
    <2> QED
      BY <1>16, <2>2, <2>3, Unanswered DEF OnProvisional, Takes
  <1>17. ASSUME NEW u \in Party, OnSuccess(u) PROVE IInv'
    <2>1. PICK n \in CSeq, x \in {"none", "PROCEEDING"} :
            invite_tc[u][n] # "none" /\ invite_tc' = [invite_tc EXCEPT ![u][n] = x]
      BY <1>17 DEF OnSuccess, Answered
    <2>2. /\ invite_tc' \in [Party -> [CSeq -> {"none", "TRYING", "PROCEEDING"}]]
          /\ \A k \in CSeq : u # "caller" \/ k # n =>
               invite_tc'["caller"][k] = invite_tc["caller"][k]
      BY <2>1
    <2>3. \A k \in CSeq : invite_tc'["caller"][k] # "none" => invite_tc["caller"][k] # "none"
      BY <2>1, <2>2
    <2> QED
      BY <1>17, <2>2, <2>3, Unanswered DEF OnSuccess, Takes, SendBye
  <1>18. ASSUME NEW u \in Party, FinishAccepted(u) PROVE IInv'
    BY <1>18 DEF FinishAccepted
  <1>19. ASSUME NEW u \in Party, OnReInviteSuccess(u) PROVE IInv'
    <2>1. PICK n \in CSeq, x \in {"none", "PROCEEDING"} :
            invite_tc[u][n] # "none" /\ invite_tc' = [invite_tc EXCEPT ![u][n] = x]
      BY <1>19 DEF OnReInviteSuccess, Answered
    <2>2. /\ invite_tc' \in [Party -> [CSeq -> {"none", "TRYING", "PROCEEDING"}]]
          /\ \A k \in CSeq : u # "caller" \/ k # n =>
               invite_tc'["caller"][k] = invite_tc["caller"][k]
      BY <2>1
    <2>3. \A k \in CSeq : invite_tc'["caller"][k] # "none" => invite_tc["caller"][k] # "none"
      BY <2>1, <2>2
    <2> QED
      BY <1>19, <2>2, <2>3, Unanswered DEF OnReInviteSuccess, Takes
  <1>20. ASSUME NEW u \in Party, OnFailure(u) PROVE IInv'
    <2>1. PICK n \in CSeq, x \in {"none", "PROCEEDING"} :
            invite_tc[u][n] # "none" /\ invite_tc' = [invite_tc EXCEPT ![u][n] = x]
      BY <1>20 DEF OnFailure, Answered
    <2>2. /\ invite_tc' \in [Party -> [CSeq -> {"none", "TRYING", "PROCEEDING"}]]
          /\ \A k \in CSeq : u # "caller" \/ k # n =>
               invite_tc'["caller"][k] = invite_tc["caller"][k]
      BY <2>1
    <2>3. \A k \in CSeq : invite_tc'["caller"][k] # "none" => invite_tc["caller"][k] # "none"
      BY <2>1, <2>2
    <2> QED
      BY <1>20, <2>2, <2>3, Unanswered DEF OnFailure, Takes
  <1>21. ASSUME NEW u \in Party, OnUnwanted(u) PROVE IInv'
    <2>1. PICK n \in CSeq, x \in {"none", "PROCEEDING"} :
            invite_tc[u][n] # "none" /\ invite_tc' = [invite_tc EXCEPT ![u][n] = x]
      BY <1>21 DEF OnUnwanted, Answered
    <2>2. /\ invite_tc' \in [Party -> [CSeq -> {"none", "TRYING", "PROCEEDING"}]]
          /\ \A k \in CSeq : u # "caller" \/ k # n =>
               invite_tc'["caller"][k] = invite_tc["caller"][k]
      BY <2>1
    <2>3. \A k \in CSeq : invite_tc'["caller"][k] # "none" => invite_tc["caller"][k] # "none"
      BY <2>1, <2>2
    <2> QED
      BY <1>21, <2>2, <2>3, Unanswered DEF OnUnwanted, Takes
  <1>22. ASSUME NEW u \in Party, OnByeSuccess(u) PROVE IInv'
    BY <1>22 DEF OnByeSuccess, Takes, ByeDone
  <1>23. ASSUME NEW u \in Party, OnInviteTimeout(u) PROVE IInv'
    <2>1. PICK n \in CSeq, x \in {"none", "PROCEEDING"} :
            invite_tc[u][n] # "none" /\ invite_tc' = [invite_tc EXCEPT ![u][n] = x]
      BY <1>23 DEF OnInviteTimeout, Answered
    <2>2. /\ invite_tc' \in [Party -> [CSeq -> {"none", "TRYING", "PROCEEDING"}]]
          /\ \A k \in CSeq : u # "caller" \/ k # n =>
               invite_tc'["caller"][k] = invite_tc["caller"][k]
      BY <2>1
    <2>3. \A k \in CSeq : invite_tc'["caller"][k] # "none" => invite_tc["caller"][k] # "none"
      BY <2>1, <2>2
    <2> QED
      BY <1>23, <2>2, <2>3, Unanswered DEF OnInviteTimeout
  <1>24. ASSUME NEW u \in Party, OnRefusalTimeout(u) PROVE IInv'
    BY <1>24 DEF OnRefusalTimeout
  <1>25. ASSUME NEW u \in Party, OnAckTimeout(u) PROVE IInv'
    BY <1>25 DEF OnAckTimeout
  <1>26. ASSUME NEW u \in Party, OnByeTimeout(u) PROVE IInv'
    BY <1>26 DEF OnByeTimeout, ByeDone
  <1>27. CASE UNCHANGED vars
    BY <1>27 DEF vars
  <1> QED
    BY <1>1, <1>2, <1>3, <1>4, <1>5, <1>6, <1>7, <1>8, <1>9, <1>10, <1>11, <1>12, <1>13, <1>14,
        <1>15, <1>16, <1>17, <1>18, <1>19, <1>20, <1>21, <1>22, <1>23, <1>24, <1>25, <1>26,
        <1>27 DEF Next, User, HangupSteps, Receive, Timeouts

\* Every handler keeps the order of the answers.
LEMMA AnswersStep == IInv /\ AnswersInOrder /\ [Next]_vars => AnswersInOrder'
  <1> SUFFICES ASSUME IInv, AnswersInOrder, [Next]_vars PROVE AnswersInOrder'
    OBVIOUS
  <1> USE Others, MaxReInviteAssumption
      DEF IInv, Types, AnswersInOrder, Answers, Party, CSeq, MaxCSeq, M, Become, Send, ua, cseqs,
          transactions
  <1>1. CASE Place
    BY <1>1 DEF Place, Invite
  <1>2. ASSUME NEW u \in Party, Accept(u) PROVE AnswersInOrder'
    BY <1>2 DEF Accept, SendOK
  <1>3. ASSUME NEW u \in Party, Hold(u) PROVE AnswersInOrder'
    BY <1>3 DEF Hold, Invite
  <1>4. ASSUME NEW u \in Party, Hangup(u) PROVE AnswersInOrder'
    BY <1>4 DEF Hangup
  <1>5. ASSUME NEW u \in Party, HangupRefuse(u) PROVE AnswersInOrder'
    BY <1>5 DEF HangupRefuse, NextStep, Refuse
  <1>6. ASSUME NEW u \in Party, HangupCancel(u) PROVE AnswersInOrder'
    BY <1>6 DEF HangupCancel, NextStep
  <1>7. ASSUME NEW u \in Party, HangupBye(u) PROVE AnswersInOrder'
    BY <1>7 DEF HangupBye, NextStep, SendBye
  <1>8. ASSUME NEW u \in Party, HangupIdle(u) PROVE AnswersInOrder'
    BY <1>8 DEF HangupIdle, NextStep
  <1>9. ASSUME NEW u \in Party, OnInvite(u) PROVE AnswersInOrder'
    BY <1>9 DEF OnInvite, Takes
  <1>10. ASSUME NEW u \in Party, OnInviteRefused(u) PROVE AnswersInOrder'
    BY <1>10 DEF OnInviteRefused, Takes
  <1>11. ASSUME NEW u \in Party, OnReInvite(u) PROVE AnswersInOrder'
    BY <1>11 DEF OnReInvite, Takes, SendOK
  <1>12. ASSUME NEW u \in Party, OnAck(u) PROVE AnswersInOrder'
    BY <1>12 DEF OnAck, Takes
  <1>13. ASSUME NEW u \in Party, OnFailureAck(u) PROVE AnswersInOrder'
    BY <1>13 DEF OnFailureAck, Takes
  <1>14. ASSUME NEW u \in Party, OnCancel(u) PROVE AnswersInOrder'
    BY <1>14 DEF OnCancel, Takes, Refuse
  <1>15. ASSUME NEW u \in Party, OnBye(u) PROVE AnswersInOrder'
    BY <1>15 DEF OnBye, Takes
  <1>16. ASSUME NEW u \in Party, OnProvisional(u) PROVE AnswersInOrder'
    BY <1>16 DEF OnProvisional, Takes
  <1>17. ASSUME NEW u \in Party, OnSuccess(u) PROVE AnswersInOrder'
    BY <1>17 DEF OnSuccess, Takes, SendBye
  <1>18. ASSUME NEW u \in Party, FinishAccepted(u) PROVE AnswersInOrder'
    BY <1>18 DEF FinishAccepted
  <1>19. ASSUME NEW u \in Party, OnReInviteSuccess(u) PROVE AnswersInOrder'
    BY <1>19 DEF OnReInviteSuccess, Takes
  <1>20. ASSUME NEW u \in Party, OnFailure(u) PROVE AnswersInOrder'
    BY <1>20 DEF OnFailure, Takes
  <1>21. ASSUME NEW u \in Party, OnUnwanted(u) PROVE AnswersInOrder'
    BY <1>21 DEF OnUnwanted, Takes
  <1>22. ASSUME NEW u \in Party, OnByeSuccess(u) PROVE AnswersInOrder'
    BY <1>22 DEF OnByeSuccess, Takes, ByeDone
  <1>23. ASSUME NEW u \in Party, OnInviteTimeout(u) PROVE AnswersInOrder'
    BY <1>23 DEF OnInviteTimeout
  <1>24. ASSUME NEW u \in Party, OnRefusalTimeout(u) PROVE AnswersInOrder'
    BY <1>24 DEF OnRefusalTimeout
  <1>25. ASSUME NEW u \in Party, OnAckTimeout(u) PROVE AnswersInOrder'
    BY <1>25 DEF OnAckTimeout
  <1>26. ASSUME NEW u \in Party, OnByeTimeout(u) PROVE AnswersInOrder'
    BY <1>26 DEF OnByeTimeout, ByeDone
  <1>27. CASE UNCHANGED vars
    BY <1>27 DEF vars
  <1> QED
    BY <1>1, <1>2, <1>3, <1>4, <1>5, <1>6, <1>7, <1>8, <1>9, <1>10, <1>11, <1>12, <1>13, <1>14,
        <1>15, <1>16, <1>17, <1>18, <1>19, <1>20, <1>21, <1>22, <1>23, <1>24, <1>25, <1>26,
        <1>27 DEF Next, User, HangupSteps, Receive, Timeouts

\* So no handler gives the second kind of answer.
LEMMA OneAnswerStep == IInv /\ AnswersInOrder /\ OneFinalAnswer /\ [Next]_vars => OneFinalAnswer'
  <1> SUFFICES ASSUME IInv, AnswersInOrder, OneFinalAnswer, [Next]_vars PROVE OneFinalAnswer'
    OBVIOUS
  <1> USE Others, MaxReInviteAssumption
      DEF IInv, Types, AnswersInOrder, OneFinalAnswer, Answers, Party, CSeq, MaxCSeq, M, Become,
          Send, ua, cseqs, transactions
  <1>1. CASE Place
    BY <1>1 DEF Place, Invite
  <1>2. ASSUME NEW u \in Party, Accept(u) PROVE OneFinalAnswer'
    BY <1>2 DEF Accept, SendOK
  <1>3. ASSUME NEW u \in Party, Hold(u) PROVE OneFinalAnswer'
    BY <1>3 DEF Hold, Invite
  <1>4. ASSUME NEW u \in Party, Hangup(u) PROVE OneFinalAnswer'
    BY <1>4 DEF Hangup
  <1>5. ASSUME NEW u \in Party, HangupRefuse(u) PROVE OneFinalAnswer'
    BY <1>5 DEF HangupRefuse, NextStep, Refuse
  <1>6. ASSUME NEW u \in Party, HangupCancel(u) PROVE OneFinalAnswer'
    BY <1>6 DEF HangupCancel, NextStep
  <1>7. ASSUME NEW u \in Party, HangupBye(u) PROVE OneFinalAnswer'
    BY <1>7 DEF HangupBye, NextStep, SendBye
  <1>8. ASSUME NEW u \in Party, HangupIdle(u) PROVE OneFinalAnswer'
    BY <1>8 DEF HangupIdle, NextStep
  <1>9. ASSUME NEW u \in Party, OnInvite(u) PROVE OneFinalAnswer'
    BY <1>9 DEF OnInvite, Takes
  <1>10. ASSUME NEW u \in Party, OnInviteRefused(u) PROVE OneFinalAnswer'
    BY <1>10 DEF OnInviteRefused, Takes
  <1>11. ASSUME NEW u \in Party, OnReInvite(u) PROVE OneFinalAnswer'
    BY <1>11 DEF OnReInvite, Takes, SendOK
  <1>12. ASSUME NEW u \in Party, OnAck(u) PROVE OneFinalAnswer'
    BY <1>12 DEF OnAck, Takes
  <1>13. ASSUME NEW u \in Party, OnFailureAck(u) PROVE OneFinalAnswer'
    BY <1>13 DEF OnFailureAck, Takes
  <1>14. ASSUME NEW u \in Party, OnCancel(u) PROVE OneFinalAnswer'
    BY <1>14 DEF OnCancel, Takes, Refuse
  <1>15. ASSUME NEW u \in Party, OnBye(u) PROVE OneFinalAnswer'
    BY <1>15 DEF OnBye, Takes
  <1>16. ASSUME NEW u \in Party, OnProvisional(u) PROVE OneFinalAnswer'
    BY <1>16 DEF OnProvisional, Takes
  <1>17. ASSUME NEW u \in Party, OnSuccess(u) PROVE OneFinalAnswer'
    <2>1. PICK n \in CSeq : \/ SendBye(u, {M(Other(u), "ACK", n)})
                            \/ Send({M(Other(u), "ACK", n)})
      BY <1>17 DEF OnSuccess
    <2>2. net' \subseteq net \cup {M(Other(u), "ACK", n), M(Other(u), "BYE", local_cseq[u] + 1)}
      BY <2>1 DEF SendBye
    <2> QED
      BY <2>2
  <1>18. ASSUME NEW u \in Party, FinishAccepted(u) PROVE OneFinalAnswer'
    BY <1>18 DEF FinishAccepted
  <1>19. ASSUME NEW u \in Party, OnReInviteSuccess(u) PROVE OneFinalAnswer'
    BY <1>19 DEF OnReInviteSuccess, Takes
  <1>20. ASSUME NEW u \in Party, OnFailure(u) PROVE OneFinalAnswer'
    BY <1>20 DEF OnFailure, Takes
  <1>21. ASSUME NEW u \in Party, OnUnwanted(u) PROVE OneFinalAnswer'
    BY <1>21 DEF OnUnwanted, Takes
  <1>22. ASSUME NEW u \in Party, OnByeSuccess(u) PROVE OneFinalAnswer'
    BY <1>22 DEF OnByeSuccess, Takes, ByeDone
  <1>23. ASSUME NEW u \in Party, OnInviteTimeout(u) PROVE OneFinalAnswer'
    BY <1>23 DEF OnInviteTimeout
  <1>24. ASSUME NEW u \in Party, OnRefusalTimeout(u) PROVE OneFinalAnswer'
    BY <1>24 DEF OnRefusalTimeout
  <1>25. ASSUME NEW u \in Party, OnAckTimeout(u) PROVE OneFinalAnswer'
    BY <1>25 DEF OnAckTimeout
  <1>26. ASSUME NEW u \in Party, OnByeTimeout(u) PROVE OneFinalAnswer'
    BY <1>26 DEF OnByeTimeout, ByeDone
  <1>27. CASE UNCHANGED vars
    BY <1>27 DEF vars
  <1> QED
    BY <1>1, <1>2, <1>3, <1>4, <1>5, <1>6, <1>7, <1>8, <1>9, <1>10, <1>11, <1>12, <1>13, <1>14,
        <1>15, <1>16, <1>17, <1>18, <1>19, <1>20, <1>21, <1>22, <1>23, <1>24, <1>25, <1>26,
        <1>27 DEF Next, User, HangupSteps, Receive, Timeouts

--------------------------------------------------------------------------------
(* The abstract call, as SipCall sees it. *)

Phases == [u \in Party |-> CallPhase(status[u])]

\* The step leaves the answer to the first INVITE and its ACK as they are.
NothingNew == (Accepted' <=> Accepted) /\ (Up' <=> Up)

\* A change of one status is a change of one phase.
LEMMA MoveStep ==
  ASSUME Types, NEW u \in Party, NEW s \in Dialog, Become(u, s)
  PROVE  Phases' = [Phases EXCEPT ![u] = CallPhase(s)] /\ Phases[u] = CallPhase(status[u])
  BY DEF Types, Become, Phases

\* A change of the status within a phase is no step of the abstract call.
LEMMA StayStep ==
  ASSUME Types, NothingNew, NEW u \in Party, NEW s \in Dialog, Become(u, s),
         CallPhase(s) = CallPhase(status[u])
  PROVE  UNCHANGED Abstract!vars
  <1>1. Phases' = Phases
    BY MoveStep DEF Phases
  <1> QED
    BY <1>1 DEF Phases, NothingNew, Accepted, Up, Abstract!vars

\* What leaves the status and these two messages alone is none either.
LEMMA IdleStep ==
  ASSUME NothingNew, UNCHANGED status
  PROVE  UNCHANGED Abstract!vars
  BY DEF NothingNew, Accepted, Up, Abstract!vars

\* The end of a call is a step of the abstract call.
LEMMA DownStep ==
  ASSUME Types, NothingNew, NEW u \in Party, Become(u, "D_CLOSE"),
         status[u] \notin {"D_INIT", "D_WAITING", "D_CLOSE"}
  PROVE  Abstract!Next
  <1>1. CallPhase(status[u]) \in Abstract!Phase \ {"none", "down"}
    BY DEF Types, Dialog, Early, Confirmed, CallPhase, Abstract!Phase
  <1>2. Phases' = [Phases EXCEPT ![u] = "down"] /\ Phases[u] = CallPhase(status[u])
    BY MoveStep DEF Dialog, CallPhase
  <1>3. Abstract!Move(u, Abstract!Phase \ {"none", "down"}, "down")
    BY <1>1, <1>2 DEF Phases, Abstract!Move
  <1> QED
    BY <1>3 DEF NothingNew, Accepted, Up, Party, Abstract!Next, Abstract!Down, Abstract!Party

\* A refusal of the first INVITE is a step of the abstract call.
LEMMA RefuseStep ==
  ASSUME IInv, NothingNew, Become("callee", "D_REFUSED"), status["caller"] # "D_INIT",
         status["callee"] \in {"D_WAITING", "D_INVITED"}
  PROVE  Abstract!Next
  <1>1. Phases' = [Phases EXCEPT !["callee"] = "refused"] /\ Phases["callee"] \in {"none", "asking"}
    BY MoveStep DEF IInv, Dialog, Early, CallPhase, Party
  <1>2. Phases["caller"] # "none"
    BY DEF IInv, Types, Roles, Phases, Party, Dialog, Early, Confirmed, CallPhase
  <1> QED
    BY <1>1, <1>2 DEF Phases, NothingNew, Accepted, Up, Abstract!Next, Abstract!Refuse,
       Abstract!Move

\* The callee's call comes up by a step of the abstract call.
LEMMA UpStep ==
  ASSUME Types, NothingNew, Up, NEW s \in Confirmed \ {"D_ACCEPTED"}, Become("callee", s),
         status["callee"] = "D_ACCEPTED"
  PROVE  Abstract!Next
  <1>1. Phases' = [Phases EXCEPT !["callee"] = "up"] /\ Phases["callee"] = "accepted"
    BY MoveStep DEF Dialog, Confirmed, CallPhase, Party
  <1> QED
    BY <1>1 DEF Phases, NothingNew, Accepted, Up, Abstract!Next, Abstract!CalleeUp, Abstract!Move

\* Every handler is a step of the abstract call, or none.
LEMMA Refines == IInv /\ [Next]_vars => [Abstract!Next]_(Abstract!vars)
  <1> SUFFICES ASSUME IInv, [Next]_vars PROVE [Abstract!Next]_(Abstract!vars)
    OBVIOUS
  <1> USE Others DEF IInv, Types, Party, Dialog, Early, Confirmed, CSeq, MaxCSeq, M, Become, Send,
              ua, cseqs, transactions
  <1>1. CASE Place
    <2>1. Phases' = [Phases EXCEPT !["caller"] = "asking"] /\ Phases["caller"] = "none"
      BY <1>1, MoveStep DEF Place, CallPhase
    <2>2. NothingNew
      BY <1>1 DEF Place, Invite, NothingNew, Accepted, Up
    <2> QED
      BY <2>1, <2>2 DEF Phases, NothingNew, Accepted, Up, Abstract!Next, Abstract!Ask, Abstract!Move
  <1>2. ASSUME NEW u \in Party, Accept(u) PROVE [Abstract!Next]_(Abstract!vars)
    <2>1. u = "callee" /\ remote_cseq[u] = 1
      BY <1>2 DEF Accept, Roles, FirstInvite
    <2>2. Phases' = [Phases EXCEPT ![u] = "accepted"] /\ Phases[u] = "asking"
      BY <1>2, MoveStep DEF Accept, CallPhase
    <2>3. Accepted' /\ (Up' <=> Up)
      BY <1>2, <2>1 DEF Accept, SendOK, Accepted, Up
    <2> QED
      BY <2>1, <2>2, <2>3 DEF Phases, Accepted, Up, Abstract!Next, Abstract!Accept, Abstract!Move
  <1>3. ASSUME NEW u \in Party, Hold(u) PROVE [Abstract!Next]_(Abstract!vars)
    BY <1>3, StayStep DEF Hold, Invite, NothingNew, Accepted, Up, CallPhase
  <1>4. ASSUME NEW u \in Party, Hangup(u) PROVE [Abstract!Next]_(Abstract!vars)
    BY <1>4, IdleStep DEF Hangup, NothingNew, Accepted, Up
  <1>5. ASSUME NEW u \in Party, HangupRefuse(u) PROVE [Abstract!Next]_(Abstract!vars)
    <2>1. CASE status[u] = "D_INVITED"
      BY <1>5, <2>1, RefuseStep DEF HangupRefuse, NextStep, Refuse, Roles, FirstInvite,
          NothingNew, Accepted, Up
    <2>2. CASE status[u] = "D_ReINVITED"
      BY <1>5, <2>2, StayStep DEF HangupRefuse, NextStep, Refuse, NothingNew, Accepted, Up,
          CallPhase
    <2>3. CASE status[u] \notin {"D_INVITED", "D_ReINVITED"}
      BY <1>5, <2>3, IdleStep DEF HangupRefuse, NextStep, NothingNew, Accepted, Up
    <2> QED
      BY <2>1, <2>2, <2>3
  <1>6. ASSUME NEW u \in Party, HangupCancel(u) PROVE [Abstract!Next]_(Abstract!vars)
    BY <1>6, IdleStep DEF HangupCancel, NextStep, NothingNew, Accepted, Up
  <1>7. ASSUME NEW u \in Party, HangupBye(u) PROVE [Abstract!Next]_(Abstract!vars)
    <2>1. CASE status[u] = "D_CALL"
      BY <1>7, <2>1, StayStep DEF HangupBye, NextStep, SendBye, NothingNew, Accepted, Up,
          CallPhase
    <2>2. CASE status[u] # "D_CALL"
      BY <1>7, <2>2, IdleStep DEF HangupBye, NextStep, NothingNew, Accepted, Up
    <2> QED
      BY <2>1, <2>2
  <1>8. ASSUME NEW u \in Party, HangupIdle(u) PROVE [Abstract!Next]_(Abstract!vars)
    BY <1>8, IdleStep DEF HangupIdle, NextStep, NothingNew, Accepted, Up
  <1>9. ASSUME NEW u \in Party, OnInvite(u) PROVE [Abstract!Next]_(Abstract!vars)
    <2>1. u = "callee" /\ status["caller"] # "D_INIT"
      BY <1>9 DEF OnInvite, Takes, Roles, FirstInvite
    <2>2. Phases' = [Phases EXCEPT ![u] = "asking"] /\ Phases[u] = "none"
      BY <1>9, MoveStep DEF OnInvite, CallPhase
    <2>3. Phases["caller"] # "none"
      BY <2>1 DEF Roles, Phases, CallPhase
    <2>4. NothingNew
      BY <1>9 DEF OnInvite, NothingNew, Accepted, Up
    <2> QED
      BY <2>1, <2>2, <2>3, <2>4 DEF Phases, NothingNew, Accepted, Up, Abstract!Next,
         Abstract!Ring, Abstract!Move
  <1>10. ASSUME NEW u \in Party, OnInviteRefused(u) PROVE [Abstract!Next]_(Abstract!vars)
    BY <1>10, RefuseStep DEF OnInviteRefused, Takes, Roles, FirstInvite, NothingNew, Accepted,
        Up
  <1>11. ASSUME NEW u \in Party, OnReInvite(u) PROVE [Abstract!Next]_(Abstract!vars)
    <2>1. PICK s \in {"D_ReACCEPTED", "D_ReINVITED"} : Become(u, s)
      BY <1>11 DEF OnReInvite
    <2>2. Up /\ status[u] \in Confirmed
      BY <1>11 DEF OnReInvite, Takes, Roles, FirstInvite, Progress, InsideDialog
    <2>3. NothingNew
      BY <1>11, <2>2 DEF OnReInvite, SendOK, FirstInvite, Progress, NothingNew, Accepted, Up
    <2>4. CASE status[u] = "D_ACCEPTED"
      BY <2>1, <2>2, <2>3, <2>4, UpStep DEF Roles
    <2>5. CASE status[u] # "D_ACCEPTED"
      BY <2>1, <2>2, <2>3, <2>5, StayStep DEF CallPhase
    <2> QED
      BY <2>4, <2>5
  <1>12. ASSUME NEW u \in Party, OnAck(u) PROVE [Abstract!Next]_(Abstract!vars)
    <2>1. CASE status[u] = "D_ACCEPTED"
      BY <1>12, <2>1, UpStep DEF OnAck, Takes, Roles, InsideDialog, NothingNew, Accepted, Up
    <2>2. CASE status[u] = "D_ReACCEPTED"
      BY <1>12, <2>2, StayStep DEF OnAck, Takes, NothingNew, Accepted, Up, CallPhase
    <2> QED
      BY <1>12, <2>1, <2>2 DEF OnAck
  <1>13. ASSUME NEW u \in Party, OnFailureAck(u) PROVE [Abstract!Next]_(Abstract!vars)
    <2>1. CASE status[u] = "D_REFUSED"
      BY <1>13, <2>1, DownStep DEF OnFailureAck, Takes, NothingNew, Accepted, Up
    <2>2. CASE status[u] = "D_ReREFUSED"
      BY <1>13, <2>2, StayStep DEF OnFailureAck, Takes, NothingNew, Accepted, Up, CallPhase
    <2>3. CASE status[u] \notin {"D_REFUSED", "D_ReREFUSED"}
      BY <1>13, <2>3, IdleStep DEF OnFailureAck, Takes, NothingNew, Accepted, Up
    <2> QED
      BY <2>1, <2>2, <2>3
  <1>14. ASSUME NEW u \in Party, OnCancel(u) PROVE [Abstract!Next]_(Abstract!vars)
    <2>1. CASE status[u] = "D_INVITED"
      BY <1>14, <2>1, RefuseStep DEF OnCancel, Takes, Refuse, Roles, FirstInvite, NothingNew,
          Accepted, Up
    <2>2. CASE status[u] = "D_ReINVITED"
      BY <1>14, <2>2, StayStep DEF OnCancel, Takes, Refuse, NothingNew, Accepted, Up, CallPhase
    <2> QED
      BY <1>14, <2>1, <2>2 DEF OnCancel
  <1>15. ASSUME NEW u \in Party, OnBye(u) PROVE [Abstract!Next]_(Abstract!vars)
    BY <1>15, DownStep DEF OnBye, Takes, NothingNew, Accepted, Up, CallPhase
  <1>16. ASSUME NEW u \in Party, OnProvisional(u) PROVE [Abstract!Next]_(Abstract!vars)
    BY <1>16, IdleStep DEF OnProvisional, Takes, NothingNew, Accepted, Up
  <1>17. ASSUME NEW u \in Party, OnSuccess(u) PROVE [Abstract!Next]_(Abstract!vars)
    <2>1. PICK s \in {"D_CALL", "D_BYEING"} : Become(u, s)
      BY <1>17 DEF OnSuccess, SendBye
    <2>2. u = "caller" /\ Accepted /\ Accepted' /\ Up'
      BY <1>17, Unanswered DEF OnSuccess, SendBye, Takes, Roles, FirstInvite, Accepted, Up
    <2>3. Phases' = [Phases EXCEPT ![u] = "up"] /\ Phases[u] = "asking"
      BY <1>17, <2>1, MoveStep DEF OnSuccess, CallPhase
    <2> QED
      BY <2>2, <2>3 DEF Phases, Accepted, Up, Abstract!Next, Abstract!CallerUp, Abstract!Move
  <1>18. ASSUME NEW u \in Party, FinishAccepted(u) PROVE [Abstract!Next]_(Abstract!vars)
    BY <1>18, IdleStep DEF FinishAccepted, NothingNew, Accepted, Up
  <1>19. ASSUME NEW u \in Party, OnReInviteSuccess(u) PROVE [Abstract!Next]_(Abstract!vars)
    BY <1>19, StayStep DEF OnReInviteSuccess, Takes, Progress, NothingNew, Accepted, Up,
        CallPhase
  <1>20. ASSUME NEW u \in Party, OnFailure(u) PROVE [Abstract!Next]_(Abstract!vars)
    <2>1. CASE status[u] = "D_INVITING"
      BY <1>20, <2>1, DownStep DEF OnFailure, Takes, NothingNew, Accepted, Up
    <2>2. CASE status[u] # "D_INVITING"
      BY <1>20, <2>2, StayStep DEF OnFailure, Takes, NothingNew, Accepted, Up, CallPhase
    <2> QED
      BY <2>1, <2>2
  <1>21. ASSUME NEW u \in Party, OnUnwanted(u) PROVE [Abstract!Next]_(Abstract!vars)
    BY <1>21, IdleStep DEF OnUnwanted, Takes, NothingNew, Accepted, Up
  <1>22. ASSUME NEW u \in Party, OnByeSuccess(u) PROVE [Abstract!Next]_(Abstract!vars)
    <2>1. CASE status[u] = "D_BYEING"
      BY <1>22, <2>1, DownStep DEF OnByeSuccess, Takes, ByeDone, NothingNew, Accepted, Up
    <2>2. CASE status[u] # "D_BYEING"
      BY <1>22, <2>2, IdleStep DEF OnByeSuccess, Takes, ByeDone, NothingNew, Accepted, Up
    <2> QED
      BY <2>1, <2>2
  <1>23. ASSUME NEW u \in Party, OnInviteTimeout(u) PROVE [Abstract!Next]_(Abstract!vars)
    <2>1. CASE status[u] \in {"D_INVITING", "D_ReINVITING"}
      BY <1>23, <2>1, DownStep DEF OnInviteTimeout, NothingNew, Accepted, Up
    <2>2. CASE status[u] \notin {"D_INVITING", "D_ReINVITING"}
      BY <1>23, <2>2, IdleStep DEF OnInviteTimeout, NothingNew, Accepted, Up
    <2> QED
      BY <2>1, <2>2
  <1>24. ASSUME NEW u \in Party, OnRefusalTimeout(u) PROVE [Abstract!Next]_(Abstract!vars)
    BY <1>24, IdleStep DEF OnRefusalTimeout, NothingNew, Accepted, Up
  <1>25. ASSUME NEW u \in Party, OnAckTimeout(u) PROVE [Abstract!Next]_(Abstract!vars)
    <2>1. NothingNew
      BY <1>25 DEF OnAckTimeout, NothingNew, Accepted, Up
    <2>2. CASE status[u] \in {"D_ACCEPTED", "D_ReACCEPTED", "D_REFUSED", "D_ReREFUSED"}
      BY <1>25, <2>1, <2>2, DownStep DEF OnAckTimeout
    <2>3. CASE status[u] \notin {"D_ACCEPTED", "D_ReACCEPTED", "D_REFUSED", "D_ReREFUSED"}
      BY <1>25, <2>1, <2>3, IdleStep DEF OnAckTimeout
    <2> QED
      BY <2>2, <2>3
  <1>26. ASSUME NEW u \in Party, OnByeTimeout(u) PROVE [Abstract!Next]_(Abstract!vars)
    <2>1. CASE status[u] = "D_BYEING"
      BY <1>26, <2>1, DownStep DEF OnByeTimeout, ByeDone, NothingNew, Accepted, Up
    <2>2. CASE status[u] # "D_BYEING"
      BY <1>26, <2>2, IdleStep DEF OnByeTimeout, ByeDone, NothingNew, Accepted, Up
    <2> QED
      BY <2>1, <2>2
  <1>27. CASE UNCHANGED vars
    BY <1>27, IdleStep DEF vars, NothingNew, Accepted, Up
  <1> QED
    BY <1>1, <1>2, <1>3, <1>4, <1>5, <1>6, <1>7, <1>8, <1>9, <1>10, <1>11, <1>12, <1>13, <1>14,
        <1>15, <1>16, <1>17, <1>18, <1>19, <1>20, <1>21, <1>22, <1>23, <1>24, <1>25, <1>26,
        <1>27 DEF Next, User, HangupSteps, Receive, Timeouts

--------------------------------------------------------------------------------

\* The invariant holds in every state.
THEOREM Invariance == Spec => []IInv
  <1>1. Init => IInv
    BY MaxReInviteAssumption DEF Init, IInv, Types, Roles, Accepted, Up, FirstInvite, Progress,
       InsideDialog, Party, Dialog, Early, Confirmed, CSeq, MaxCSeq, M
  <1> QED
    BY <1>1, IInvStep, PTL DEF Spec

\* However accept, hangup, CANCEL and re-INVITE interleave, InviteDialog.respond never gives
\* an INVITE both a 2xx and a refusal.
THEOREM AnswersCorrect == Spec => []OneFinalAnswer
  <1>1. Init => AnswersInOrder /\ OneFinalAnswer
    BY DEF Init, AnswersInOrder, OneFinalAnswer, Answers, Party
  <1> QED
    BY <1>1, AnswersStep, OneAnswerStep, Invariance, PTL DEF Spec

\* The two dialogs implement the abstract call, however many re-INVITEs, losses, repeats
\* and hangups there are.
THEOREM CallCorrect == Spec => CallsAgree
  <1>1. Init => Abstract!Init
    BY DEF Init, Abstract!Init, Abstract!Party, CallPhase, Party, M
  <1> QED
    BY <1>1, Invariance, Refines, PTL DEF Spec, CallsAgree, Abstract!Spec

--------------------------------------------------------------------------------
(* Types: the CSeqs that a call can use up. *)

\* The INVITEs that u has yet to take.
Arriving(u) == {n \in CSeq : M(u, "INVITE", n) \in net /\ n > remote_cseq[u]}

\* The CSeqs that the next request of u may follow.
Open(u) == {local_cseq[u]} \cup {n \in CSeq : invite_tc[u][n] # "none"}

\* u has a BYE to send yet.
Spare(u) == IF status[u] \in {"D_BYEING", "D_CLOSE"} THEN 0 ELSE 1

\* The first INVITE is yet to come.
Unplaced == IF status["caller"] = "D_INIT" THEN 1 ELSE 0

\* Every CSeq of u was paid for: by the first INVITE and the BYE, by a re-INVITE, or by an
\* INVITE of the other end, which lets u send one more BYE.
Fits(u) == \A n \in Open(u) : n + Spare(u) + Unplaced + Cardinality(Arriving(u)) <= 3 + reinvites

\* Each side keeps to its budget.
Budget == \A u \in Party : Fits(u)

\* A dialog knows the CSeq of the INVITE that it is invited with, and none before the first; its
\* own count begins at 1.
Invited ==
  \A u \in Party : /\ status[u] = "D_WAITING" => remote_cseq[u] = 0
                   /\ status[u] = "D_INIT" => local_cseq[u] = 1
                   /\ status[u] \in {"D_INVITED", "D_ReINVITED"} => remote_cseq[u] \in CSeq

\* What arrives can be counted, before a step and after it.
LEMMA ArrivingFinite ==
  ASSUME NEW u \in Party
  PROVE  /\ IsFiniteSet(Arriving(u)) /\ Cardinality(Arriving(u)) \in Nat
         /\ IsFiniteSet(Arriving(u)') /\ Cardinality(Arriving(u)') \in Nat
  <1>1. IsFiniteSet(CSeq)
    BY MaxReInviteAssumption, FS_Interval DEF CSeq, MaxCSeq
  <1>2. IsFiniteSet(Arriving(u)) /\ IsFiniteSet(Arriving(u)')
    BY <1>1, FS_Subset DEF Arriving
  <1> QED
    BY <1>2, FS_CardinalityType

\* What a step may take from u and the budget still holds.
Saves(u) == /\ Arriving(u)' \subseteq Arriving(u)
            /\ Open(u)' \subseteq Open(u)
            /\ Spare(u)' <= Spare(u)
            /\ Unplaced' <= Unplaced
            /\ reinvites' >= reinvites

\* What only saves keeps the budget.
LEMMA SavesFits ==
  ASSUME TypeOK, TypeOK', NEW u \in Party, Fits(u), Saves(u) PROVE Fits(u)'
  <1>1. /\ Cardinality(Arriving(u))' <= Cardinality(Arriving(u))
        /\ Cardinality(Arriving(u)) \in Nat
        /\ Cardinality(Arriving(u))' \in Nat
    BY ArrivingFinite, FS_Subset, FS_CardinalityType DEF Saves
  <1>2. Open(u) \subseteq Nat /\ reinvites \in Nat /\ reinvites' \in Nat
    BY MaxReInviteAssumption DEF TypeOK, Open, CSeq, MaxCSeq
  <1>3. Spare(u) \in Nat /\ Unplaced \in Nat /\ Spare(u)' \in Nat /\ Unplaced' \in Nat
    BY DEF Spare, Unplaced
  <1> SUFFICES ASSUME NEW n \in Open(u)'
               PROVE  n + Spare(u)' + Unplaced' + Cardinality(Arriving(u))' <= 3 + reinvites'
    BY DEF Fits
  <1>4. n \in Open(u) /\ n \in Nat
    BY <1>2 DEF Saves
  <1>5. n + Spare(u) + Unplaced + Cardinality(Arriving(u)) <= 3 + reinvites
    BY <1>4 DEF Fits
  <1>6. Spare(u)' <= Spare(u) /\ Unplaced' <= Unplaced /\ reinvites' >= reinvites
    BY DEF Saves
  <1> HIDE DEF Fits, Saves, Spare, Unplaced
  <1> QED
    BY <1>1, <1>2, <1>3, <1>4, <1>5, <1>6

\* The budget keeps every CSeq within its bound.
LEMMA WithinBudget ==
  ASSUME TypeOK, Budget, NEW u \in Party, Spare(u) = 1
  PROVE  local_cseq[u] + 1 \in CSeq
  <1>1. local_cseq[u] \in Open(u) /\ local_cseq[u] \in Nat \ {0} /\ reinvites \in 0..MaxReInvite
    BY DEF Open, TypeOK, CSeq
  <1>2. local_cseq[u] + 1 + Unplaced + Cardinality(Arriving(u)) <= 3 + reinvites
    BY <1>1 DEF Budget, Fits
  <1>3. Unplaced \in Nat /\ Cardinality(Arriving(u)) \in Nat
    BY ArrivingFinite DEF Unplaced
  <1> QED
    BY <1>1, <1>2, <1>3, MaxReInviteAssumption DEF CSeq, MaxCSeq

\* Going idle is typed.
LEMMA GoIdleTypes ==
  ASSUME TypeOK, NEW u \in Party, GoIdle(u)
  PROVE  call_state' \in [Party -> CallState] /\ attached' \in [Party -> BOOLEAN]
  <1>1. call_state' \in [Party -> CallState]
    BY DEF TypeOK, GoIdle, Show, CallState, ua
  <1>2. attached' \in [Party -> BOOLEAN]
    BY Zenon DEF TypeOK, GoIdle, ua
  <1> QED
    BY <1>1, <1>2

\* A BYE is typed.
LEMMA SendByeTypes ==
  ASSUME TypeOK, Budget, NEW u \in Party, NEW out \in SUBSET Message, SendBye(u, out),
         status[u] \in {"D_CALL", "D_INVITING"}
  PROVE  /\ status' \in [Party -> Dialog] /\ local_cseq' \in [Party -> CSeq]
         /\ bye_tc' \in [Party -> SUBSET CSeq] /\ net' \subseteq Message
  <1>1. local_cseq[u] + 1 \in CSeq
    BY WithinBudget DEF Spare
  <1> QED
    BY <1>1, Others DEF TypeOK, SendBye, Become, Send, M, Message, Party, Dialog, Early, Confirmed

\* Every handler keeps the types, as long as the CSeqs are paid for.
LEMMA TypeStep == TypeOK /\ IInv /\ Budget /\ Invited /\ [Next]_vars => TypeOK'
  <1> SUFFICES ASSUME TypeOK, IInv, Budget, Invited, [Next]_vars PROVE TypeOK'
    OBVIOUS
  <1> USE Others, MaxReInviteAssumption
      DEF TypeOK, Invited, Party, Dialog, Early, Confirmed, CallState, Message, M, Become, Show,
          Send, ua, cseqs, transactions
  <1>1. CASE Place
    <2>1. 1 \in CSeq
      BY DEF CSeq, MaxCSeq
    <2> QED
      BY <1>1, <2>1 DEF Place, Invite
  <1>2. ASSUME NEW u \in Party, Accept(u) PROVE TypeOK'
    BY <1>2 DEF Accept, SendOK
  <1>3. ASSUME NEW u \in Party, Hold(u) PROVE TypeOK'
    <2>1. local_cseq[u] + 1 \in CSeq
      BY <1>3, WithinBudget DEF Hold, Spare
    <2>2. reinvites' \in 0..MaxReInvite
      BY <1>3 DEF Hold
    <2>3. invite_tc' \in [Party -> [CSeq -> {"none", "TRYING", "PROCEEDING"}]]
      BY <1>3, <2>1 DEF Hold, Invite
    <2> QED
      BY <1>3, <2>1, <2>2, <2>3 DEF Hold, Invite
  <1>4. ASSUME NEW u \in Party, Hangup(u) PROVE TypeOK'
    BY <1>4 DEF Hangup
  <1>5. ASSUME NEW u \in Party, HangupRefuse(u) PROVE TypeOK'
    BY <1>5 DEF HangupRefuse, NextStep, Refuse
  <1>6. ASSUME NEW u \in Party, HangupCancel(u) PROVE TypeOK'
    BY <1>6 DEF HangupCancel, NextStep
  <1>7. ASSUME NEW u \in Party, HangupBye(u) PROVE TypeOK'
    <2>1. /\ status' \in [Party -> Dialog] /\ local_cseq' \in [Party -> CSeq]
          /\ bye_tc' \in [Party -> SUBSET CSeq] /\ net' \subseteq Message
      <3>1. CASE SendBye(u, {}) /\ status[u] = "D_CALL"
        BY <3>1, SendByeTypes
      <3>2. CASE UNCHANGED <<status, local_cseq, bye_tc, net>>
        BY <3>2
      <3> QED
        BY <1>7, <3>1, <3>2 DEF HangupBye
    <2>2. attached' \in [Party -> BOOLEAN]
      <3>1. UNCHANGED attached \/ attached' = [attached EXCEPT ![u] = FALSE]
        BY <1>7 DEF HangupBye
      <3> QED
        BY <3>1, Zenon
    <2>3. hang' \in [Party -> 0..7]
      BY <1>7 DEF HangupBye, NextStep
    <2> QED
      BY <1>7, <2>1, <2>2, <2>3 DEF HangupBye
  <1>8. ASSUME NEW u \in Party, HangupIdle(u) PROVE TypeOK'
    BY <1>8 DEF HangupIdle, NextStep
  <1>9. ASSUME NEW u \in Party, OnInvite(u) PROVE TypeOK'
    BY <1>9 DEF OnInvite, Takes
  <1>10. ASSUME NEW u \in Party, OnInviteRefused(u) PROVE TypeOK'
    BY <1>10 DEF OnInviteRefused, Takes
  <1>11. ASSUME NEW u \in Party, OnReInvite(u) PROVE TypeOK'
    BY <1>11 DEF OnReInvite, Takes, SendOK
  <1>12. ASSUME NEW u \in Party, OnAck(u) PROVE TypeOK'
    BY <1>12 DEF OnAck, Takes
  <1>13. ASSUME NEW u \in Party, OnFailureAck(u) PROVE TypeOK'
    BY <1>13 DEF OnFailureAck, Takes
  <1>14. ASSUME NEW u \in Party, OnCancel(u) PROVE TypeOK'
    <2>1. call_state' \in [Party -> CallState] /\ attached' \in [Party -> BOOLEAN]
      BY <1>14, GoIdleTypes DEF OnCancel, ua
    <2> QED
      BY <1>14, <2>1 DEF OnCancel, Takes, Refuse
  <1>15. ASSUME NEW u \in Party, OnBye(u) PROVE TypeOK'
    <2>1. call_state' \in [Party -> CallState] /\ attached' \in [Party -> BOOLEAN]
      BY <1>15, GoIdleTypes DEF OnBye, ua
    <2> QED
      BY <1>15, <2>1 DEF OnBye, Takes
  <1>16. ASSUME NEW u \in Party, OnProvisional(u) PROVE TypeOK'
    BY <1>16 DEF OnProvisional, Takes
  <1>17. ASSUME NEW u \in Party, OnSuccess(u) PROVE TypeOK'
    <2>1. PICK n \in CSeq :
            /\ Takes(u, "OK", n) /\ Answered(u, n) /\ status[u] = "D_INVITING"
            /\ \/ SendBye(u, {M(Other(u), "ACK", n)}) /\ UNCHANGED to_show
               \/ /\ Become(u, "D_CALL") /\ Send({M(Other(u), "ACK", n)})
                  /\ WillShow(u, "INCALL") /\ UNCHANGED <<local_cseq, bye_tc>>
      BY <1>17 DEF OnSuccess
    <2>2. /\ status' \in [Party -> Dialog] /\ local_cseq' \in [Party -> CSeq]
          /\ bye_tc' \in [Party -> SUBSET CSeq] /\ net' \subseteq Message
      <3>1. {M(Other(u), "ACK", n)} \subseteq Message
        OBVIOUS
      <3>2. CASE SendBye(u, {M(Other(u), "ACK", n)})
        BY <2>1, <3>1, <3>2, SendByeTypes
      <3>3. CASE /\ Become(u, "D_CALL") /\ Send({M(Other(u), "ACK", n)})
                 /\ UNCHANGED <<local_cseq, bye_tc>>
        BY <3>1, <3>3
      <3> QED
        BY <2>1, <3>2, <3>3
    <2>3. to_show' \in [Party -> {"none", "INCALL", "HOLD"}]
      BY <2>1 DEF WillShow
    <2>4. invite_tc' \in [Party -> [CSeq -> {"none", "TRYING", "PROCEEDING"}]]
      BY <2>1 DEF Answered
    <2> QED
      BY <1>17, <2>2, <2>3, <2>4 DEF OnSuccess
  <1>18. ASSUME NEW u \in Party, FinishAccepted(u) PROVE TypeOK'
    BY <1>18 DEF FinishAccepted
  <1>19. ASSUME NEW u \in Party, OnReInviteSuccess(u) PROVE TypeOK'
    BY <1>19 DEF OnReInviteSuccess, Takes, Answered, WillShow
  <1>20. ASSUME NEW u \in Party, OnFailure(u) PROVE TypeOK'
    <2>1. call_state' \in [Party -> CallState] /\ attached' \in [Party -> BOOLEAN]
      <3>1. CASE GoIdle(u)
        BY <3>1, GoIdleTypes
      <3>2. CASE UNCHANGED ua
        BY <3>2 DEF ua
      <3> QED
        BY <1>20, <3>1, <3>2 DEF OnFailure
    <2> QED
      BY <1>20, <2>1 DEF OnFailure, Takes, Answered
  <1>21. ASSUME NEW u \in Party, OnUnwanted(u) PROVE TypeOK'
    BY <1>21 DEF OnUnwanted, Takes, Answered
  <1>22. ASSUME NEW u \in Party, OnByeSuccess(u) PROVE TypeOK'
    <2>1. call_state' \in [Party -> CallState] /\ attached' \in [Party -> BOOLEAN]
      <3>1. CASE GoIdle(u)
        BY <3>1, GoIdleTypes
      <3>2. CASE UNCHANGED ua
        BY <3>2 DEF ua
      <3> QED
        BY <1>22, <3>1, <3>2 DEF OnByeSuccess
    <2> QED
      BY <1>22, <2>1 DEF OnByeSuccess, Takes, ByeDone
  <1>23. ASSUME NEW u \in Party, OnInviteTimeout(u) PROVE TypeOK'
    <2>1. call_state' \in [Party -> CallState] /\ attached' \in [Party -> BOOLEAN]
      <3>1. CASE GoIdle(u)
        BY <3>1, GoIdleTypes
      <3>2. CASE UNCHANGED ua
        BY <3>2 DEF ua
      <3> QED
        BY <1>23, <3>1, <3>2 DEF OnInviteTimeout
    <2> QED
      BY <1>23, <2>1 DEF OnInviteTimeout, Answered
  <1>24. ASSUME NEW u \in Party, OnRefusalTimeout(u) PROVE TypeOK'
    BY <1>24 DEF OnRefusalTimeout
  <1>25. ASSUME NEW u \in Party, OnAckTimeout(u) PROVE TypeOK'
    BY <1>25 DEF OnAckTimeout
  <1>26. ASSUME NEW u \in Party, OnByeTimeout(u) PROVE TypeOK'
    BY <1>26 DEF OnByeTimeout, ByeDone
  <1>27. CASE UNCHANGED vars
    BY <1>27 DEF vars
  <1> QED
    BY <1>1, <1>2, <1>3, <1>4, <1>5, <1>6, <1>7, <1>8, <1>9, <1>10, <1>11, <1>12, <1>13, <1>14,
        <1>15, <1>16, <1>17, <1>18, <1>19, <1>20, <1>21, <1>22, <1>23, <1>24, <1>25, <1>26,
        <1>27 DEF Next, User, HangupSteps, Receive, Timeouts

\* Every handler keeps what a dialog knows of the INVITE it is invited with.
LEMMA InvitedStep == TypeOK /\ IInv /\ Invited /\ [Next]_vars => Invited'
  <1> SUFFICES ASSUME TypeOK, IInv, Invited, [Next]_vars PROVE Invited'
    OBVIOUS
  <1> USE Others, MaxReInviteAssumption DEF TypeOK, Invited, Become, ua, cseqs, transactions
  <1>1. CASE Place
    BY <1>1 DEF Place
  <1>2. ASSUME NEW u \in Party, Accept(u) PROVE Invited'
    BY <1>2 DEF Accept
  <1>3. ASSUME NEW u \in Party, Hold(u) PROVE Invited'
    BY <1>3 DEF Hold
  <1>4. ASSUME NEW u \in Party, Hangup(u) PROVE Invited'
    BY <1>4 DEF Hangup
  <1>5. ASSUME NEW u \in Party, HangupRefuse(u) PROVE Invited'
    BY <1>5 DEF HangupRefuse, Refuse
  <1>6. ASSUME NEW u \in Party, HangupCancel(u) PROVE Invited'
    BY <1>6 DEF HangupCancel
  <1>7. ASSUME NEW u \in Party, HangupBye(u) PROVE Invited'
    BY <1>7 DEF HangupBye, SendBye
  <1>8. ASSUME NEW u \in Party, HangupIdle(u) PROVE Invited'
    BY <1>8 DEF HangupIdle
  <1>9. ASSUME NEW u \in Party, OnInvite(u) PROVE Invited'
    BY <1>9 DEF OnInvite, Takes
  <1>10. ASSUME NEW u \in Party, OnInviteRefused(u) PROVE Invited'
    BY <1>10 DEF OnInviteRefused, Takes
  <1>11. ASSUME NEW u \in Party, OnReInvite(u) PROVE Invited'
    BY <1>11 DEF OnReInvite, Takes
  <1>12. ASSUME NEW u \in Party, OnAck(u) PROVE Invited'
    BY <1>12 DEF OnAck, Takes
  <1>13. ASSUME NEW u \in Party, OnFailureAck(u) PROVE Invited'
    BY <1>13 DEF OnFailureAck, Takes
  <1>14. ASSUME NEW u \in Party, OnCancel(u) PROVE Invited'
    BY <1>14 DEF OnCancel, Takes, Refuse
  <1>15. ASSUME NEW u \in Party, OnBye(u) PROVE Invited'
    BY <1>15 DEF OnBye, Takes
  <1>16. ASSUME NEW u \in Party, OnProvisional(u) PROVE Invited'
    BY <1>16 DEF OnProvisional, Takes
  <1>17. ASSUME NEW u \in Party, OnSuccess(u) PROVE Invited'
    <2>1. PICK s \in {"D_CALL", "D_BYEING"} : status' = [status EXCEPT ![u] = s]
      BY <1>17 DEF OnSuccess, SendBye
    <2>2. \A v \in Party \ {u} : local_cseq'[v] = local_cseq[v]
      BY <1>17 DEF OnSuccess, SendBye
    <2> QED
      BY <1>17, <2>1, <2>2 DEF OnSuccess
  <1>18. ASSUME NEW u \in Party, FinishAccepted(u) PROVE Invited'
    BY <1>18 DEF FinishAccepted
  <1>19. ASSUME NEW u \in Party, OnReInviteSuccess(u) PROVE Invited'
    BY <1>19 DEF OnReInviteSuccess, Takes
  <1>20. ASSUME NEW u \in Party, OnFailure(u) PROVE Invited'
    BY <1>20 DEF OnFailure, Takes
  <1>21. ASSUME NEW u \in Party, OnUnwanted(u) PROVE Invited'
    BY <1>21 DEF OnUnwanted, Takes
  <1>22. ASSUME NEW u \in Party, OnByeSuccess(u) PROVE Invited'
    BY <1>22 DEF OnByeSuccess, Takes, ByeDone
  <1>23. ASSUME NEW u \in Party, OnInviteTimeout(u) PROVE Invited'
    BY <1>23 DEF OnInviteTimeout
  <1>24. ASSUME NEW u \in Party, OnRefusalTimeout(u) PROVE Invited'
    BY <1>24 DEF OnRefusalTimeout
  <1>25. ASSUME NEW u \in Party, OnAckTimeout(u) PROVE Invited'
    BY <1>25 DEF OnAckTimeout
  <1>26. ASSUME NEW u \in Party, OnByeTimeout(u) PROVE Invited'
    BY <1>26 DEF OnByeTimeout, ByeDone
  <1>27. CASE UNCHANGED vars
    BY <1>27 DEF vars
  <1> QED
    BY <1>1, <1>2, <1>3, <1>4, <1>5, <1>6, <1>7, <1>8, <1>9, <1>10, <1>11, <1>12, <1>13, <1>14,
        <1>15, <1>16, <1>17, <1>18, <1>19, <1>20, <1>21, <1>22, <1>23, <1>24, <1>25, <1>26,
        <1>27 DEF Next, User, HangupSteps, Receive, Timeouts

\* A step that sends u no INVITE and uses up no CSeq of it.
Quiet(u) ==
  /\ \A n \in CSeq : M(u, "INVITE", n) \in net' => M(u, "INVITE", n) \in net
  /\ remote_cseq'[u] >= remote_cseq[u]
  /\ local_cseq'[u] \in Open(u)
  /\ \A n \in CSeq : invite_tc'[u][n] # "none" => invite_tc[u][n] # "none"
  /\ status[u] \in {"D_BYEING", "D_CLOSE"} => status'[u] \in {"D_BYEING", "D_CLOSE"}
  /\ status'["caller"] = "D_INIT" => status["caller"] = "D_INIT"
  /\ reinvites' = reinvites

\* So it keeps the budget.
LEMMA QuietFits ==
  ASSUME TypeOK, TypeOK', NEW u \in Party, Fits(u), Quiet(u) PROVE Fits(u)'
  <1>0. remote_cseq[u] \in Nat /\ remote_cseq'[u] \in Nat /\ CSeq \subseteq Nat
    BY MaxReInviteAssumption DEF TypeOK, CSeq, MaxCSeq
  <1>1. \A n \in CSeq : n > remote_cseq'[u] => n > remote_cseq[u]
    BY <1>0 DEF Quiet
  <1>2. Arriving(u)' \subseteq Arriving(u)
    BY <1>1 DEF Quiet, Arriving, M
  <1>3. Open(u)' \subseteq Open(u)
    BY DEF Quiet, Open
  <1>4. Spare(u)' <= Spare(u) /\ Unplaced' <= Unplaced
    BY DEF Quiet, Spare, Unplaced
  <1>5. reinvites' >= reinvites
    BY MaxReInviteAssumption DEF Quiet, TypeOK
  <1> QED
    BY <1>2, <1>3, <1>4, <1>5, SavesFits DEF Saves

\* One more INVITE for u is paid for by the step that sends it.
LEMMA PaidFits ==
  ASSUME TypeOK, TypeOK', NEW u \in Party, Fits(u), NEW k \in CSeq,
         Arriving(u)' \subseteq Arriving(u) \cup {k}, Open(u)' \subseteq Open(u),
         Spare(u)' <= Spare(u),
         \/ reinvites' = reinvites + 1 /\ Unplaced' <= Unplaced
         \/ reinvites' = reinvites /\ Unplaced' = Unplaced - 1
  PROVE  Fits(u)'
  <1>1. /\ Cardinality(Arriving(u))' <= Cardinality(Arriving(u)) + 1
        /\ Cardinality(Arriving(u)) \in Nat
        /\ Cardinality(Arriving(u))' \in Nat
    <2>1. IsFiniteSet(Arriving(u)) /\ IsFiniteSet(Arriving(u))'
      BY ArrivingFinite
    <2>2. /\ IsFiniteSet(Arriving(u) \cup {k})
          /\ Cardinality(Arriving(u) \cup {k})
               \in {Cardinality(Arriving(u)), Cardinality(Arriving(u)) + 1}
      BY <2>1, FS_AddElement
    <2>3. Cardinality(Arriving(u))' <= Cardinality(Arriving(u) \cup {k})
      BY <2>2, FS_Subset
    <2> QED
      BY <2>2, <2>3, ArrivingFinite
  <1>2. Open(u) \subseteq Nat /\ reinvites \in Nat /\ reinvites' \in Nat
    BY MaxReInviteAssumption DEF TypeOK, Open, CSeq, MaxCSeq
  <1>3. Spare(u) \in Nat /\ Unplaced \in Nat /\ Spare(u)' \in Nat /\ Unplaced' \in Nat
    BY DEF Spare, Unplaced
  <1> SUFFICES ASSUME NEW n \in Open(u)'
               PROVE  n + Spare(u)' + Unplaced' + Cardinality(Arriving(u))' <= 3 + reinvites'
    BY DEF Fits
  <1>4. n \in Open(u) /\ n \in Nat
    BY <1>2
  <1>5. n + Spare(u) + Unplaced + Cardinality(Arriving(u)) <= 3 + reinvites
    BY <1>4 DEF Fits
  <1>6. Spare(u)' + Unplaced' - reinvites' + 1 <= Spare(u) + Unplaced - reinvites
    BY <1>2, <1>3
  <1> HIDE DEF Fits, Spare, Unplaced
  <1> QED
    BY <1>1, <1>2, <1>3, <1>4, <1>5, <1>6

\* The next CSeq of u is paid for by its one BYE, or by the re-INVITE it is for.
LEMMA NextFits ==
  ASSUME TypeOK, TypeOK', NEW u \in Party, Fits(u), Spare(u) = 1,
         Arriving(u)' \subseteq Arriving(u), Open(u)' \subseteq Open(u) \cup {local_cseq[u] + 1},
         Unplaced' <= Unplaced, Spare(u)' <= 1,
         \/ Spare(u)' = 0 /\ reinvites' = reinvites
         \/ reinvites' = reinvites + 1
  PROVE  Fits(u)'
  <1>1. /\ Cardinality(Arriving(u))' <= Cardinality(Arriving(u))
        /\ Cardinality(Arriving(u)) \in Nat
        /\ Cardinality(Arriving(u))' \in Nat
    BY ArrivingFinite, FS_Subset, FS_CardinalityType
  <1>2. /\ Open(u) \subseteq Nat /\ local_cseq[u] \in Open(u)
        /\ reinvites \in Nat /\ reinvites' \in Nat
    BY MaxReInviteAssumption DEF TypeOK, Open, CSeq, MaxCSeq
  <1>3. Unplaced \in Nat /\ Spare(u)' \in Nat /\ Unplaced' \in Nat
    BY DEF Spare, Unplaced
  <1>4. \A n \in Open(u) : n + 1 + Unplaced + Cardinality(Arriving(u)) <= 3 + reinvites
    BY DEF Fits
  <1> SUFFICES ASSUME NEW n \in Open(u)'
               PROVE  n + Spare(u)' + Unplaced' + Cardinality(Arriving(u))' <= 3 + reinvites'
    BY DEF Fits
  <1>5. PICK m \in Open(u) : m \in Nat /\ n \in Nat /\ n <= m + 1 /\ (n = m \/ m = local_cseq[u])
    BY <1>2
  <1>6. m + 1 + Unplaced + Cardinality(Arriving(u)) <= 3 + reinvites
    BY <1>4, <1>5
  <1> HIDE DEF Fits, Spare, Unplaced
  <1> QED
    BY <1>1, <1>2, <1>3, <1>5, <1>6

\* An INVITE that is taken pays for one more BYE.
LEMMA TakenFits ==
  ASSUME TypeOK, TypeOK', NEW u \in Party, Fits(u), NEW k \in Arriving(u),
         Arriving(u)' \subseteq Arriving(u) \ {k}, Open(u)' \subseteq Open(u),
         Unplaced' <= Unplaced, reinvites' = reinvites
  PROVE  Fits(u)'
  <1>1. /\ Cardinality(Arriving(u))' <= Cardinality(Arriving(u)) - 1
        /\ Cardinality(Arriving(u)) \in Nat
        /\ Cardinality(Arriving(u))' \in Nat
    <2>1. IsFiniteSet(Arriving(u)) /\ IsFiniteSet(Arriving(u))'
      BY ArrivingFinite
    <2>2. /\ IsFiniteSet(Arriving(u) \ {k})
          /\ Cardinality(Arriving(u) \ {k}) = Cardinality(Arriving(u)) - 1
      BY <2>1, FS_RemoveElement
    <2> QED
      BY <2>1, <2>2, FS_Subset, FS_CardinalityType
  <1>2. Open(u) \subseteq Nat /\ reinvites \in Nat /\ reinvites' \in Nat
    BY MaxReInviteAssumption DEF TypeOK, Open, CSeq, MaxCSeq
  <1>3. Spare(u) \in Nat /\ Unplaced \in Nat /\ Spare(u)' \in 0..1 /\ Unplaced' \in Nat
    BY DEF Spare, Unplaced
  <1> SUFFICES ASSUME NEW n \in Open(u)'
               PROVE  n + Spare(u)' + Unplaced' + Cardinality(Arriving(u))' <= 3 + reinvites'
    BY DEF Fits
  <1>4. n \in Open(u) /\ n \in Nat
    BY <1>2
  <1>5. n + Spare(u) + Unplaced + Cardinality(Arriving(u)) <= 3 + reinvites
    BY <1>4 DEF Fits
  <1> HIDE DEF Fits, Spare, Unplaced
  <1> QED
    BY <1>1, <1>2, <1>3, <1>4, <1>5

\* A BYE uses up the one CSeq that is left for it.
LEMMA ByeFits ==
  ASSUME TypeOK, TypeOK', NEW u \in Party, NEW v \in Party, Fits(v), NEW out, SendBye(u, out),
         \A n \in CSeq : M(v, "INVITE", n) \notin out,
         status[u] \notin {"D_INIT", "D_BYEING", "D_CLOSE"},
         UNCHANGED <<remote_cseq, reinvites>>,
         \A n \in CSeq : invite_tc'[v][n] # "none" => invite_tc[v][n] # "none"
  PROVE  Fits(v)'
  <1> USE DEF Become, Send
  <1>1. /\ local_cseq' = [local_cseq EXCEPT ![u] = @ + 1]
        /\ status' = [status EXCEPT ![u] = "D_BYEING"]
        /\ net' = net \cup out \cup {M(Other(u), "BYE", local_cseq[u] + 1)}
    BY DEF SendBye
  <1>2. \A n \in CSeq : M(v, "INVITE", n) \in net' => M(v, "INVITE", n) \in net
    BY <1>1 DEF M
  <1>3. CASE v = u
    <2>1. Arriving(v)' \subseteq Arriving(v)
      BY <1>2 DEF Arriving
    <2>2. Open(v)' \subseteq Open(v) \cup {local_cseq[v] + 1}
      BY <1>1, <1>3 DEF Open, TypeOK
    <2>3. Unplaced' <= Unplaced /\ Spare(v) = 1 /\ Spare(v)' = 0
      BY <1>1, <1>3 DEF Unplaced, Spare, TypeOK
    <2> QED
      BY <2>1, <2>2, <2>3, NextFits
  <1>4. CASE v # u
    <2>0. remote_cseq[v] \in Nat /\ remote_cseq' = remote_cseq
      BY MaxReInviteAssumption DEF TypeOK, CSeq, MaxCSeq
    <2>1. remote_cseq'[v] >= remote_cseq[v]
      BY <2>0
    <2>2. Quiet(v)
      BY <1>1, <1>2, <1>4, <2>1 DEF Quiet, Open, TypeOK, Party
    <2> QED
      BY <2>2, QuietFits
  <1> QED
    BY <1>3, <1>4

\* The first INVITE is paid for as soon as it is placed.
LEMMA PlaceFits ==
  ASSUME TypeOK, TypeOK', Invited, Place, NEW v \in Party, Fits(v)
  PROVE  Fits(v)'
  <1>1. /\ status["caller"] = "D_INIT" /\ status' = [status EXCEPT !["caller"] = "D_INVITING"]
        /\ invite_tc' = [invite_tc EXCEPT !["caller"][1] = "TRYING"]
        /\ net' = net \cup {M("callee", "INVITE", 1)}
        /\ UNCHANGED <<local_cseq, remote_cseq, reinvites>>
    BY Others DEF Place, Invite, Become, Send, cseqs
  <1>2. local_cseq["caller"] = 1
    BY <1>1 DEF Invited, Party
  <1>3. Open(v)' \subseteq Open(v)
    BY <1>1, <1>2 DEF Open, TypeOK, Party
  <1>4. Spare(v)' <= Spare(v) /\ Unplaced = 1 /\ Unplaced' = 0
    BY <1>1 DEF Spare, Unplaced, TypeOK, Party
  <1>5. Arriving(v)' \subseteq Arriving(v) \cup {1}
    BY <1>1 DEF Arriving, M
  <1>6. 1 \in CSeq
    BY MaxReInviteAssumption DEF CSeq, MaxCSeq
  <1>7. reinvites' = reinvites /\ Unplaced' = Unplaced - 1
    BY <1>1, <1>4
  <1> QED
    BY <1>3, <1>4, <1>5, <1>6, <1>7, PaidFits

\* A re-INVITE pays for its own CSeq and for the BYE of the other end.
LEMMA HoldFits ==
  ASSUME TypeOK, TypeOK', Budget, NEW u \in Party, Hold(u), NEW v \in Party
  PROVE  Fits(v)'
  <1> DEFINE k == local_cseq[u] + 1
  <1>1. /\ status[u] = "D_CALL" /\ status' = [status EXCEPT ![u] = "D_ReINVITING"]
        /\ local_cseq' = [local_cseq EXCEPT ![u] = k]
        /\ invite_tc' = [invite_tc EXCEPT ![u][k] = "TRYING"]
        /\ net' = net \cup {M(Other(u), "INVITE", k)}
        /\ reinvites' = reinvites + 1 /\ remote_cseq' = remote_cseq
    BY DEF Hold, Invite, Become, Send
  <1>2. k \in CSeq
    BY <1>1, WithinBudget DEF Spare
  <1>3. Fits(v) /\ Unplaced' <= Unplaced
    BY <1>1 DEF Budget, Unplaced, TypeOK, Party
  <1> HIDE DEF k
  <1>4. CASE v = u
    <2>1. Arriving(v)' \subseteq Arriving(v)
      BY <1>1, <1>4, Others DEF Arriving, M, Party
    <2>2. Open(v)' \subseteq Open(v) \cup {k}
      BY <1>1, <1>4 DEF Open, TypeOK
    <2>3. Spare(v) = 1 /\ Spare(v)' <= 1
      BY <1>1, <1>4 DEF Spare
    <2> QED
      BY <1>1, <1>3, <1>4, <2>1, <2>2, <2>3, NextFits DEF k
  <1>5. CASE v # u
    <2>1. Arriving(v)' \subseteq Arriving(v) \cup {k}
      BY <1>1 DEF Arriving, M
    <2>2. Open(v)' \subseteq Open(v)
      BY <1>1, <1>5 DEF Open, TypeOK
    <2>3. Spare(v)' <= Spare(v)
      BY <1>1, <1>5 DEF Spare, TypeOK
    <2> QED
      BY <1>1, <1>2, <1>3, <2>1, <2>2, <2>3, PaidFits
  <1> QED
    BY <1>4, <1>5

\* An INVITE that is taken pays for the BYE that may now follow.
LEMMA ReInviteFits ==
  ASSUME TypeOK, TypeOK', NEW u \in Party, OnReInvite(u), NEW v \in Party, Fits(v)
  PROVE  Fits(v)'
  <1>1. PICK k \in CSeq :
          /\ M(u, "INVITE", k) \in net /\ k > remote_cseq[u]
          /\ remote_cseq' = [remote_cseq EXCEPT ![u] = k]
          /\ \E s \in {"D_ReACCEPTED", "D_ReINVITED"} : status' = [status EXCEPT ![u] = s]
          /\ net' \subseteq net \cup {M(Other(u), "PROV", k), M(Other(u), "OK", k)}
          /\ status[u] \notin {"D_INIT", "D_WAITING", "D_CLOSE"}
          /\ UNCHANGED <<local_cseq, invite_tc, reinvites>>
    BY DEF OnReInvite, Takes, SendOK, Become, Send
  <1>2. \A n \in CSeq : M(v, "INVITE", n) \in net' => M(v, "INVITE", n) \in net
    BY <1>1 DEF M
  <1>3. Open(v)' \subseteq Open(v) /\ Unplaced' <= Unplaced
    BY <1>1 DEF Open, Unplaced, TypeOK, Party
  <1>4. CASE v = u
    <2>0. remote_cseq[u] \in Nat /\ CSeq \subseteq Nat /\ remote_cseq'[u] = k
      BY <1>1, MaxReInviteAssumption DEF TypeOK, CSeq, MaxCSeq
    <2>1. k \in Arriving(v)
      BY <1>1, <1>4 DEF Arriving
    <2>2. ASSUME NEW n \in Arriving(v)' PROVE n \in Arriving(v) \ {k}
      <3>1. n \in CSeq /\ M(v, "INVITE", n) \in net' /\ n > k
        BY <1>4, <2>0 DEF Arriving, M
      <3>2. n > remote_cseq[u] /\ n # k
        BY <1>1, <2>0, <3>1
      <3> QED
        BY <1>2, <1>4, <3>1, <3>2 DEF Arriving
    <2>3. Arriving(v)' \subseteq Arriving(v) \ {k}
      BY <2>2
    <2> QED
      BY <1>1, <1>3, <2>1, <2>3, TakenFits
  <1>5. CASE v # u
    <2>0. remote_cseq'[v] = remote_cseq[v] /\ remote_cseq[v] \in Nat
      BY <1>1, <1>5, MaxReInviteAssumption DEF TypeOK, CSeq, MaxCSeq
    <2>1. Quiet(v)
      BY <1>1, <1>2, <1>3, <1>5, <2>0 DEF Quiet, Open, TypeOK, Party
    <2> QED
      BY <2>1, QuietFits
  <1> QED
    BY <1>4, <1>5

\* Every CSeq is paid for.
LEMMA BudgetStep == TypeOK /\ TypeOK' /\ IInv /\ Invited /\ Budget /\ [Next]_vars => Budget'
  <1> SUFFICES ASSUME TypeOK, TypeOK', IInv, Invited, Budget, [Next]_vars, NEW v \in Party
               PROVE  Fits(v)'
    BY DEF Budget
  <1>0. Fits(v) /\ (Quiet(v) => Fits(v)')
    BY QuietFits DEF Budget
  <1> USE Others, <1>0, MaxReInviteAssumption
      DEF TypeOK, Quiet, Open, M, Become, Send, Party, CSeq, MaxCSeq, ua, cseqs, transactions
  <1>1. CASE Place
    BY <1>1, PlaceFits
  <1>2. ASSUME NEW u \in Party, Accept(u) PROVE Fits(v)'
    BY <1>2 DEF Accept, SendOK
  <1>3. ASSUME NEW u \in Party, Hold(u) PROVE Fits(v)'
    BY <1>3, HoldFits
  <1>4. ASSUME NEW u \in Party, Hangup(u) PROVE Fits(v)'
    BY <1>4 DEF Hangup
  <1>5. ASSUME NEW u \in Party, HangupRefuse(u) PROVE Fits(v)'
    BY <1>5 DEF HangupRefuse, NextStep, Refuse
  <1>6. ASSUME NEW u \in Party, HangupCancel(u) PROVE Fits(v)'
    BY <1>6 DEF HangupCancel, NextStep
  <1>7. ASSUME NEW u \in Party, HangupBye(u) PROVE Fits(v)'
    <2>1. CASE /\ status[u] = "D_CALL" /\ SendBye(u, {})
               /\ UNCHANGED <<remote_cseq, invite_tc, reinvites>>
      BY <2>1, ByeFits, <1>0
    <2>2. CASE UNCHANGED <<status, local_cseq, remote_cseq, invite_tc, reinvites, net>>
      BY <2>2
    <2> QED
      BY <1>7, <2>1, <2>2 DEF HangupBye
  <1>8. ASSUME NEW u \in Party, HangupIdle(u) PROVE Fits(v)'
    BY <1>8 DEF HangupIdle, NextStep
  <1>9. ASSUME NEW u \in Party, OnInvite(u) PROVE Fits(v)'
    <2>1. status[u] = "D_WAITING" /\ remote_cseq[u] = 0
      BY <1>9 DEF OnInvite, Invited
    <2> QED
      BY <1>9, <2>1 DEF OnInvite, Takes
  <1>10. ASSUME NEW u \in Party, OnInviteRefused(u) PROVE Fits(v)'
    <2>1. status[u] = "D_WAITING" /\ remote_cseq[u] = 0
      BY <1>10 DEF OnInviteRefused, Invited
    <2> QED
      BY <1>10, <2>1 DEF OnInviteRefused, Takes
  <1>11. ASSUME NEW u \in Party, OnReInvite(u) PROVE Fits(v)'
    BY <1>11, ReInviteFits
  <1>12. ASSUME NEW u \in Party, OnAck(u) PROVE Fits(v)'
    BY <1>12 DEF OnAck, Takes
  <1>13. ASSUME NEW u \in Party, OnFailureAck(u) PROVE Fits(v)'
    BY <1>13 DEF OnFailureAck, Takes
  <1>14. ASSUME NEW u \in Party, OnCancel(u) PROVE Fits(v)'
    BY <1>14 DEF OnCancel, Takes, Refuse, GoIdle
  <1>15. ASSUME NEW u \in Party, OnBye(u) PROVE Fits(v)'
    BY <1>15 DEF OnBye, Takes, GoIdle
  <1>16. ASSUME NEW u \in Party, OnProvisional(u) PROVE Fits(v)'
    BY <1>16 DEF OnProvisional, Takes
  <1>17. ASSUME NEW u \in Party, OnSuccess(u) PROVE Fits(v)'
    <2>1. PICK n \in CSeq :
            /\ Takes(u, "OK", n) /\ Answered(u, n) /\ status[u] = "D_INVITING"
            /\ UNCHANGED <<remote_cseq, reinvites>>
            /\ \/ SendBye(u, {M(Other(u), "ACK", n)})
               \/ /\ Become(u, "D_CALL") /\ Send({M(Other(u), "ACK", n)})
                  /\ UNCHANGED local_cseq
      BY <1>17 DEF OnSuccess
    <2>2. CASE SendBye(u, {M(Other(u), "ACK", n)})
      <3>1. \A w \in Party : \A k \in CSeq : M(w, "INVITE", k) # M(Other(u), "ACK", n)
        OBVIOUS
      <3>2. \A w \in Party : \A k \in CSeq : invite_tc'[w][k] # "none" => invite_tc[w][k] # "none"
        BY <2>1 DEF Answered
      <3> QED
        BY <2>1, <2>2, <3>1, <3>2, ByeFits, <1>0
    <2>3. CASE Become(u, "D_CALL") /\ Send({M(Other(u), "ACK", n)}) /\ UNCHANGED local_cseq
      BY <2>1, <2>3 DEF Answered
    <2> QED
      BY <2>1, <2>2, <2>3
  <1>18. ASSUME NEW u \in Party, FinishAccepted(u) PROVE Fits(v)'
    BY <1>18 DEF FinishAccepted
  <1>19. ASSUME NEW u \in Party, OnReInviteSuccess(u) PROVE Fits(v)'
    BY <1>19 DEF OnReInviteSuccess, Takes, Answered, WillShow
  <1>20. ASSUME NEW u \in Party, OnFailure(u) PROVE Fits(v)'
    BY <1>20 DEF OnFailure, Takes, Answered, GoIdle
  <1>21. ASSUME NEW u \in Party, OnUnwanted(u) PROVE Fits(v)'
    BY <1>21 DEF OnUnwanted, Takes, Answered
  <1>22. ASSUME NEW u \in Party, OnByeSuccess(u) PROVE Fits(v)'
    BY <1>22 DEF OnByeSuccess, Takes, ByeDone, GoIdle
  <1>23. ASSUME NEW u \in Party, OnInviteTimeout(u) PROVE Fits(v)'
    BY <1>23 DEF OnInviteTimeout, Answered, GoIdle
  <1>24. ASSUME NEW u \in Party, OnRefusalTimeout(u) PROVE Fits(v)'
    BY <1>24 DEF OnRefusalTimeout
  <1>25. ASSUME NEW u \in Party, OnAckTimeout(u) PROVE Fits(v)'
    BY <1>25 DEF OnAckTimeout
  <1>26. ASSUME NEW u \in Party, OnByeTimeout(u) PROVE Fits(v)'
    BY <1>26 DEF OnByeTimeout, ByeDone
  <1>27. CASE UNCHANGED vars
    BY <1>27 DEF vars
  <1> QED
    BY <1>1, <1>2, <1>3, <1>4, <1>5, <1>6, <1>7, <1>8, <1>9, <1>10, <1>11, <1>12, <1>13, <1>14,
        <1>15, <1>16, <1>17, <1>18, <1>19, <1>20, <1>21, <1>22, <1>23, <1>24, <1>25, <1>26,
        <1>27 DEF Next, User, HangupSteps, Receive, Timeouts

\* The types, the budget and the sequence numbers hold at first.
LEMMA InitTypes == Init => TypeOK /\ Budget /\ Invited
  <1> SUFFICES ASSUME Init PROVE TypeOK /\ Budget /\ Invited
    OBVIOUS
  <1>1. 1 \in CSeq /\ CSeq \subseteq Nat
    BY MaxReInviteAssumption DEF CSeq, MaxCSeq
  <1>2. TypeOK
    <2>1. attached \in [Party -> BOOLEAN]
      BY Zenon DEF Init
    <2> QED
      BY <1>1, <2>1, MaxReInviteAssumption
         DEF Init, TypeOK, Party, Dialog, Early, Confirmed, CallState
  <1>3. Invited
    BY DEF Init, Invited, Party
  <1>4. ASSUME NEW u \in Party PROVE Fits(u)
    <2>1. Arriving(u) = {} /\ Open(u) = {1} /\ reinvites = 0
      BY <1>4 DEF Init, Arriving, Open
    <2>2. Spare(u) = 1 /\ Unplaced = 1
      BY <1>4 DEF Init, Spare, Unplaced, Party
    <2>3. Cardinality(Arriving(u)) = 0
      BY <2>1, FS_EmptySet
    <2> QED
      BY <2>1, <2>2, <2>3 DEF Fits
  <1> QED
    BY <1>2, <1>3, <1>4 DEF Budget

--------------------------------------------------------------------------------
(* What the user is shown. *)

\* What the receive thread is about to show is where the dialog is.
Showing ==
  \A u \in Party : attached[u] /\ hang[u] = 0 /\ to_show[u] # "none" =>
    status[u] \in (Confirmed \ {"D_BYEING"}) \cup {"D_CLOSE"}

ShownInv == ShownIsReal /\ Showing

\* A call that has just gone idle is shown to nobody.
LEMMA GoneIdle ==
  ASSUME TypeOK, NEW u \in Party, GoIdle(u)
  PROVE  /\ attached'[u] => hang[u] # 0
         /\ \A v \in Party \ {u} : attached'[v] = attached[v] /\ call_state'[v] = call_state[v]
  <1>1. CASE attached[u] /\ hang[u] < 5
    BY <1>1 DEF TypeOK, GoIdle, Show
  <1>2. CASE ~(attached[u] /\ hang[u] < 5)
    BY <1>2 DEF TypeOK, GoIdle, ua
  <1> QED
    BY <1>1, <1>2

\* Every handler leaves the user with what is true.
LEMMA ShownStep == TypeOK /\ TypeOK' /\ IInv /\ ShownInv /\ [Next]_vars => ShownInv'
  <1> SUFFICES ASSUME TypeOK, TypeOK', IInv, ShownInv, [Next]_vars PROVE ShownInv'
    OBVIOUS
  <1> USE Others
      DEF TypeOK, ShownInv, ShownIsReal, Showing, Party, Dialog, Early, Confirmed, CallState,
          Become, Show, ua, cseqs, transactions
  <1>1. CASE Place
    BY <1>1 DEF Place
  <1>2. ASSUME NEW u \in Party, Accept(u) PROVE ShownInv'
    BY <1>2 DEF Accept
  <1>3. ASSUME NEW u \in Party, Hold(u) PROVE ShownInv'
    BY <1>3 DEF Hold
  <1>4. ASSUME NEW u \in Party, Hangup(u) PROVE ShownInv'
    BY <1>4 DEF Hangup
  <1>5. ASSUME NEW u \in Party, HangupRefuse(u) PROVE ShownInv'
    BY <1>5 DEF HangupRefuse, NextStep, Refuse
  <1>6. ASSUME NEW u \in Party, HangupCancel(u) PROVE ShownInv'
    BY <1>6 DEF HangupCancel, NextStep
  <1>7. ASSUME NEW u \in Party, HangupBye(u) PROVE ShownInv'
    BY <1>7 DEF HangupBye, NextStep, SendBye
  <1>8. ASSUME NEW u \in Party, HangupIdle(u) PROVE ShownInv'
    BY <1>8 DEF HangupIdle, NextStep
  <1>9. ASSUME NEW u \in Party, OnInvite(u) PROVE ShownInv'
    BY <1>9 DEF OnInvite, Takes
  <1>10. ASSUME NEW u \in Party, OnInviteRefused(u) PROVE ShownInv'
    BY <1>10 DEF OnInviteRefused, Takes
  <1>11. ASSUME NEW u \in Party, OnReInvite(u) PROVE ShownInv'
    <2>1. status[u] \notin {"D_INIT", "D_WAITING", "D_INVITING", "D_INVITED", "D_CLOSE"}
      BY <1>11 DEF OnReInvite, Takes, IInv, Types, Roles, FirstInvite, Progress, InsideDialog
    <2>2. status' \in [Party -> Dialog] /\ to_show[u] = "none" /\ UNCHANGED <<ua, hang, to_show>>
      BY <1>11 DEF OnReInvite, Takes
    <2>3. attached[u] => status'[u] = "D_ReACCEPTED"
      BY <1>11 DEF OnReInvite
    <2>4. \A v \in Party \ {u} : status'[v] = status[v]
      BY <1>11 DEF OnReInvite
    <2> QED
      BY <2>1, <2>2, <2>3, <2>4
  <1>12. ASSUME NEW u \in Party, OnAck(u) PROVE ShownInv'
    BY <1>12 DEF OnAck, Takes
  <1>13. ASSUME NEW u \in Party, OnFailureAck(u) PROVE ShownInv'
    BY <1>13 DEF OnFailureAck, Takes
  <1>14. ASSUME NEW u \in Party, OnCancel(u) PROVE ShownInv'
    BY <1>14, GoneIdle DEF OnCancel, Takes, Refuse
  <1>15. ASSUME NEW u \in Party, OnBye(u) PROVE ShownInv'
    BY <1>15, GoneIdle DEF OnBye, Takes
  <1>16. ASSUME NEW u \in Party, OnProvisional(u) PROVE ShownInv'
    BY <1>16 DEF OnProvisional, Takes
  <1>17. ASSUME NEW u \in Party, OnSuccess(u) PROVE ShownInv'
    BY <1>17 DEF OnSuccess, Takes, SendBye, Answered, WillShow
  <1>18. ASSUME NEW u \in Party, FinishAccepted(u) PROVE ShownInv'
    BY <1>18 DEF FinishAccepted
  <1>19. ASSUME NEW u \in Party, OnReInviteSuccess(u) PROVE ShownInv'
    BY <1>19 DEF OnReInviteSuccess, Takes, Answered, WillShow
  <1>20. ASSUME NEW u \in Party, OnFailure(u) PROVE ShownInv'
    BY <1>20, GoneIdle DEF OnFailure, Takes, Answered
  <1>21. ASSUME NEW u \in Party, OnUnwanted(u) PROVE ShownInv'
    BY <1>21 DEF OnUnwanted, Takes, Answered
  <1>22. ASSUME NEW u \in Party, OnByeSuccess(u) PROVE ShownInv'
    BY <1>22, GoneIdle DEF OnByeSuccess, Takes, ByeDone
  <1>23. ASSUME NEW u \in Party, OnInviteTimeout(u) PROVE ShownInv'
    BY <1>23, GoneIdle DEF OnInviteTimeout, Answered
  <1>24. ASSUME NEW u \in Party, OnRefusalTimeout(u) PROVE ShownInv'
    BY <1>24 DEF OnRefusalTimeout
  <1>25. ASSUME NEW u \in Party, OnAckTimeout(u) PROVE ShownInv'
    BY <1>25 DEF OnAckTimeout
  <1>26. ASSUME NEW u \in Party, OnByeTimeout(u) PROVE ShownInv'
    BY <1>26 DEF OnByeTimeout, ByeDone
  <1>27. CASE UNCHANGED vars
    BY <1>27 DEF vars
  <1> QED
    BY <1>1, <1>2, <1>3, <1>4, <1>5, <1>6, <1>7, <1>8, <1>9, <1>10, <1>11, <1>12, <1>13, <1>14,
        <1>15, <1>16, <1>17, <1>18, <1>19, <1>20, <1>21, <1>22, <1>23, <1>24, <1>25, <1>26,
        <1>27 DEF Next, User, HangupSteps, Receive, Timeouts

--------------------------------------------------------------------------------

\* Every variable keeps its type however many re-INVITEs there are: no request takes a CSeq
\* beyond the bound MaxCSeq of the model, so the bound stops nobody.
THEOREM TypeCorrect == Spec => []TypeOK
  <1>1. Spec => [](TypeOK /\ Budget /\ Invited)
    BY InitTypes, TypeStep, BudgetStep, InvitedStep, Invariance, PTL DEF Spec
  <1> QED
    BY <1>1, PTL

\* What UserAgent shows its user is where the dialog is, however the answers, the re-INVITEs and
\* the timeouts interleave with accepting and hanging up.
THEOREM ShownCorrect == Spec => []ShownIsReal
  <1>1. Init => ShownInv
    BY DEF Init, ShownInv, ShownIsReal, Showing, Party
  <1>2. ShownInv => ShownIsReal
    BY DEF ShownInv
  <1> QED
    BY <1>1, <1>2, ShownStep, TypeCorrect, Invariance, PTL DEF Spec
================================================================================
