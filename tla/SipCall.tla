-------------------------------- MODULE SipCall --------------------------------
(***************************************************************************)
(* One call between two phones that both run this program: on each side a  *)
(* UserAgent, its Call and the Call's InviteDialog, over an unreliable     *)
(* network.  org.zoolu.sip.dialog.InviteDialog gives the statuses,         *)
(* org.zoolu.sip.call.Call forwards, com.zhy.dialtong.sipua.sipua.UserAgent*)
(* keeps call_state and the reference "call".                              *)
(*                                                                         *)
(* A message that has been sent can be received any number of times, late  *)
(* and in any order, or never; that also stands for the retransmissions of *)
(* the transactions (InviteTransactionClient, InviteTransactionServer).    *)
(* What is left of a transaction here is which answer or timeout it may    *)
(* still report to the dialog.                                             *)
(*                                                                         *)
(* Two threads run a side: the provider's receive thread and the user's.   *)
(* A method of InviteDialog is one step.  UserAgent.hangup is seven: Call  *)
(* tries refuse, cancel and bye, then changeStatus(IDLE) makes the engine  *)
(* listen again, which hangs up once more and replaces "call".             *)
(***************************************************************************)
EXTENDS Naturals

CONSTANT MaxReInvite     \* bound on the re-INVITEs of the whole call

ASSUME MaxReInviteAssumption == MaxReInvite \in Nat

VARIABLES
  status,      \* InviteDialog.status
  call_state,  \* UserAgent.call_state
  attached,    \* whether UserAgent.call is still this call
  hang,        \* the next step of a hangup of the user's thread, or 0
  to_show,     \* the call state the receive thread, past its tests, is about to show
  local_cseq, remote_cseq,
  invite_tc,   \* per CSeq: what the INVITE client transaction waits for
  invite_ts,   \* per CSeq: status of the INVITE server transaction
  ack_wait,    \* CSeqs whose AckTransactionServer repeats a 200
  ack_ts,      \* CSeq of the AckTransactionServer the dialog refers to
  bye_tc,      \* CSeqs of the BYE transactions that wait for an answer
  reinvites,   \* number of re-INVITEs so far, for the bound
  net          \* every message ever sent

ua == <<call_state, attached>>
cseqs == <<local_cseq, remote_cseq>>
transactions == <<invite_tc, invite_ts, ack_wait, ack_ts, bye_tc>>
vars == <<status, ua, hang, to_show, cseqs, transactions, reinvites, net>>

Party == {"caller", "callee"}
Other(u) == CHOOSE v \in Party : v # u

MaxCSeq == 3 + 2 * MaxReInvite
CSeq == 1..MaxCSeq

Message == [to : Party, type : {"INVITE", "PROV", "OK", "FAIL", "ACK", "NACK", "CANCEL", "BYE",
                                "BYEOK"}, cseq : CSeq]
M(to, type, n) == [to |-> to, type |-> type, cseq |-> n]

Early      == {"D_INIT", "D_WAITING", "D_INVITING", "D_INVITED", "D_REFUSED"}
Confirmed  == {"D_ACCEPTED", "D_CALL", "D_ReINVITING", "D_ReINVITED", "D_ReREFUSED",
               "D_ReACCEPTED", "D_BYEING"}
Dialog     == Early \cup Confirmed \cup {"D_CLOSE"}
CallState  == {"IDLE", "INCOMING", "OUTGOING", "INCALL", "HOLD"}

TypeOK ==
  /\ status \in [Party -> Dialog]
  /\ call_state \in [Party -> CallState]
  /\ attached \in [Party -> BOOLEAN]
  /\ hang \in [Party -> 0..7]
  /\ to_show \in [Party -> {"none", "INCALL", "HOLD"}]
  /\ local_cseq \in [Party -> CSeq]
  /\ remote_cseq \in [Party -> CSeq \cup {0}]
  /\ invite_tc \in [Party -> [CSeq -> {"none", "TRYING", "PROCEEDING"}]]
  /\ invite_ts \in [Party -> [CSeq -> {"none", "PROCEEDING", "COMPLETED"}]]
  /\ ack_wait \in [Party -> SUBSET CSeq]
  /\ ack_ts \in [Party -> CSeq \cup {0}]
  /\ bye_tc \in [Party -> SUBSET CSeq]
  /\ reinvites \in 0..MaxReInvite
  /\ net \subseteq Message

\* The callee waits for a call; the caller's dialog is about to be made.  CSeq 1 is the
\* caller's first INVITE, and any CSeq of the callee's is above 1.
Init ==
  /\ status = [u \in Party |-> IF u = "caller" THEN "D_INIT" ELSE "D_WAITING"]
  /\ call_state = [u \in Party |-> "IDLE"]
  /\ attached = [u \in Party |-> TRUE]
  /\ hang = [u \in Party |-> 0]
  /\ to_show = [u \in Party |-> "none"]
  /\ local_cseq = [u \in Party |-> 1]
  /\ remote_cseq = [u \in Party |-> 0]
  /\ invite_tc = [u \in Party |-> [n \in CSeq |-> "none"]]
  /\ invite_ts = [u \in Party |-> [n \in CSeq |-> "none"]]
  /\ ack_wait = [u \in Party |-> {}]
  /\ ack_ts = [u \in Party |-> 0]
  /\ bye_tc = [u \in Party |-> {}]
  /\ reinvites = 0
  /\ net = {}

--------------------------------------------------------------------------------
(* Pieces of the handlers. *)

Become(u, s) == status' = [status EXCEPT ![u] = s]
Show(u, s) == call_state' = [call_state EXCEPT ![u] = s]
Send(out) == net' = net \cup out

\* The receive thread of u takes a message: it handles one at a time.
Takes(u, type, n) == to_show[u] = "none" /\ M(u, type, n) \in net

\* The engine does not listen again when the call is over.
MutantNoListen(u) ==
  IF attached[u] /\ hang[u] < 5 THEN Show(u, "IDLE") /\ UNCHANGED attached ELSE UNCHANGED ua

\* changeStatus(UA_STATE_IDLE) in a callback for this call: Receiver.onState makes the engine
\* listen with a new call.  A callback that comes while the user's thread does the same changes nothing.
GoIdle(u) ==
  IF attached[u] /\ hang[u] < 5
  THEN Show(u, "IDLE") /\ attached' = [attached EXCEPT ![u] = FALSE]
  ELSE UNCHANGED ua

\* invite(invite) and reInvite(invite): a client transaction is made and sends the INVITE.
Invite(u, n) ==
  /\ invite_tc' = [invite_tc EXCEPT ![u][n] = "TRYING"]
  /\ Send({M(Other(u), "INVITE", n)})

\* respond(resp) with a 3xx-6xx: the refusal of the INVITE the dialog is invited with.
Refuse(u) ==
  /\ Become(u, IF status[u] = "D_INVITED" THEN "D_REFUSED" ELSE "D_ReREFUSED")
  /\ invite_ts' = [invite_ts EXCEPT ![u][remote_cseq[u]] = "COMPLETED"]
  /\ Send({M(Other(u), "FAIL", remote_cseq[u])})

\* respond(resp) with a 2xx to the INVITE n: an AckTransactionServer repeats it.
SendOK(u, n) ==
  /\ invite_ts' = [invite_ts EXCEPT ![u][n] = "none"]
  /\ ack_wait' = [ack_wait EXCEPT ![u] = @ \cup {n}]
  /\ ack_ts' = [ack_ts EXCEPT ![u] = n]
  /\ Send({M(Other(u), "PROV", n), M(Other(u), "OK", n)})

\* bye(): the BYE takes the next CSeq; "out" is what else the step sends.
SendBye(u, out) ==
  LET n == local_cseq[u] + 1
  IN  /\ Become(u, "D_BYEING")
      /\ local_cseq' = [local_cseq EXCEPT ![u] = n]
      /\ bye_tc' = [bye_tc EXCEPT ![u] = @ \cup {n}]
      /\ Send(out \cup {M(Other(u), "BYE", n)})

--------------------------------------------------------------------------------
(* The user's thread. *)

\* UserAgent.call: the INVITE goes out.
Place ==
  /\ status["caller"] = "D_INIT"
  /\ Become("caller", "D_INVITING")
  /\ Show("caller", "OUTGOING")
  /\ Invite("caller", 1)
  /\ UNCHANGED <<attached, hang, to_show, cseqs, invite_ts, ack_wait, ack_ts, bye_tc, reinvites>>

\* UserAgent.accept of a ringing call.
Accept(u) ==
  /\ call_state[u] = "INCOMING" /\ attached[u] /\ hang[u] = 0
  /\ Show(u, "INCALL")
  /\ status[u] = "D_INVITED"
  /\ Become(u, "D_ACCEPTED")
  /\ SendOK(u, remote_cseq[u])
  /\ UNCHANGED <<attached, hang, to_show, cseqs, invite_tc, bye_tc, reinvites>>

\* UserAgent.reInvite: hold, or resume.
Hold(u) ==
  /\ call_state[u] \in {"INCALL", "HOLD"} /\ attached[u] /\ hang[u] = 0
  /\ status[u] = "D_CALL"
  /\ reinvites < MaxReInvite
  /\ reinvites' = reinvites + 1
  /\ Become(u, "D_ReINVITING")
  /\ local_cseq' = [local_cseq EXCEPT ![u] = @ + 1]
  /\ Invite(u, local_cseq[u] + 1)
  /\ UNCHANGED <<ua, hang, to_show, remote_cseq, invite_ts, ack_wait, ack_ts, bye_tc>>

\* UserAgent.hangup begins.
Hangup(u) ==
  /\ call_state[u] # "IDLE" /\ attached[u] /\ hang[u] = 0
  /\ hang' = [hang EXCEPT ![u] = 1]
  /\ UNCHANGED <<status, ua, to_show, cseqs, transactions, reinvites, net>>

NextStep(u) == hang' = [hang EXCEPT ![u] = @ + 1]

\* Call.hangup: refuse(), ...
HangupRefuse(u) ==
  /\ hang[u] \in {1, 5}
  /\ NextStep(u)
  /\ IF status[u] \in {"D_INVITED", "D_ReINVITED"} THEN Refuse(u)
                                                   ELSE UNCHANGED <<status, invite_ts, net>>
  /\ UNCHANGED <<ua, to_show, cseqs, invite_tc, ack_wait, ack_ts, bye_tc, reinvites>>

\* ... cancel(), which leaves the status as it is, ...
HangupCancel(u) ==
  /\ hang[u] \in {2, 6}
  /\ NextStep(u)
  /\ IF status[u] \in {"D_INVITING", "D_ReINVITING"}
     THEN Send({M(Other(u), "CANCEL", local_cseq[u])})
     ELSE UNCHANGED net
  /\ UNCHANGED <<status, ua, to_show, cseqs, transactions, reinvites>>

\* ... bye().  After the second round "call" is replaced.
HangupBye(u) ==
  /\ hang[u] \in {3, 7}
  /\ IF hang[u] = 3
     THEN NextStep(u) /\ UNCHANGED attached
     ELSE hang' = [hang EXCEPT ![u] = 0] /\ attached' = [attached EXCEPT ![u] = FALSE]
  /\ IF status[u] = "D_CALL" THEN SendBye(u, {}) ELSE UNCHANGED <<status, local_cseq, bye_tc, net>>
  /\ UNCHANGED <<call_state, to_show, remote_cseq, invite_tc, invite_ts, ack_wait, ack_ts,
                 reinvites>>

\* changeStatus(UA_STATE_IDLE): the engine listens again, unless it already does.
HangupIdle(u) ==
  /\ hang[u] = 4
  /\ Show(u, "IDLE")
  /\ IF attached[u] THEN NextStep(u) ELSE hang' = [hang EXCEPT ![u] = 0]
  /\ UNCHANGED <<status, attached, to_show, cseqs, transactions, reinvites, net>>

--------------------------------------------------------------------------------
(* The receive thread: requests. *)

\* The first INVITE: 100 and 180, and the user is told.
OnInvite(u) ==
  \E n \in CSeq :
    /\ Takes(u, "INVITE", n)
    /\ status[u] = "D_WAITING"
    /\ Become(u, "D_INVITED")
    /\ Show(u, "INCOMING")
    /\ remote_cseq' = [remote_cseq EXCEPT ![u] = n]
    /\ invite_ts' = [invite_ts EXCEPT ![u][n] = "PROCEEDING"]
    /\ Send({M(Other(u), "PROV", n)})
    /\ UNCHANGED <<attached, hang, to_show, local_cseq, invite_tc, ack_wait, ack_ts, bye_tc,
                   reinvites>>

\* The first INVITE on a slow network (busy) or without a common codec (the hangup that
\* listen() does refuses it).
OnInviteRefused(u) ==
  \E n \in CSeq :
    /\ Takes(u, "INVITE", n)
    /\ status[u] = "D_WAITING"
    /\ Become(u, "D_REFUSED")
    /\ attached' = [attached EXCEPT ![u] = FALSE]
    /\ remote_cseq' = [remote_cseq EXCEPT ![u] = n]
    /\ invite_ts' = [invite_ts EXCEPT ![u][n] = "COMPLETED"]
    /\ Send({M(Other(u), "PROV", n), M(Other(u), "FAIL", n)})
    /\ UNCHANGED <<call_state, hang, to_show, local_cseq, invite_tc, ack_wait, ack_ts, bye_tc,
                   reinvites>>

\* A new INVITE inside the dialog, in whatever status: accepted at once, but only if the
\* user agent still has this call.
OnReInvite(u) ==
  \E n \in CSeq :
    /\ Takes(u, "INVITE", n)
    /\ status[u] \notin {"D_INIT", "D_WAITING", "D_CLOSE"}
    /\ n > remote_cseq[u]
    /\ remote_cseq' = [remote_cseq EXCEPT ![u] = n]
    /\ IF attached[u]
       THEN Become(u, "D_ReACCEPTED") /\ SendOK(u, n)
       ELSE /\ Become(u, "D_ReINVITED")
            /\ invite_ts' = [invite_ts EXCEPT ![u][n] = "PROCEEDING"]
            /\ Send({M(Other(u), "PROV", n)})
            /\ UNCHANGED <<ack_wait, ack_ts>>
    /\ UNCHANGED <<ua, hang, to_show, local_cseq, invite_tc, bye_tc, reinvites>>

\* The ACK is not checked against the status.
MutantAckAnyStatus(u) ==
  /\ \E n \in CSeq : Takes(u, "ACK", n)
  /\ Become(u, "D_CALL")
  /\ ack_wait' = [ack_wait EXCEPT ![u] = @ \ {ack_ts[u]}]
  /\ UNCHANGED <<ua, hang, to_show, cseqs, invite_tc, invite_ts, ack_ts, bye_tc, reinvites, net>>

\* The ACK of a 2xx; which one is not looked at.
OnAck(u) ==
  /\ \E n \in CSeq : Takes(u, "ACK", n)
  /\ status[u] \in {"D_ACCEPTED", "D_ReACCEPTED"}
  /\ Become(u, "D_CALL")
  /\ ack_wait' = [ack_wait EXCEPT ![u] = @ \ {ack_ts[u]}]
  /\ UNCHANGED <<ua, hang, to_show, cseqs, invite_tc, invite_ts, ack_ts, bye_tc, reinvites, net>>

\* The ACK of a refusal goes to its transaction, which tells the dialog.
OnFailureAck(u) ==
  \E n \in CSeq :
    /\ Takes(u, "NACK", n) /\ invite_ts[u][n] = "COMPLETED"
    /\ invite_ts' = [invite_ts EXCEPT ![u][n] = "none"]
    /\ CASE status[u] = "D_REFUSED"   -> Become(u, "D_CLOSE")
         [] status[u] = "D_ReREFUSED" -> Become(u, "D_CALL")
         [] OTHER                     -> UNCHANGED status
    /\ UNCHANGED <<ua, hang, to_show, cseqs, invite_tc, ack_wait, ack_ts, bye_tc, reinvites, net>>

\* A CANCEL is taken until the ACK comes.
MutantCancelAccepted(u) ==
  /\ \E n \in CSeq : Takes(u, "CANCEL", n) /\ status[u] \in {"D_INVITED", "D_ACCEPTED"}
  /\ Refuse(u)
  /\ GoIdle(u)
  /\ UNCHANGED <<hang, to_show, cseqs, invite_tc, ack_wait, ack_ts, bye_tc, reinvites>>

\* A CANCEL: 487 for the INVITE, and the user is told.  The CANCEL of the first INVITE has
\* no tag and finds the dialog only while that INVITE is unanswered.
OnCancel(u) ==
  /\ \E n \in CSeq : Takes(u, "CANCEL", n) /\ status[u] = (IF n = 1 THEN "D_INVITED" ELSE "D_ReINVITED")
  /\ Refuse(u)
  /\ GoIdle(u)
  /\ UNCHANGED <<hang, to_show, cseqs, invite_tc, ack_wait, ack_ts, bye_tc, reinvites>>

\* A BYE in D_CALL or D_BYEING is answered and closes the dialog; in another status it is
\* not even answered.
OnBye(u) ==
  \E n \in CSeq :
    /\ Takes(u, "BYE", n) /\ n > remote_cseq[u]
    /\ status[u] \in {"D_CALL", "D_BYEING"}
    /\ Become(u, "D_CLOSE")
    /\ Send({M(Other(u), "BYEOK", n)})
    /\ GoIdle(u)
    /\ UNCHANGED <<hang, to_show, cseqs, transactions, reinvites>>

--------------------------------------------------------------------------------
(* The receive thread: responses, and the timeouts of the transactions. *)

OnProvisional(u) ==
  \E n \in CSeq :
    /\ Takes(u, "PROV", n) /\ invite_tc[u][n] = "TRYING"
    /\ invite_tc' = [invite_tc EXCEPT ![u][n] = "PROCEEDING"]
    /\ UNCHANGED <<status, ua, hang, to_show, cseqs, invite_ts, ack_wait, ack_ts, bye_tc,
                   reinvites, net>>

Answered(u, n) ==
  /\ invite_tc[u][n] # "none"
  /\ invite_tc' = [invite_tc EXCEPT ![u][n] = "none"]

\* The callback of a 2xx gets past its test that this is the user agent's call.
WillShow(u, s) == to_show' = IF attached[u] THEN [to_show EXCEPT ![u] = s] ELSE to_show

\* A 2xx to the first INVITE: D_CALL and the ACK; then onCallAccepted makes its tests.
OnSuccess(u) ==
  \E n \in CSeq :
    /\ Takes(u, "OK", n) /\ Answered(u, n)
    /\ status[u] = "D_INVITING"
    /\ IF attached[u] /\ call_state[u] # "OUTGOING"
       THEN /\ SendBye(u, {M(Other(u), "ACK", n)})        \* onCallAccepted hangs up
            /\ UNCHANGED to_show
       ELSE /\ Become(u, "D_CALL")
            /\ Send({M(Other(u), "ACK", n)})
            /\ WillShow(u, "INCALL")
            /\ UNCHANGED <<local_cseq, bye_tc>>
    /\ UNCHANGED <<ua, hang, remote_cseq, invite_ts, ack_wait, ack_ts, reinvites>>

\* The dialog's two sequence numbers are mixed up when the 2xx updates them.
MutantWrongCSeq(u) ==
  \E n \in CSeq :
    /\ Takes(u, "OK", n) /\ Answered(u, n)
    /\ status[u] = "D_ReINVITING"
    /\ Become(u, "D_CALL")
    /\ local_cseq' = [local_cseq EXCEPT ![u] = remote_cseq[u]]
    /\ Send({M(Other(u), "ACK", n)})
    /\ WillShow(u, IF call_state[u] = "HOLD" THEN "INCALL" ELSE "HOLD")
    /\ UNCHANGED <<ua, hang, remote_cseq, invite_ts, ack_wait, ack_ts, bye_tc, reinvites>>

\* A 2xx to a re-INVITE: D_CALL and the ACK; the user agent goes on hold or off hold.
OnReInviteSuccess(u) ==
  \E n \in CSeq :
    /\ Takes(u, "OK", n) /\ Answered(u, n)
    /\ status[u] = "D_ReINVITING"
    /\ Become(u, "D_CALL")
    /\ local_cseq' = [local_cseq EXCEPT ![u] = n]
    /\ Send({M(Other(u), "ACK", n)})
    /\ WillShow(u, IF call_state[u] = "HOLD" THEN "INCALL" ELSE "HOLD")
    /\ UNCHANGED <<ua, hang, remote_cseq, invite_ts, ack_wait, ack_ts, bye_tc, reinvites>>

\* The end of onCallAccepted and onCallReInviteAccepted: changeStatus waits for a hangup
\* that is inside its own changeStatus.
FinishAccepted(u) ==
  /\ to_show[u] # "none" /\ hang[u] < 5
  /\ Show(u, to_show[u])
  /\ to_show' = [to_show EXCEPT ![u] = "none"]
  /\ UNCHANGED <<status, attached, hang, cseqs, transactions, reinvites, net>>

\* A 3xx-6xx to an INVITE the dialog waits for.
OnFailure(u) ==
  \E n \in CSeq :
    /\ Takes(u, "FAIL", n) /\ Answered(u, n)
    /\ Send({M(Other(u), "NACK", n)})
    /\ \/ /\ status[u] = "D_INVITING"
          /\ Become(u, "D_CLOSE")
          /\ GoIdle(u)
       \/ /\ status[u] = "D_ReINVITING"
          /\ Become(u, "D_CALL")
          /\ UNCHANGED ua
    /\ UNCHANGED <<hang, to_show, cseqs, invite_ts, ack_wait, ack_ts, bye_tc, reinvites>>

\* A final answer to an INVITE the dialog no longer waits for.
OnUnwanted(u) ==
  \E n \in CSeq :
    /\ status[u] \notin {"D_INVITING", "D_ReINVITING"}
    /\ Answered(u, n)
    /\ \/ Takes(u, "OK", n) /\ UNCHANGED net
       \/ Takes(u, "FAIL", n) /\ Send({M(Other(u), "NACK", n)})
    /\ UNCHANGED <<status, ua, hang, to_show, cseqs, invite_ts, ack_wait, ack_ts, bye_tc,
                   reinvites>>

\* No answer at all to an INVITE: a CANCEL goes out and the dialog is closed, the call of
\* a re-INVITE too.
OnInviteTimeout(u) ==
  \E n \in CSeq :
    /\ invite_tc[u][n] = "TRYING" /\ Answered(u, n)
    /\ IF status[u] \in {"D_INVITING", "D_ReINVITING"}
       THEN /\ Become(u, "D_CLOSE")
            /\ Send({M(Other(u), "CANCEL", local_cseq[u])})
            /\ GoIdle(u)
       ELSE UNCHANGED <<status, net, ua>>
    /\ UNCHANGED <<hang, to_show, cseqs, invite_ts, ack_wait, ack_ts, bye_tc, reinvites>>

\* No ACK of a refusal: the transaction ends without telling anyone.
OnRefusalTimeout(u) ==
  \E n \in CSeq :
    /\ invite_ts[u][n] = "COMPLETED"
    /\ invite_ts' = [invite_ts EXCEPT ![u][n] = "none"]
    /\ UNCHANGED <<status, ua, hang, to_show, cseqs, invite_tc, ack_wait, ack_ts, bye_tc,
                   reinvites, net>>

\* No ACK of a 2xx: the dialog is closed, the user agent is not told.
OnAckTimeout(u) ==
  \E n \in ack_wait[u] :
    /\ ack_wait' = [ack_wait EXCEPT ![u] = @ \ {n}]
    /\ IF status[u] \in {"D_ACCEPTED", "D_ReACCEPTED", "D_REFUSED", "D_ReREFUSED"}
       THEN Become(u, "D_CLOSE")
       ELSE UNCHANGED status
    /\ UNCHANGED <<ua, hang, to_show, cseqs, invite_tc, invite_ts, ack_ts, bye_tc, reinvites, net>>

\* The end of the BYE leaves the dialog as it is.
MutantByeForgotten(u, n) ==
  /\ n \in bye_tc[u]
  /\ bye_tc' = [bye_tc EXCEPT ![u] = @ \ {n}]
  /\ UNCHANGED status

\* The BYE is over, answered or not: the dialog that still waits for it is closed.
ByeDone(u, n) ==
  /\ n \in bye_tc[u]
  /\ bye_tc' = [bye_tc EXCEPT ![u] = @ \ {n}]
  /\ IF status[u] = "D_BYEING" THEN Become(u, "D_CLOSE") ELSE UNCHANGED status

\* The answer to a BYE; the user agent is told if the dialog waits for it.
OnByeSuccess(u) ==
  \E n \in CSeq :
    /\ Takes(u, "BYEOK", n) /\ ByeDone(u, n)
    /\ IF status[u] = "D_BYEING" THEN GoIdle(u) ELSE UNCHANGED ua
    /\ UNCHANGED <<hang, to_show, cseqs, invite_tc, invite_ts, ack_wait, ack_ts, reinvites, net>>

\* No answer to a BYE.
OnByeTimeout(u) ==
  \E n \in CSeq :
    /\ ByeDone(u, n)
    /\ UNCHANGED <<ua, hang, to_show, cseqs, invite_tc, invite_ts, ack_wait, ack_ts, reinvites,
                   net>>

--------------------------------------------------------------------------------

HangupSteps(u) == HangupRefuse(u) \/ HangupCancel(u) \/ HangupBye(u) \/ HangupIdle(u)
User(u) == Accept(u) \/ Hold(u) \/ Hangup(u) \/ HangupSteps(u)
Receive(u) == OnInvite(u) \/ OnInviteRefused(u) \/ OnReInvite(u) \/ OnAck(u) \/ OnFailureAck(u)
                \/ OnCancel(u) \/ OnBye(u) \/ OnProvisional(u) \/ OnSuccess(u)
                \/ FinishAccepted(u) \/ OnReInviteSuccess(u) \/ OnFailure(u) \/ OnUnwanted(u)
                \/ OnByeSuccess(u)
Timeouts(u) == OnInviteTimeout(u) \/ OnRefusalTimeout(u) \/ OnAckTimeout(u) \/ OnByeTimeout(u)

Next == Place \/ \E u \in Party : User(u) \/ Receive(u) \/ Timeouts(u)

Spec == Init /\ [][Next]_vars

\* A hangup runs to its end, and a transaction timer that has been started expires.
Fairness == \A u \in Party : WF_vars(HangupSteps(u)) /\ WF_vars(OnByeTimeout(u))

FairSpec == Spec /\ Fairness

--------------------------------------------------------------------------------
(* Properties. *)

\* The call as its users may think of it.
CallPhase(s) ==
  CASE s \in {"D_INIT", "D_WAITING"}      -> "none"
    [] s \in {"D_INVITING", "D_INVITED"}  -> "asking"
    [] s = "D_ACCEPTED"                   -> "accepted"
    [] s = "D_REFUSED"                    -> "refused"
    [] s = "D_CLOSE"                      -> "down"
    [] OTHER                              -> "up"

Abstract == INSTANCE CallSpec WITH
  phase    <- [u \in Party |-> CallPhase(status[u])],
  accepted <- M("caller", "OK", 1) \in net,
  wasUp    <- M("callee", "ACK", 1) \in net

\* Lost, repeated, late and crossing messages, re-INVITEs and hangups at any moment: no
\* call comes up that the callee has not accepted, the callee's does not come up before
\* the caller's, and what is down stays down.
CallsAgree == Abstract!Spec

\* What the user is shown is where the dialog is, unless the user's thread is hanging up:
\* the one exception is the call whose ACK never came, which the user agent keeps
\* (Call.onDlgClose is empty, Call.java:522).
ShownIsReal ==
  \A u \in Party : attached[u] /\ hang[u] = 0 =>
    CASE call_state[u] = "IDLE"     -> status[u] \in {"D_INIT", "D_WAITING"}
      [] call_state[u] = "INCOMING" -> status[u] = "D_INVITED"
      [] call_state[u] = "OUTGOING" -> status[u] = "D_INVITING" \/ to_show[u] = "INCALL"
      [] OTHER                      -> status[u] \in Confirmed \ {"D_BYEING"} \/ status[u] = "D_CLOSE"

\* An INVITE gets one kind of final answer, however accept, hangup, CANCEL and re-INVITE
\* interleave: never both a 2xx and a refusal (InviteDialog.java:377).
OneFinalAnswer ==
  \A u \in Party : \A n \in CSeq : ~({M(u, "OK", n), M(u, "FAIL", n)} \subseteq net)

\* Hanging up a call that is up closes the dialog, whatever happens to the BYE, unless a
\* re-INVITE of the other end takes the dialog out of D_CALL or D_BYEING first
\* (InviteDialog.java:529,608,815).
HungUpCloses ==
  \A u \in Party : (hang[u] = 1 /\ status[u] = "D_CALL")
                      ~> (status[u] \in {"D_CLOSE", "D_ReINVITED", "D_ReACCEPTED"})

\* UserAgent.java:361, of hangup(): "Closes an ongoing, incoming, or pending call": no call
\* that has been let go is up.
LetGoIsDown == \A u \in Party : ~attached[u] /\ hang[u] = 0 => status[u] # "D_CALL"
================================================================================
