------------------------ MODULE InviteTransactionClient ------------------------
(***************************************************************************)
(* org.zoolu.sip.transaction.InviteTransactionClient: the caller's side of *)
(* one INVITE transaction.                                                 *)
(*                                                                         *)
(* Three kinds of threads run this object and nothing locks it: the        *)
(* provider's receive thread (onReceivedMessage), one thread per started   *)
(* Timer (onTimeout) and the threads of the dialog (request, terminate).   *)
(* So a handler is several steps: it looks at the status (Admit..., the    *)
(* Elapse... of a timer), it acts on what it saw though another thread may *)
(* have changed the status since, and what it does after its callback into *)
(* the dialog (Finish...) comes last.  "rx" and "busy" say which threads   *)
(* are in the middle of a handler.                                         *)
(***************************************************************************)
EXTENDS Timer, Sequences, Naturals

CONSTANT Code    \* the status codes the peer may answer with

ASSUME CodeAssumption == Code \subseteq 100..699

VARIABLES
  status,                \* Transaction.status
  retransmission_to,     \* "Timer A"
  transaction_to,        \* "Timer B"
  end_to,                \* "Timer D"
  transaction_listener,  \* whether transaction_listener is non-null
  rx,                    \* the code of the response being handled, or 0
  busy,                  \* the threads that are between two steps of a handler
  listening,             \* whether SipProvider.listeners holds transaction_id
  told,                  \* history: the final callbacks, a code or Timeout each
  net                    \* messages in flight between the two user agents

timers == <<retransmission_to, transaction_to, end_to>>
threads == <<rx, busy>>
vars == <<status, timers, transaction_listener, threads, listening, told, net>>

Provisional == {c \in Code : c >= 100 /\ c < 200}
Success     == {c \in Code : c >= 200 /\ c < 300}
Failure     == {c \in Code : c >= 300 /\ c < 700}
Timeout     == 0

Request(method) == [type |-> "request", method |-> method]
Response(code)  == [type |-> "response", code |-> code]
Message == {Request(m) : m \in {"INVITE", "ACK"}} \cup {Response(c) : c \in Code}

Status == {"IDLE", "TRYING", "PROCEEDING", "COMPLETED", "TERMINATED"}
Live   == {"TRYING", "PROCEEDING", "COMPLETED"}

\* "resend": a retransmission timer has seen TRYING; "answer", "timeout": the callback
\* of a final response, of the transaction timeout, is running.
Thread == {"resend", "answer", "timeout"}

TypeOK ==
  /\ status \in Status
  /\ retransmission_to \in TimerState
  /\ transaction_to \in TimerState
  /\ end_to \in TimerState
  /\ transaction_listener \in BOOLEAN
  /\ rx \in {0} \cup Code
  /\ busy \subseteq Thread
  /\ listening \in BOOLEAN
  /\ told \in Seq({Timeout} \cup Success \cup Failure)
  /\ net \subseteq Message

Init ==
  /\ status = "IDLE"
  /\ retransmission_to = "created"
  /\ transaction_to = "created"
  /\ end_to = "created"
  /\ transaction_listener = TRUE
  /\ rx = 0
  /\ busy = {}
  /\ listening = FALSE
  /\ told = <<>>
  /\ net = {}

--------------------------------------------------------------------------------
(* Pieces of the handlers. *)

Send(out) == net' = net \cup out

\* Takes m off the network and sends out; the network may keep a duplicate of m.
Exchange(m, out) == \E rest \in {net, net \ {m}} : net' = rest \cup out

\* A final callback, made only while there is a listener to call.
Tell(outcome) == told' = IF transaction_listener THEN Append(told, outcome) ELSE told

\* A final response leaves the request's timers running.
MutantKeepTimers == UNCHANGED <<retransmission_to, transaction_to>>

HaltRequestTimers ==
  /\ retransmission_to' = Halted(retransmission_to)
  /\ transaction_to' = Halted(transaction_to)

\* The listener stays in the provider's table.
MutantLeak == UNCHANGED listening

\* SipProvider.removeSipProviderListener(transaction_id).
Deregister == listening' = FALSE

--------------------------------------------------------------------------------
(* The dialog's calls. *)

\* request(): the two timers, the provider's listener, the INVITE.
SendRequest ==
  /\ status = "IDLE"
  /\ status' = "TRYING"
  /\ retransmission_to' = Started(retransmission_to)
  /\ transaction_to' = Started(transaction_to)
  /\ listening' = TRUE
  /\ Send({Request("INVITE")})
  /\ UNCHANGED <<end_to, transaction_listener, threads, told>>

\* terminate(), which a dialog can call once it has sent the request.
Terminate ==
  /\ status \notin {"IDLE", "TERMINATED"}
  /\ HaltRequestTimers
  /\ end_to' = Halted(end_to)
  /\ Deregister
  /\ status' = "TERMINATED"
  /\ transaction_listener' = FALSE
  /\ UNCHANGED <<threads, told, net>>

--------------------------------------------------------------------------------
(* The receive thread. *)

\* The provider hands a response to this transaction.
Receiving(c) == listening /\ rx = 0 /\ Response(c) \in net

\* A response that the status lets through: a 1xx has work to do only in TRYING.
Admit ==
  \E c \in Code :
    /\ Receiving(c)
    /\ status \in (IF c \in Provisional THEN {"TRYING"} ELSE {"TRYING", "PROCEEDING"})
    /\ rx' = c
    /\ Exchange(Response(c), {})
    /\ UNCHANGED <<status, timers, transaction_listener, busy, listening, told>>

\* A response that finds nothing to do: a 1xx in PROCEEDING, a 1xx or 2xx that
\* comes after a 3xx-6xx.
OnIgnored ==
  \E c \in Provisional \cup Success :
    /\ Receiving(c)
    /\ status \in (IF c \in Provisional THEN {"PROCEEDING", "COMPLETED"} ELSE {"COMPLETED"})
    /\ Exchange(Response(c), {})
    /\ UNCHANGED <<status, timers, transaction_listener, threads, listening, told>>

\* A 3xx-6xx again: only the ACK is repeated.
OnFailureAgain ==
  \E c \in Failure :
    /\ Receiving(c)
    /\ status = "COMPLETED"
    /\ Exchange(Response(c), {Request("ACK")})
    /\ UNCHANGED <<status, timers, transaction_listener, threads, listening, told>>

\* A 1xx is reported to the dialog as if it were final.
MutantFinalProvisional ==
  /\ rx \in Provisional
  /\ HaltRequestTimers
  /\ status' = "PROCEEDING"
  /\ Tell(rx)
  /\ rx' = 0
  /\ UNCHANGED <<end_to, transaction_listener, busy, listening, net>>

\* The first 1xx stops both timers and starts none.
OnProvisional ==
  /\ rx \in Provisional
  /\ HaltRequestTimers
  /\ status' = "PROCEEDING"
  /\ rx' = 0
  /\ UNCHANGED <<end_to, transaction_listener, busy, listening, told, net>>

\* A 3xx-6xx that ends the transaction: the ACK, then the callback.
OnFailure ==
  /\ rx \in Failure /\ "answer" \notin busy
  /\ HaltRequestTimers
  /\ status' = "COMPLETED"
  /\ Send({Request("ACK")})
  /\ Tell(rx)
  /\ busy' = busy \cup {"answer"}
  /\ UNCHANGED <<end_to, transaction_listener, rx, listening>>

\* A 2xx: the transaction is over before the dialog hears of it.
OnSuccess ==
  /\ rx \in Success /\ "answer" \notin busy
  /\ HaltRequestTimers
  /\ end_to' = Halted(end_to)
  /\ status' = "TERMINATED"
  /\ Deregister
  /\ Tell(rx)
  /\ busy' = busy \cup {"answer"}
  /\ UNCHANGED <<transaction_listener, rx, net>>

\* "Timer D" is never started.
MutantNoEndTimer ==
  /\ "answer" \in busy
  /\ transaction_listener' = FALSE
  /\ rx' = 0
  /\ busy' = busy \ {"answer"}
  /\ UNCHANGED <<status, timers, listening, told, net>>

\* After the callback: the listener is dropped, and a 3xx-6xx starts "Timer D".
FinishFinal ==
  /\ "answer" \in busy
  /\ transaction_listener' = FALSE
  /\ end_to' = IF rx \in Failure THEN Started(end_to) ELSE end_to
  /\ rx' = 0
  /\ busy' = busy \ {"answer"}
  /\ UNCHANGED <<status, retransmission_to, transaction_to, listening, told, net>>

--------------------------------------------------------------------------------
(* The timer threads. *)

\* The status is not looked at.
MutantRetransmitAlways ==
  /\ CanElapse(retransmission_to)
  /\ retransmission_to' = Expired
  /\ busy' = busy \cup {"resend"}
  /\ UNCHANGED <<status, transaction_to, end_to, transaction_listener, rx, listening, told, net>>

\* The retransmission timer expires and looks at the status.
ElapseRetransmission ==
  /\ CanElapse(retransmission_to)
  /\ retransmission_to' = Expired
  /\ busy' = IF status = "TRYING" THEN busy \cup {"resend"} ELSE busy
  /\ UNCHANGED <<status, transaction_to, end_to, transaction_listener, rx, listening, told, net>>

\* onTimeout(retransmission_to): the INVITE again, under a new Timer.
Retransmit ==
  /\ "resend" \in busy
  /\ busy' = busy \ {"resend"}
  /\ retransmission_to' = Started("created")
  /\ Send({Request("INVITE")})
  /\ UNCHANGED <<status, transaction_to, end_to, transaction_listener, rx, listening, told>>

ElapseTransaction ==
  /\ CanElapse(transaction_to)
  /\ transaction_to' = "firing"
  /\ UNCHANGED <<status, retransmission_to, end_to, transaction_listener, threads, listening,
                 told, net>>

\* onTimeout(transaction_to): nothing here looks at the status.
OnTransactionTimeout ==
  /\ InFlight(transaction_to)
  /\ transaction_to' = Expired
  /\ retransmission_to' = Halted(retransmission_to)
  /\ end_to' = Halted(end_to)
  /\ Deregister
  /\ status' = "TERMINATED"
  /\ Tell(Timeout)
  /\ busy' = busy \cup {"timeout"}
  /\ UNCHANGED <<transaction_listener, rx, net>>

\* After the callback of the transaction timeout.
FinishTimeout ==
  /\ "timeout" \in busy
  /\ busy' = busy \ {"timeout"}
  /\ transaction_listener' = FALSE
  /\ UNCHANGED <<status, timers, rx, listening, told, net>>

ElapseEnd ==
  /\ CanElapse(end_to)
  /\ end_to' = "firing"
  /\ UNCHANGED <<status, retransmission_to, transaction_to, transaction_listener, threads,
                 listening, told, net>>

\* onTimeout(end_to).
OnEndTimeout ==
  /\ InFlight(end_to)
  /\ end_to' = Expired
  /\ HaltRequestTimers
  /\ Deregister
  /\ status' = "TERMINATED"
  /\ transaction_listener' = FALSE
  /\ UNCHANGED <<threads, told, net>>

--------------------------------------------------------------------------------
(* The transaction alone, against a peer and a network that may do anything. *)

Receive == Admit \/ OnIgnored \/ OnFailureAgain \/ OnProvisional \/ OnFailure \/ OnSuccess
             \/ FinishFinal
OnTimeout == ElapseRetransmission \/ Retransmit
               \/ ElapseTransaction \/ OnTransactionTimeout \/ FinishTimeout
               \/ ElapseEnd \/ OnEndTimeout

\* What the user agent's own threads do.
Step == SendRequest \/ Terminate \/ Receive \/ OnTimeout

\* The peer answers, at any time and with any code, once the INVITE has been sent.
PeerAnswers ==
  /\ status # "IDLE"
  /\ \E c \in Code : Send({Response(c)})
  /\ UNCHANGED <<status, timers, transaction_listener, threads, listening, told>>

\* A message is lost, or taken by the peer or by another listener.
Vanish ==
  /\ \E m \in net : net' = net \ {m}
  /\ UNCHANGED <<status, timers, transaction_listener, threads, listening, told>>

Next == Step \/ PeerAnswers \/ Vanish

Spec == Init /\ [][Next]_vars

\* Threads run: a timer that has been started elapses, a thread in a handler finishes.
Fairness ==
  /\ WF_vars(OnProvisional) /\ WF_vars(OnFailure) /\ WF_vars(OnSuccess) /\ WF_vars(FinishFinal)
  /\ WF_vars(ElapseTransaction) /\ WF_vars(OnTransactionTimeout)
  /\ WF_vars(ElapseEnd) /\ WF_vars(OnEndTimeout)

FairSpec == Spec /\ Fairness

--------------------------------------------------------------------------------
(* Properties. *)

\* The provider's table never holds a transaction that is over, and a transaction
\* that runs is in the table unless a timeout or terminate() overtook a response
\* that was being handled (InviteTransactionClient.java:143,175,185,200).
ListedWhileLive ==
  /\ listening => status \in Live
  /\ status = "TRYING" => listening

\* A transaction in the table that is not PROCEEDING is bound to leave it: a timer
\* that terminates it is running, or the receive thread is about to start one.
WatchdogRuns ==
  /\ status = "TRYING" => transaction_to \in {"running", "firing"}
  /\ listening /\ status = "COMPLETED" =>
       \/ "answer" \in busy /\ rx \in Failure /\ end_to = "created"
       \/ end_to \in {"running", "firing"}

\* The dialog hears of one outcome, but for the race of an answer and the transaction
\* timeout: then it is told of both, and only if the timer was past its test when the
\* answer halted it, or the answer past its test when the timeout ran
\* (InviteTransactionClient.java:120,144,178).
OneOutcome ==
  [][told # <<>> /\ told' # told =>
       \/ transaction_to = "zombie" /\ "answer" \in busy
       \/ rx # 0 /\ "timeout" \in busy]_vars

\* Once the INVITE has been answered it is not sent again, save for the one
\* retransmission that was past its test (InviteTransactionClient.java:158).
OneLateInvite ==
  [][status \notin {"IDLE", "TRYING"} =>
       /\ Request("INVITE") \in net' \ net => "resend" \in busy \ busy'
       /\ "resend" \notin busy => "resend" \notin busy']_vars

\* A final answer is decided on when its response passes the test of the status, the timeout when
\* its timer's thread passes the test of "active".
Transaction == INSTANCE TransactionSpec WITH
  Outcome <- {"answer", "timeout"},
  place   <- IF status = "IDLE" THEN "outside" ELSE IF listening THEN "inside" ELSE "left",
  due     <- {o \in {"answer", "timeout"} :
                IF o = "timeout" THEN InFlight(transaction_to)
                ELSE rx \in Success \cup Failure /\ "answer" \notin busy},
  told    <- [i \in 1..Len(told) |-> IF told[i] = Timeout THEN "timeout" ELSE "answer"]

\* Whatever overtakes what: no outcome is decided on once the dialog has been told of one, each
\* kind is told at most once, and the transaction never returns to the provider's table
\* (InviteTransactionClient.java:111,137,171).
Transacts == Transaction!Spec

\* A transaction that is not waiting in PROCEEDING leaves the provider's table.
EventuallyReleased == (listening /\ status # "PROCEEDING") ~> (status = "PROCEEDING" \/ ~listening)
================================================================================
