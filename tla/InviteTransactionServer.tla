------------------------ MODULE InviteTransactionServer ------------------------
(***************************************************************************)
(* org.zoolu.sip.transaction.InviteTransactionServer: the callee's side of *)
(* one INVITE transaction.                                                 *)
(*                                                                         *)
(* InviteDialog answers 3xx-6xx through respondWith and leaves the         *)
(* retransmissions to this transaction; it answers 2xx by terminating this *)
(* transaction and handing the response to an AckTransactionServer, which  *)
(* repeats it until the dialog receives the ACK (InviteDialog.java:401).   *)
(*                                                                         *)
(* The object waits for any INVITE under the key "INVITE" of               *)
(* SipProvider.listeners; the INVITE it takes gives it its own key.        *)
(*                                                                         *)
(* As in InviteTransactionClient nothing is locked: a thread may act on a  *)
(* status that has changed since it looked ("rx" and "busy" say which      *)
(* threads are in the middle of a handler).  respondWith and terminate,    *)
(* which the dialog calls, are one step each.                              *)
(***************************************************************************)
EXTENDS Timer, Naturals, Sequences

CONSTANT Code    \* the status codes the user agent may answer with

ASSUME CodeAssumption == Code \subseteq 100..699

VARIABLES
  status,                \* Transaction.status
  response,              \* last response message, or 0
  transaction_id,        \* the key this object believes it is listed under
  keys,                  \* the keys of SipProvider.listeners that hold this object
  retransmission_to,     \* "Timer G"
  end_to,                \* "Timer H"
  clearing_to,           \* "Timer I"
  transaction_listener,  \* whether transaction_listener is non-null
  rx,                    \* the request being handled, or "none"
  busy,                  \* the threads that are between two steps of a handler
  acked,                 \* history: the dialog was told of the ACK of its refusal
  net                    \* messages in flight between the two user agents

timers == <<retransmission_to, end_to, clearing_to>>
threads == <<rx, busy>>
vars == <<status, response, transaction_id, keys, timers, transaction_listener, threads, acked,
          net>>

Provisional == {c \in Code : c >= 100 /\ c < 200}
Success     == {c \in Code : c >= 200 /\ c < 300}
Failure     == {c \in Code : c >= 300 /\ c < 700}
Trying      == 100     \* the automatic provisional response

Req(method) == [type |-> "request", method |-> method]
Resp(code)  == [type |-> "response", code |-> code]
Message == {Req(m) : m \in {"INVITE", "OPTIONS", "ACK"}} \cup {Resp(c) : c \in Code \cup {Trying}}

Status == {"IDLE", "WAITING", "TRYING", "PROCEEDING", "COMPLETED", "CONFIRMED", "TERMINATED"}
Own    == "own"        \* the key made from the INVITE's Call-ID, CSeq and branch
Key    == {"INVITE", "OPTIONS", Own}

\* "trying": the 100 is being sent; "acked": the callback of the ACK is running; the
\* others: a timer's thread has seen the status in which it acts.
Thread == {"trying", "acked", "resend", "end", "clearing"}

TypeOK ==
  /\ status \in Status
  /\ response \in {0, Trying} \cup Code
  /\ transaction_id \in {"INVITE", Own}
  /\ keys \subseteq Key
  /\ retransmission_to \in TimerState
  /\ end_to \in TimerState
  /\ clearing_to \in TimerState
  /\ transaction_listener \in BOOLEAN
  /\ rx \in {"none", "INVITE", "ACK"}
  /\ busy \subseteq Thread
  /\ acked \in BOOLEAN
  /\ net \subseteq Message

Init ==
  /\ status = "IDLE"
  /\ response = 0
  /\ transaction_id = "INVITE"
  /\ keys = {}
  /\ retransmission_to = "created"
  /\ end_to = "created"
  /\ clearing_to = "created"
  /\ transaction_listener = TRUE
  /\ rx = "none"
  /\ busy = {}
  /\ acked = FALSE
  /\ net = {}

--------------------------------------------------------------------------------

Send(out) == net' = net \cup out

\* Takes m off the network and sends out; the network may keep a duplicate of m.
Exchange(m, out) == \E rest \in {net, net \ {m}} : net' = rest \cup out

--------------------------------------------------------------------------------
(* The dialog's calls. *)

\* listen(): waits for an INVITE, and answers OPTIONS from now on.
Listen ==
  /\ status = "IDLE"
  /\ status' = "WAITING"
  /\ keys' = {"INVITE", "OPTIONS"}
  /\ UNCHANGED <<response, transaction_id, timers, transaction_listener, threads, acked, net>>

\* respondWith(c): the dialog, told of the INVITE, answers it for the first time.
RespondWith(c) ==
  /\ status = "PROCEEDING" /\ transaction_listener
  /\ response' = c
  /\ Send({Resp(c)})
  /\ \/ /\ c \in Provisional
        /\ UNCHANGED <<status, keys, retransmission_to, end_to, transaction_listener>>
     \/ /\ c \in Success
        /\ status' = "TERMINATED"
        /\ keys' = keys \ {transaction_id}
        /\ transaction_listener' = FALSE
        /\ UNCHANGED <<retransmission_to, end_to>>
     \/ /\ c \in Failure
        /\ status' = "COMPLETED"
        /\ retransmission_to' = Started(retransmission_to)
        /\ end_to' = Started(end_to)
        /\ UNCHANGED <<keys, transaction_listener>>
  /\ UNCHANGED <<transaction_id, clearing_to, threads, acked>>

\* terminate() gives back the listening key whatever the status.
MutantKeyToRemove == "INVITE"

\* The key terminate() gives back.
KeyToRemove == IF status = "TRYING" THEN "INVITE" ELSE transaction_id

HaltAnswerTimers ==
  /\ retransmission_to' = Halted(retransmission_to)
  /\ end_to' = Halted(end_to)

\* terminate(): of a waiting object (the dialog's cancel) or of one the dialog accepts.
Terminate ==
  /\ status \in {"WAITING", "TRYING", "PROCEEDING"}
  /\ HaltAnswerTimers
  /\ clearing_to' = Halted(clearing_to)
  /\ keys' = keys \ {KeyToRemove}
  /\ status' = "TERMINATED"
  /\ transaction_listener' = FALSE
  /\ UNCHANGED <<response, transaction_id, threads, acked, net>>

--------------------------------------------------------------------------------
(* The receive thread. *)

\* A request the status lets through: the INVITE waited for, the ACK of a refusal.
Admit ==
  /\ rx = "none"
  /\ \/ /\ "INVITE" \in keys /\ status = "WAITING"
        /\ rx' = "INVITE"
     \/ /\ Own \in keys /\ status = "COMPLETED"
        /\ rx' = "ACK"
  /\ Req(rx') \in net
  /\ Exchange(Req(rx'), {})
  /\ UNCHANGED <<status, response, transaction_id, keys, timers, transaction_listener, busy,
                 acked>>

\* The INVITE is taken without recording the response that is being sent.
MutantForgetResponse ==
  /\ rx = "INVITE" /\ "trying" \notin busy
  /\ transaction_id' = Own
  /\ keys' = (keys \cup {Own}) \ {"INVITE"}
  /\ status' = "TRYING"
  /\ busy' = busy \cup {"trying"}
  /\ UNCHANGED <<response, timers, transaction_listener, rx, acked, net>>

\* The INVITE: the object swaps keys and begins to send 100.
OnInvite ==
  /\ rx = "INVITE" /\ "trying" \notin busy
  /\ transaction_id' = Own
  /\ keys' = (keys \cup {Own}) \ {"INVITE"}
  /\ status' = "TRYING"
  /\ response' = Trying
  /\ busy' = busy \cup {"trying"}
  /\ UNCHANGED <<timers, transaction_listener, rx, acked, net>>

\* The 100 has been sent; the dialog is told of the INVITE.
FinishInvite ==
  /\ "trying" \in busy
  /\ status' = IF status = "TRYING" THEN "PROCEEDING" ELSE status
  /\ Send({Resp(response)})
  /\ rx' = "none"
  /\ busy' = busy \ {"trying"}
  /\ UNCHANGED <<response, transaction_id, keys, timers, transaction_listener, acked>>

\* The same INVITE again: the last response is repeated.
OnInviteAgain ==
  /\ rx = "none" /\ Own \in keys
  /\ status \in {"PROCEEDING", "COMPLETED"}
  /\ Req("INVITE") \in net
  /\ Exchange(Req("INVITE"), {Resp(response)})
  /\ UNCHANGED <<status, response, transaction_id, keys, timers, transaction_listener, threads,
                 acked>>

\* OPTIONS is answered with 200 whatever the status of the INVITE.
OnOptions ==
  /\ rx = "none" /\ "OPTIONS" \in keys
  /\ Req("OPTIONS") \in net
  /\ Exchange(Req("OPTIONS"), {})
  /\ UNCHANGED <<status, response, transaction_id, keys, timers, transaction_listener, threads,
                 acked>>

\* The status stays as it is.
MutantStaysCompleted ==
  /\ rx = "ACK" /\ "acked" \notin busy
  /\ HaltAnswerTimers
  /\ acked' = transaction_listener
  /\ busy' = busy \cup {"acked"}
  /\ UNCHANGED <<status, response, transaction_id, keys, clearing_to, transaction_listener, rx,
                 net>>

\* The ACK of a refusal, up to the callback.
OnAck ==
  /\ rx = "ACK" /\ "acked" \notin busy
  /\ HaltAnswerTimers
  /\ status' = "CONFIRMED"
  /\ acked' = transaction_listener
  /\ busy' = busy \cup {"acked"}
  /\ UNCHANGED <<response, transaction_id, keys, clearing_to, transaction_listener, rx, net>>

\* "Timer I" is never started.
MutantNoClearing ==
  /\ "acked" \in busy
  /\ rx' = "none"
  /\ busy' = busy \ {"acked"}
  /\ UNCHANGED <<status, response, transaction_id, keys, timers, transaction_listener, acked, net>>

\* After the callback: "Timer I".
FinishAck ==
  /\ "acked" \in busy
  /\ clearing_to' = Started(clearing_to)
  /\ rx' = "none"
  /\ busy' = busy \ {"acked"}
  /\ UNCHANGED <<status, response, transaction_id, keys, retransmission_to, end_to,
                 transaction_listener, acked, net>>

\* A request this transaction has no use for in its status.
OnIgnored ==
  /\ rx = "none" /\ Own \in keys
  /\ \E m \in {"INVITE", "ACK"} :
       /\ status \in {"CONFIRMED", "TERMINATED"} \/ (m = "ACK" /\ status = "PROCEEDING")
       /\ Req(m) \in net /\ Exchange(Req(m), {})
  /\ UNCHANGED <<status, response, transaction_id, keys, timers, transaction_listener, threads,
                 acked>>

--------------------------------------------------------------------------------
(* The timer threads.  Each expires, looks at the status and only then acts. *)

Saw(thread, wanted) == busy' = IF status = wanted THEN busy \cup {thread} ELSE busy

\* The thread does not look at the status.
MutantRetransmitAlways ==
  /\ CanElapse(retransmission_to)
  /\ retransmission_to' = Expired
  /\ busy' = busy \cup {"resend"}
  /\ UNCHANGED <<status, response, transaction_id, keys, end_to, clearing_to,
                 transaction_listener, rx, acked, net>>

ElapseRetransmission ==
  /\ CanElapse(retransmission_to)
  /\ retransmission_to' = Expired
  /\ Saw("resend", "COMPLETED")
  /\ UNCHANGED <<status, response, transaction_id, keys, end_to, clearing_to,
                 transaction_listener, rx, acked, net>>

ElapseEnd ==
  /\ CanElapse(end_to)
  /\ end_to' = Expired
  /\ Saw("end", "COMPLETED")
  /\ UNCHANGED <<status, response, transaction_id, keys, retransmission_to, clearing_to,
                 transaction_listener, rx, acked, net>>

ElapseClearing ==
  /\ CanElapse(clearing_to)
  /\ clearing_to' = Expired
  /\ Saw("clearing", "CONFIRMED")
  /\ UNCHANGED <<status, response, transaction_id, keys, retransmission_to, end_to,
                 transaction_listener, rx, acked, net>>

\* onTimeout(retransmission_to): the response again, under a new Timer.
Retransmit ==
  /\ "resend" \in busy
  /\ busy' = busy \ {"resend"}
  /\ retransmission_to' = Started("created")
  /\ Send({Resp(response)})
  /\ UNCHANGED <<status, response, transaction_id, keys, end_to, clearing_to,
                 transaction_listener, rx, acked>>

\* onTimeout(end_to): no ACK came; the dialog is not told.
OnEndTimeout ==
  /\ "end" \in busy
  /\ busy' = busy \ {"end"}
  /\ retransmission_to' = Halted(retransmission_to)
  /\ keys' = keys \ {transaction_id}
  /\ status' = "TERMINATED"
  /\ transaction_listener' = FALSE
  /\ UNCHANGED <<response, transaction_id, end_to, clearing_to, rx, acked, net>>

\* onTimeout(clearing_to).
OnClearingTimeout ==
  /\ "clearing" \in busy
  /\ busy' = busy \ {"clearing"}
  /\ keys' = keys \ {transaction_id}
  /\ status' = "TERMINATED"
  /\ transaction_listener' = FALSE
  /\ UNCHANGED <<response, transaction_id, timers, rx, acked, net>>

--------------------------------------------------------------------------------
(* The transaction alone, against a peer and a network that may do anything. *)

Receive == Admit \/ OnInvite \/ FinishInvite \/ OnInviteAgain \/ OnOptions \/ OnAck \/ FinishAck
             \/ OnIgnored
OnTimeout == ElapseRetransmission \/ Retransmit \/ ElapseEnd \/ OnEndTimeout
               \/ ElapseClearing \/ OnClearingTimeout
Answer == \E c \in Code : RespondWith(c)

\* What the user agent's own threads do.
Step == Listen \/ Receive \/ Answer \/ Terminate \/ OnTimeout

\* The peer sends any request of this transaction, at any time.
PeerSends ==
  /\ \E m \in {"INVITE", "OPTIONS", "ACK"} : Send({Req(m)})
  /\ UNCHANGED <<status, response, transaction_id, keys, timers, transaction_listener, threads,
                 acked>>

\* A message is lost, or taken by the peer or by another listener.
Vanish ==
  /\ \E m \in net : net' = net \ {m}
  /\ UNCHANGED <<status, response, transaction_id, keys, timers, transaction_listener, threads,
                 acked>>

Next == Step \/ PeerSends \/ Vanish

Spec == Init /\ [][Next]_vars

\* Threads run: a timer that has been started elapses, a thread in a handler finishes.
Fairness ==
  /\ WF_vars(OnAck) /\ WF_vars(FinishAck)
  /\ WF_vars(ElapseEnd) /\ WF_vars(OnEndTimeout)
  /\ WF_vars(ElapseClearing) /\ WF_vars(OnClearingTimeout)

FairSpec == Spec /\ Fairness

--------------------------------------------------------------------------------
(* Properties. *)

\* The listening key belongs to a transaction that waits, and a transaction in the
\* table under its own key is live, save for the terminate() that lands while the 100
\* is being sent: it gives back the wrong key (InviteTransactionServer.java:284).
ListedWhileLive ==
  /\ "INVITE" \in keys => status = "WAITING"
  /\ status \in {"TRYING", "PROCEEDING"} => Own \in keys
  /\ Own \in keys => status # "TERMINATED" \/ response = Trying

\* A transaction in the table that has refused the INVITE is bound to leave it: a timer
\* that removes it is running, or a thread is about to remove it or to start that timer.
WatchdogRuns ==
  Own \in keys =>
    /\ status = "COMPLETED" => end_to = "running" \/ "end" \in busy
    /\ status = "CONFIRMED" => clearing_to = "running" \/ {"acked", "end", "clearing"} \cap busy # {}

\* Once a refusal is acknowledged or given up no timer repeats it, save for the one
\* retransmission that was past its test (InviteTransactionServer.java:251).
OneLateResponse ==
  [][(status \in {"CONFIRMED", "TERMINATED"} /\ "resend" \notin busy) => "resend" \notin busy']_vars

\* The one outcome the dialog is told of after its own answer is the ACK of a refusal, decided on
\* when the request passes the test of the status.
Transaction == INSTANCE TransactionSpec WITH
  Outcome <- {"ack"},
  place   <- IF transaction_id = "INVITE" THEN "outside"
             ELSE IF Own \in keys THEN "inside" ELSE "left",
  due     <- IF rx = "ACK" /\ "acked" \notin busy THEN {"ack"} ELSE {},
  told    <- IF acked THEN <<"ack">> ELSE <<>>

\* Whatever is repeated, late or overtaken: the dialog is told of the ACK at most once, and the own
\* key is entered once and never again after it has been given back, also when terminate() falls
\* into the handling of the INVITE (InviteTransactionServer.java:192,233,284).
Transacts == Transaction!Spec

\* InviteTransactionServer.java:279, of terminate(): "Method used to drop an active
\* transaction": what has been dropped is not in the provider's table.
DroppedIsForgotten == status = "TERMINATED" => Own \notin keys

\* A refused INVITE leaves the provider's table, acknowledged or not.
EventuallyReleased == (status \in {"COMPLETED", "CONFIRMED"}) ~> (Own \notin keys)
================================================================================
