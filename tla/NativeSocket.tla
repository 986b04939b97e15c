---------------------------- MODULE NativeSocket ----------------------------
(***************************************************************************)
(* A datagram socket of the native library: one thread receives with a     *)
(* timeout and several may close it (SipdroidSocket.close from the owner,  *)
(* finalize from the collector).  The receiver holds no lock: it polls     *)
(* with select and reads the descriptor field anew for every system call,  *)
(* so a close may fall between any two of its steps, and the kernel may    *)
(* give the freed number to another socket of the process.                 *)
(*                                                                         *)
(* Time is counted in units of 10 ms; the clock is a wall clock kept in an *)
(* int, here one of 2 * Half values.                                       *)
(***************************************************************************)
EXTENDS Integers, FiniteSets

CONSTANTS Handle,      \* the numbers the kernel hands out (a bound)
          Closer,      \* the threads that may close the socket
          Timeout,     \* SO_TIMEOUT values used; 0 waits for ever
          Half,        \* half the range of the clock
          Poll,        \* pollMsec
          Margin,      \* the 10 ms of pollSelectWait
          Slack,       \* how late select may return
          Jumps,       \* what the wall clock may be set forward or back by
          MaxInbox,    \* bound: datagrams waiting at a socket
          None         \* descriptor -1, or no handle

ASSUME SocketAssumption ==
  /\ None \notin Handle /\ Handle # {}
  /\ None \notin Closer
  /\ {Half, Poll} \subseteq Nat \ {0} /\ {Margin, MaxInbox} \subseteq Nat
  /\ Slack \in 0..Half
  /\ Timeout \subseteq 0..(Half - 1) /\ 0 \in Timeout
  /\ Jumps \subseteq 0..Half

VARIABLES descriptor,  \* FileDescriptor.descriptor
          owner,       \* kernel: what each number refers to
          inbox,       \* kernel: datagrams waiting at the own and at other sockets
          clock,       \* time_msec_clock()
          monitor,     \* the closer that is inside synchronized (fd)
          cpc,         \* where each closer is
          chandle,     \* the handle it read
          rpc,         \* where the receiver is
          timeout,     \* its receiveTimeout
          finish,      \* finishTime
          left,        \* timeLeft
          rhandle,     \* the handle of its next system call
          pollTime,    \* pollTimeoutUSec
          pin,         \* the socket its running system call refers to
          outcome,     \* how its last call ended
          waited,      \* history: time spent in this select
          elapsed,     \* history: time spent in this receive
          jumped,      \* history: the wall clock was set during this receive
          stale        \* history: system calls of this receive begun after the close

closerVars == <<monitor, cpc, chandle>>
callVars == <<timeout, finish, left, pollTime>>
timeVars == <<clock, waited, elapsed, jumped>>
kernelVars == <<owner, inbox>>
receiverVars == <<rpc, callVars, rhandle, pin, outcome, stale>>
vars == <<descriptor, kernelVars, timeVars, closerVars, receiverVars>>

Socket == {"own", "other"}
Int32 == (-Half)..(Half - 1)
(* The int that the sum or difference of two ints leaves. *)
Wrap(x) == IF x >= Half THEN x - 2 * Half ELSE IF x < -Half THEN x + 2 * Half ELSE x
MaxElapsed == Half + Slack + 1

(* The socket is open: createDatagramSocketImpl has stored the number. *)
Init == \E h \in Handle, now \in {0, Half - 1} :
  /\ descriptor = h
  /\ owner = [k \in Handle |-> IF k = h THEN "own" ELSE "free"]
  /\ inbox = [s \in Socket |-> 0]
  /\ clock = now
  /\ monitor = None
  /\ cpc = [c \in Closer |-> "out"] /\ chandle = [c \in Closer |-> None]
  /\ rpc = "idle" /\ timeout = 0 /\ finish = 0 /\ left = 0
  /\ rhandle = None /\ pollTime = Poll /\ pin = None /\ outcome = "none"
  /\ waited = 0 /\ elapsed = 0 /\ jumped = FALSE /\ stale = 0

-----------------------------------------------------------------------------
(* The kernel and the rest of the process. *)

OpenOther(h) == /\ owner[h] = "free"
                /\ owner' = [owner EXCEPT ![h] = "other"]
                /\ UNCHANGED <<descriptor, inbox, timeVars, closerVars, receiverVars>>

CloseOther(h) == /\ owner[h] = "other"
                 /\ owner' = [owner EXCEPT ![h] = "free"]
                 /\ UNCHANGED <<descriptor, inbox, timeVars, closerVars, receiverVars>>

Arrive(s) == /\ inbox[s] < MaxInbox /\ \E h \in Handle : owner[h] = s
             /\ inbox' = [inbox EXCEPT ![s] = @ + 1]
             /\ UNCHANGED <<descriptor, owner, timeVars, closerVars, receiverVars>>

(* Other threads read the other sockets; a datagram with a bad checksum is *)
(* dropped after select has reported it.                                   *)
Vanish(s) == /\ inbox[s] > 0
             /\ inbox' = [inbox EXCEPT ![s] = @ - 1]
             /\ UNCHANGED <<descriptor, owner, timeVars, closerVars, receiverVars>>

(* Time passes while the receiver waits in select, which returns no later *)
(* than Slack after its timeout.                                           *)
Tick == /\ rpc = "select" /\ waited < pollTime + Slack
        /\ clock' = Wrap(clock + 1)
        /\ waited' = waited + 1
        /\ elapsed' = IF elapsed < MaxElapsed THEN elapsed + 1 ELSE elapsed
        /\ UNCHANGED <<descriptor, kernelVars, jumped, closerVars, receiverVars>>

(* The wall clock is set, at most once in a receive; it is read before the *)
(* first select and after each.                                            *)
SetClock == /\ rpc = "select" /\ ~jumped
            /\ \E d \in Jumps : clock' \in {Wrap(clock + d), Wrap(clock - d)}
            /\ jumped' = TRUE
            /\ UNCHANGED <<descriptor, kernelVars, waited, elapsed, closerVars, receiverVars>>

-----------------------------------------------------------------------------
(* PlainDatagramSocketImpl.close and socketCloseImpl. *)

Leave(c) == /\ monitor' = None
            /\ cpc' = [cpc EXCEPT ![c] = "out"]
            /\ chandle' = [chandle EXCEPT ![c] = None]

\* Mutant: close is not synchronized.
MutantNoMonitor(c) ==
  /\ cpc[c] = "out" /\ descriptor # None
  /\ monitor' = c /\ cpc' = [cpc EXCEPT ![c] = "entered"]
  /\ UNCHANGED <<descriptor, kernelVars, timeVars, chandle, receiverVars>>

(* synchronized (fd) { if (fd.valid()) ... *)
EnterClose(c) == /\ cpc[c] = "out" /\ monitor = None
                 /\ descriptor # None
                 /\ monitor' = c
                 /\ cpc' = [cpc EXCEPT ![c] = "entered"]
                 /\ UNCHANGED <<descriptor, kernelVars, timeVars, chandle, receiverVars>>

ReadHandle(c) == /\ cpc[c] = "entered"
                 /\ IF descriptor = None
                    THEN Leave(c)
                    ELSE /\ chandle' = [chandle EXCEPT ![c] = descriptor]
                         /\ cpc' = [cpc EXCEPT ![c] = "read"]
                         /\ UNCHANGED monitor
                 /\ UNCHANGED <<descriptor, kernelVars, timeVars, receiverVars>>

\* Mutant: the kernel's number is freed while the descriptor still names it.
MutantCloseFirst(c) ==
  /\ cpc[c] = "read"
  /\ owner' = [owner EXCEPT ![chandle[c]] = "free"]
  /\ cpc' = [cpc EXCEPT ![c] = "cleared"]
  /\ UNCHANGED <<descriptor, inbox, timeVars, monitor, chandle, receiverVars>>

ClearDescriptor(c) == /\ cpc[c] = "read"
                      /\ descriptor' = None
                      /\ cpc' = [cpc EXCEPT ![c] = "cleared"]
                      /\ UNCHANGED <<kernelVars, timeVars, monitor, chandle, receiverVars>>

CloseHandle(c) == /\ cpc[c] = "cleared"
                  /\ owner' = [owner EXCEPT ![chandle[c]] = "free"]
                  /\ Leave(c)
                  /\ UNCHANGED <<descriptor, inbox, timeVars, receiverVars>>

-----------------------------------------------------------------------------
(* receiveDatagramDirectImpl and, inside it, pollSelectWait. *)

(* The call ends; its locals are gone. *)
Return(o) == /\ rpc' = "idle" /\ outcome' = o
             /\ rhandle' = None /\ pin' = None
             /\ finish' = 0 /\ left' = 0 /\ pollTime' = Poll /\ waited' = 0

Continue(step) == rpc' = step /\ UNCHANGED <<outcome, finish>>

\* Mutant: finishTime in a wider type than the clock.
MutantWideFinish ==
  /\ rpc = "idle"
  /\ \E t \in Timeout : timeout' = t /\ left' = t /\ finish' = IF t > 0 THEN clock + t ELSE 0
  /\ rpc' = "poll" /\ outcome' = "none" /\ stale' = 0 /\ elapsed' = 0 /\ jumped' = FALSE
  /\ UNCHANGED <<descriptor, kernelVars, closerVars, clock, waited, pollTime, rhandle, pin>>

(* finishTime = time_msec_clock() + timeout *)
Receive == /\ rpc = "idle"
           /\ \E t \in Timeout : /\ timeout' = t /\ left' = t
                                 /\ finish' = IF t > 0 THEN Wrap(clock + t) ELSE 0
           /\ rpc' = "poll"
           /\ outcome' = "none" /\ stale' = 0
           /\ elapsed' = 0 /\ jumped' = FALSE
           /\ UNCHANGED <<descriptor, kernelVars, closerVars, clock, waited, pollTime, rhandle, pin>>

(* The timeout of the next select. *)
PollTimeout == IF timeout > 0 /\ left - Margin < Poll
               THEN IF left <= 0 THEN 0 ELSE left
               ELSE pollTime

\* Mutant: the handle is fetched before the loop only.
MutantFetchOnce ==
  /\ rpc = "poll"
  /\ IF descriptor = None /\ rhandle = None
     THEN Return("closed")
     ELSE /\ Continue("polling")
          /\ rhandle' = IF rhandle = None THEN descriptor ELSE rhandle
          /\ pollTime' = PollTimeout
          /\ UNCHANGED <<left, waited, pin>>
  /\ UNCHANGED <<descriptor, kernelVars, closerVars, clock, elapsed, jumped, timeout, stale>>

(* The handle is fetched for every select. *)
FetchForPoll == /\ rpc = "poll"
                /\ IF descriptor = None
                   THEN Return("closed")
                   ELSE /\ Continue("polling")
                        /\ rhandle' = descriptor
                        /\ pollTime' = PollTimeout
                        /\ UNCHANGED <<left, waited, pin>>
                /\ UNCHANGED <<descriptor, kernelVars, closerVars, clock, elapsed, jumped, timeout,
                               stale>>

(* A system call takes the file its number names now; none is EBADF. *)
SystemCall(step) ==
  /\ stale' = IF descriptor = None /\ stale < 2 THEN stale + 1 ELSE stale
  /\ IF owner[rhandle] = "free"
     THEN Return("error")
     ELSE /\ Continue(step)
          /\ pin' = owner[rhandle]
          /\ UNCHANGED <<rhandle, left, pollTime, waited>>
  /\ UNCHANGED <<descriptor, kernelVars, closerVars, clock, elapsed, jumped, timeout>>

Select == rpc = "polling" /\ SystemCall("select")

SelectReady == /\ rpc = "select" /\ inbox[pin] > 0
               /\ Continue("ready")
               /\ pin' = None /\ waited' = 0
               /\ UNCHANGED <<descriptor, kernelVars, closerVars, clock, elapsed, jumped, timeout,
                              left, pollTime, rhandle, stale>>

\* Mutant: the difference of two times that wrap, without wrapping.
MutantNoWrap == IF timeout > 0 THEN finish - clock ELSE left

(* timeLeft = finishTime - time_msec_clock() *)
TimeLeft == IF timeout > 0 THEN Wrap(finish - clock) ELSE left

(* select timed out or was interrupted: both are treated alike. *)
PollAgain == /\ rpc = "select"
             /\ IF timeout > 0 /\ TimeLeft <= 0
                THEN Return("timeout")
                ELSE /\ Continue("poll")
                     /\ left' = TimeLeft
                     /\ pin' = None /\ waited' = 0
                     /\ UNCHANGED <<rhandle, pollTime>>
             /\ UNCHANGED <<descriptor, kernelVars, closerVars, clock, elapsed, jumped, timeout,
                            stale>>

SelectTimeout == waited >= pollTime /\ PollAgain

SelectInterrupted == waited < pollTime /\ PollAgain

\* Mutant: recvfrom reuses the handle of the poll.
MutantKeepHandle ==
  /\ rpc = "ready"
  /\ Continue("reading")
  /\ UNCHANGED <<descriptor, kernelVars, closerVars, timeVars, timeout, left, pollTime, rhandle, pin,
                 stale>>

(* And again for recvfrom. *)
FetchForRecv == /\ rpc = "ready"
                /\ IF descriptor = None
                   THEN Return("closed")
                   ELSE /\ Continue("reading")
                        /\ rhandle' = descriptor
                        /\ UNCHANGED <<left, pollTime, waited, pin>>
                /\ UNCHANGED <<descriptor, kernelVars, closerVars, clock, elapsed, jumped, timeout,
                               stale>>

(* recvfrom blocks without a timeout, and close does not wake it. *)
Recv == rpc = "reading" /\ SystemCall("recv")

(* With peek (MSG_PEEK) the datagram stays. *)
RecvReturns == /\ rpc = "recv" /\ inbox[pin] > 0
               /\ inbox' \in {inbox, [inbox EXCEPT ![pin] = @ - 1]}
               /\ Return(pin)
               /\ UNCHANGED <<descriptor, owner, closerVars, clock, elapsed, jumped, timeout, stale>>

-----------------------------------------------------------------------------
ReceiverStep == \/ FetchForPoll \/ Select \/ SelectReady \/ SelectTimeout
                \/ FetchForRecv \/ Recv \/ RecvReturns

CloserStep(c) == EnterClose(c) \/ ReadHandle(c) \/ ClearDescriptor(c) \/ CloseHandle(c)

Environment == \/ \E h \in Handle : OpenOther(h) \/ CloseOther(h)
               \/ \E s \in Socket : Arrive(s) \/ Vanish(s)
               \/ Tick \/ SetClock \/ SelectInterrupted

Next == \/ Environment
        \/ \E c \in Closer : CloserStep(c)
        \/ Receive \/ ReceiverStep

(* The receiver's thread runs, and time passes. *)
Spec == Init /\ [][Next]_vars /\ WF_vars(ReceiverStep) /\ WF_vars(Tick)

-----------------------------------------------------------------------------
TypeOK == /\ descriptor \in Handle \cup {None}
          /\ owner \in [Handle -> {"free", "own", "other"}]
          /\ inbox \in [Socket -> 0..MaxInbox]
          /\ clock \in Int32 /\ finish \in Int32 /\ left \in Int32
          /\ monitor \in Closer \cup {None}
          /\ cpc \in [Closer -> {"out", "entered", "read", "cleared"}]
          /\ chandle \in [Closer -> Handle \cup {None}]
          /\ rpc \in {"idle", "poll", "polling", "select", "ready", "reading", "recv"}
          /\ timeout \in Timeout /\ pollTime \in 0..Half + Poll + Margin
          /\ rhandle \in Handle \cup {None} /\ pin \in Socket \cup {None}
          /\ outcome \in {"none", "closed", "error", "timeout", "own", "other"}
          /\ waited \in Nat /\ elapsed \in 0..MaxElapsed
          /\ jumped \in BOOLEAN /\ stale \in 0..2

(* Whoever reads the descriptor before the close gets the own socket: the  *)
(* number is taken out of the FileDescriptor before the kernel may give it *)
(* to someone else.                                                        *)
DescriptorIsOwn == descriptor # None => owner[descriptor] = "own"

(* Whatever the closers do, and however often the number is reused, close  *)
(* ends the own socket only: none closes a descriptor of another socket.   *)
ClosesOwnOnly ==
  [][\A c \in Closer, h \in Handle : cpc'[c] # cpc[c] /\ owner[h] = "other" => owner'[h] = "other"]_vars

(* The handle is fetched for every system call, so a receive begins at most *)
(* one call with a number that was closed under it.                         *)
OneStaleCall == stale <= 1

(* With a timeout, receive waits for it, to within select's lateness: it   *)
(* neither gives up early nor waits longer, also where the clock's int     *)
(* wraps; only setting the wall clock breaks this.                         *)
TimeoutIsKept ==
  timeout > 0 /\ ~jumped =>
    /\ outcome = "timeout" => elapsed >= timeout
    /\ elapsed <= timeout + Slack

(* close has no way to wake the receiver, which polls for this reason: it  *)
(* finds the socket closed and returns, whatever its timeout, unless it is *)
(* past its last look at the descriptor and blocked in recvfrom.           *)
ClosedEnds == descriptor = None ~> (rpc = "idle" \/ (rpc = "recv" /\ inbox[pin] = 0))
=============================================================================
