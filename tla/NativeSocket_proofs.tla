------------------------- MODULE NativeSocket_proofs -------------------------
(***************************************************************************)
(* What a datagram socket guarantees for every number of handles and of    *)
(* closing threads, every clock width and every timeout.                   *)
(***************************************************************************)
EXTENDS NativeSocket, TLAPS

\* Only the closer that owns the monitor is inside close(), and it has what it read: the
\* descriptor until it clears it, then the last reference to the own socket.
CloserInside ==
  \A c \in Closer :
    /\ cpc[c] # "out" => monitor = c
    /\ cpc[c] \in {"entered", "read"} => descriptor # None
    /\ cpc[c] = "read" => chandle[c] = descriptor
    /\ cpc[c] = "cleared" =>
         descriptor = None /\ chandle[c] \in Handle /\ owner[chandle[c]] = "own"

\* A receive that has read its handle and not yet used it has made no stale call: the socket
\* was open when it read.
FreshHandle ==
  /\ stale > 0 => descriptor = None
  /\ rpc \in {"polling", "reading"} => stale = 0

\* A system call is made with a number, and refers to a socket.
Named ==
  /\ rpc \in {"polling", "reading"} => rhandle \in Handle
  /\ rpc \in {"select", "recv"} => pin \in Socket

\* Outside a receive its locals have their initial values; inside one it has no outcome.
Locals ==
  /\ rpc = "idle" => pollTime = Poll /\ waited = 0
  /\ rpc # "idle" => outcome = "none"
  /\ rpc # "select" => waited = 0

\* What the receive with a timeout knows of the time, while the clock is not set.
Keeping ==
  timeout > 0 /\ ~jumped =>
    /\ rpc # "idle" => finish = Wrap(clock + (timeout - elapsed))
    /\ rpc \in {"poll", "polling", "select"} =>
         /\ left = timeout - (elapsed - waited) /\ 0 < left
         /\ pollTime = Poll \/ left - Margin < Poll
    /\ rpc \in {"polling", "select"} => pollTime <= left
    /\ rpc = "select" => waited <= pollTime + Slack

IInv == /\ TypeOK /\ Named /\ DescriptorIsOwn /\ OneStaleCall /\ TimeoutIsKept
        /\ CloserInside /\ FreshHandle /\ Locals /\ Keeping

-----------------------------------------------------------------------------
LEMMA InitInv == Init => IInv
  <1> USE SocketAssumption
  <1> SUFFICES ASSUME Init PROVE IInv
    OBVIOUS
  <1> PICK h \in Handle, now \in {0, Half - 1} : Init!(h, now)
    BY DEF Init
  <1>0. 0 \in Int32 /\ now \in Int32 /\ 0 \in 0..MaxElapsed /\ 0 \in 0..MaxInbox
       /\ Poll \in 0..Half + Poll + Margin
    BY DEF Int32, MaxElapsed
  <1>a. owner \in [Handle -> {"free", "own", "other"}] /\ inbox \in [Socket -> 0..MaxInbox]
    BY <1>0
  <1>b. /\ cpc \in [Closer -> {"out", "entered", "read", "cleared"}]
        /\ chandle \in [Closer -> Handle \cup {None}]
    OBVIOUS
  <1>c. /\ descriptor \in Handle \cup {None} /\ monitor \in Closer \cup {None}
        /\ rhandle \in Handle \cup {None} /\ pin \in Socket \cup {None}
        /\ waited \in Nat /\ stale \in 0..2 /\ timeout \in Timeout
    OBVIOUS
  <1>d. jumped \in BOOLEAN
    BY Zenon
  <1>1. TypeOK /\ Named
    BY <1>0, <1>a, <1>b, <1>c, <1>d DEF TypeOK, Named
  <1>2. DescriptorIsOwn /\ OneStaleCall /\ TimeoutIsKept
    BY DEF DescriptorIsOwn, OneStaleCall, TimeoutIsKept
  <1>3. CloserInside /\ FreshHandle /\ Locals /\ Keeping
    BY DEF CloserInside, FreshHandle, Locals, Keeping
  <1> QED
    BY <1>1, <1>2, <1>3 DEF IInv

\* The handlers keep every variable in its type: an int stays one.
LEMMA TypeStep == TypeOK /\ Named /\ [Next]_vars => TypeOK' /\ Named'
  <1> SUFFICES ASSUME TypeOK, Named, [Next]_vars PROVE TypeOK' /\ Named'
    OBVIOUS
  <1> USE SocketAssumption DEF TypeOK, Named, Socket, Int32, MaxElapsed, vars, kernelVars,
     timeVars, closerVars, callVars, receiverVars
  <1>1. CASE Tick
    BY <1>1 DEF Tick, Wrap
  <1>2. CASE SetClock
    BY <1>2 DEF SetClock, Wrap
  <1>3. CASE SelectInterrupted
    BY <1>3 DEF SelectInterrupted, PollAgain, Return, Continue, TimeLeft, Wrap
  <1>4. CASE Receive
    <2>1. PICK t \in Timeout : /\ timeout' = t /\ left' = t
                               /\ finish' = IF t > 0 THEN Wrap(clock + t) ELSE 0
      BY <1>4 DEF Receive
    <2>2. t \in 0..(Half - 1)
      OBVIOUS
    <2>3. left' \in Int32 /\ finish' \in Int32
      BY <2>1, <2>2 DEF Wrap
    <2>4. elapsed' \in 0..MaxElapsed /\ stale' \in 0..2
      BY <1>4 DEF Receive
    <2>6. jumped' \in BOOLEAN
      BY <1>4, Zenon DEF Receive
    <2>5. /\ owner' \in [Handle -> {"free", "own", "other"}] /\ inbox' \in [Socket -> 0..MaxInbox]
          /\ cpc' \in [Closer -> {"out", "entered", "read", "cleared"}]
          /\ chandle' \in [Closer -> Handle \cup {None}]
      BY <1>4 DEF Receive
    <2> QED
      BY <1>4, <2>1, <2>3, <2>4, <2>5, <2>6 DEF Receive
  <1>5. CASE FetchForPoll
    BY <1>5 DEF FetchForPoll, Return, Continue, PollTimeout
  <1>6. CASE Select
    BY <1>6 DEF Select, SystemCall, Return, Continue
  <1>7. CASE SelectReady
    BY <1>7 DEF SelectReady, Continue
  <1>8. CASE SelectTimeout
    BY <1>8 DEF SelectTimeout, PollAgain, Return, Continue, TimeLeft, Wrap
  <1>9. CASE FetchForRecv
    BY <1>9 DEF FetchForRecv, Return, Continue
  <1>10. CASE Recv
    BY <1>10 DEF Recv, SystemCall, Return, Continue
  <1>11. CASE RecvReturns
    BY <1>11 DEF RecvReturns, Return
  <1>12. CASE \E h \in Handle : OpenOther(h)
    BY <1>12 DEF OpenOther
  <1>13. CASE \E h \in Handle : CloseOther(h)
    BY <1>13 DEF CloseOther
  <1>14. CASE \E s \in Socket : Arrive(s)
    BY <1>14 DEF Arrive
  <1>15. CASE \E s \in Socket : Vanish(s)
    BY <1>15 DEF Vanish
  <1>16. CASE \E c \in Closer : EnterClose(c)
    BY <1>16 DEF EnterClose
  <1>17. CASE \E c \in Closer : ReadHandle(c)
    BY <1>17 DEF ReadHandle, Leave
  <1>18. CASE \E c \in Closer : ClearDescriptor(c)
    BY <1>18 DEF ClearDescriptor
  <1>19. CASE \E c \in Closer : CloseHandle(c)
    BY <1>19 DEF CloseHandle, Leave
  <1>20. CASE UNCHANGED vars
    BY <1>20
  <1> QED
    BY <1>1, <1>2, <1>3, <1>4, <1>5, <1>6, <1>7, <1>8, <1>9, <1>10, <1>11, <1>12, <1>13,
       <1>14, <1>15, <1>16, <1>17, <1>18, <1>19, <1>20 DEF Next, Environment, ReceiverStep,
       CloserStep

\* The closers take turns, and the descriptor names the own socket until one clears it.
LEMMA CloserStepInv ==
  TypeOK /\ DescriptorIsOwn /\ CloserInside /\ [Next]_vars => DescriptorIsOwn' /\ CloserInside'
  <1> SUFFICES ASSUME TypeOK, DescriptorIsOwn, CloserInside, [Next]_vars
               PROVE DescriptorIsOwn' /\ CloserInside'
    OBVIOUS
  <1> USE SocketAssumption DEF DescriptorIsOwn, CloserInside, TypeOK, vars, kernelVars,
     timeVars, closerVars, callVars, receiverVars
  <1>1. CASE Tick
    BY <1>1 DEF Tick
  <1>2. CASE SetClock
    BY <1>2 DEF SetClock
  <1>3. CASE SelectInterrupted
    BY <1>3 DEF SelectInterrupted, PollAgain, Return, Continue, TimeLeft
  <1>4. CASE Receive
    BY <1>4 DEF Receive
  <1>5. CASE FetchForPoll
    BY <1>5 DEF FetchForPoll, Return, Continue, PollTimeout
  <1>6. CASE Select
    BY <1>6 DEF Select, SystemCall, Return, Continue
  <1>7. CASE SelectReady
    BY <1>7 DEF SelectReady, Continue
  <1>8. CASE SelectTimeout
    BY <1>8 DEF SelectTimeout, PollAgain, Return, Continue, TimeLeft
  <1>9. CASE FetchForRecv
    BY <1>9 DEF FetchForRecv, Return, Continue
  <1>10. CASE Recv
    BY <1>10 DEF Recv, SystemCall, Return, Continue
  <1>11. CASE RecvReturns
    BY <1>11 DEF RecvReturns, Return
  <1>12. CASE \E h \in Handle : OpenOther(h)
    BY <1>12 DEF OpenOther
  <1>13. CASE \E h \in Handle : CloseOther(h)
    BY <1>13 DEF CloseOther
  <1>14. CASE \E s \in Socket : Arrive(s)
    BY <1>14 DEF Arrive
  <1>15. CASE \E s \in Socket : Vanish(s)
    BY <1>15 DEF Vanish
  <1>16. CASE \E c \in Closer : EnterClose(c)
    BY <1>16 DEF EnterClose
  <1>17. CASE \E c \in Closer : ReadHandle(c)
    BY <1>17 DEF ReadHandle, Leave
  <1>18. CASE \E c \in Closer : ClearDescriptor(c)
    BY <1>18 DEF ClearDescriptor
  <1>19. CASE \E c \in Closer : CloseHandle(c)
    BY <1>19 DEF CloseHandle, Leave
  <1>20. CASE UNCHANGED vars
    BY <1>20
  <1> QED
    BY <1>1, <1>2, <1>3, <1>4, <1>5, <1>6, <1>7, <1>8, <1>9, <1>10, <1>11, <1>12, <1>13,
       <1>14, <1>15, <1>16, <1>17, <1>18, <1>19, <1>20 DEF Next, Environment, ReceiverStep,
       CloserStep

\* A handle read while the socket was open is used once.
LEMMA StaleStep ==
  TypeOK /\ OneStaleCall /\ FreshHandle /\ CloserInside /\ [Next]_vars
    => OneStaleCall' /\ FreshHandle'
  <1> SUFFICES ASSUME TypeOK, OneStaleCall, FreshHandle, CloserInside, [Next]_vars
               PROVE OneStaleCall' /\ FreshHandle'
    OBVIOUS
  <1> USE SocketAssumption DEF OneStaleCall, FreshHandle, TypeOK, vars, kernelVars, timeVars,
     closerVars, callVars, receiverVars
  <1>1. CASE Tick
    BY <1>1 DEF Tick
  <1>2. CASE SetClock
    BY <1>2 DEF SetClock
  <1>3. CASE SelectInterrupted
    BY <1>3 DEF SelectInterrupted, PollAgain, Return, Continue, TimeLeft
  <1>4. CASE Receive
    BY <1>4 DEF Receive
  <1>5. CASE FetchForPoll
    BY <1>5 DEF FetchForPoll, Return, Continue, PollTimeout
  <1>6. CASE Select
    BY <1>6 DEF Select, SystemCall, Return, Continue
  <1>7. CASE SelectReady
    BY <1>7 DEF SelectReady, Continue
  <1>8. CASE SelectTimeout
    BY <1>8 DEF SelectTimeout, PollAgain, Return, Continue, TimeLeft
  <1>9. CASE FetchForRecv
    BY <1>9 DEF FetchForRecv, Return, Continue
  <1>10. CASE Recv
    BY <1>10 DEF Recv, SystemCall, Return, Continue
  <1>11. CASE RecvReturns
    BY <1>11 DEF RecvReturns, Return
  <1>12. CASE \E h \in Handle : OpenOther(h)
    BY <1>12 DEF OpenOther
  <1>13. CASE \E h \in Handle : CloseOther(h)
    BY <1>13 DEF CloseOther
  <1>14. CASE \E s \in Socket : Arrive(s)
    BY <1>14 DEF Arrive
  <1>15. CASE \E s \in Socket : Vanish(s)
    BY <1>15 DEF Vanish
  <1>16. CASE \E c \in Closer : EnterClose(c)
    BY <1>16 DEF EnterClose
  <1>17. CASE \E c \in Closer : ReadHandle(c)
    BY <1>17 DEF ReadHandle, Leave
  <1>18. CASE \E c \in Closer : ClearDescriptor(c)
    BY <1>18 DEF ClearDescriptor
  <1>19. CASE \E c \in Closer : CloseHandle(c)
    BY <1>19 DEF CloseHandle, Leave
  <1>20. CASE UNCHANGED vars
    BY <1>20
  <1> QED
    BY <1>1, <1>2, <1>3, <1>4, <1>5, <1>6, <1>7, <1>8, <1>9, <1>10, <1>11, <1>12, <1>13,
       <1>14, <1>15, <1>16, <1>17, <1>18, <1>19, <1>20 DEF Next, Environment, ReceiverStep,
       CloserStep

LEMMA LocalsStep == TypeOK /\ Locals /\ [Next]_vars => Locals'
  <1> SUFFICES ASSUME TypeOK, Locals, [Next]_vars PROVE Locals'
    OBVIOUS
  <1> USE SocketAssumption DEF Locals, TypeOK, Socket, vars, kernelVars, timeVars,
     closerVars, callVars, receiverVars
  <1>1. CASE Tick
    BY <1>1 DEF Tick
  <1>2. CASE SetClock
    BY <1>2 DEF SetClock
  <1>3. CASE SelectInterrupted
    BY <1>3 DEF SelectInterrupted, PollAgain, Return, Continue, TimeLeft
  <1>4. CASE Receive
    BY <1>4 DEF Receive
  <1>5. CASE FetchForPoll
    BY <1>5 DEF FetchForPoll, Return, Continue, PollTimeout
  <1>6. CASE Select
    BY <1>6 DEF Select, SystemCall, Return, Continue
  <1>7. CASE SelectReady
    BY <1>7 DEF SelectReady, Continue
  <1>8. CASE SelectTimeout
    BY <1>8 DEF SelectTimeout, PollAgain, Return, Continue, TimeLeft
  <1>9. CASE FetchForRecv
    BY <1>9 DEF FetchForRecv, Return, Continue
  <1>10. CASE Recv
    BY <1>10 DEF Recv, SystemCall, Return, Continue
  <1>11. CASE RecvReturns
    BY <1>11 DEF RecvReturns, Return
  <1>12. CASE \E h \in Handle : OpenOther(h)
    BY <1>12 DEF OpenOther
  <1>13. CASE \E h \in Handle : CloseOther(h)
    BY <1>13 DEF CloseOther
  <1>14. CASE \E s \in Socket : Arrive(s)
    BY <1>14 DEF Arrive
  <1>15. CASE \E s \in Socket : Vanish(s)
    BY <1>15 DEF Vanish
  <1>16. CASE \E c \in Closer : EnterClose(c)
    BY <1>16 DEF EnterClose
  <1>17. CASE \E c \in Closer : ReadHandle(c)
    BY <1>17 DEF ReadHandle, Leave
  <1>18. CASE \E c \in Closer : ClearDescriptor(c)
    BY <1>18 DEF ClearDescriptor
  <1>19. CASE \E c \in Closer : CloseHandle(c)
    BY <1>19 DEF CloseHandle, Leave
  <1>20. CASE UNCHANGED vars
    BY <1>20
  <1> QED
    BY <1>1, <1>2, <1>3, <1>4, <1>5, <1>6, <1>7, <1>8, <1>9, <1>10, <1>11, <1>12, <1>13,
       <1>14, <1>15, <1>16, <1>17, <1>18, <1>19, <1>20 DEF Next, Environment, ReceiverStep,
       CloserStep

\* The time left is what the clock says it is, across a wrap of the clock.
LEMMA TimeStep ==
  TypeOK /\ Named /\ Locals /\ TimeoutIsKept /\ Keeping /\ [Next]_vars => TimeoutIsKept' /\ Keeping'
  <1> SUFFICES ASSUME TypeOK, Named, Locals, TimeoutIsKept, Keeping, [Next]_vars
               PROVE TimeoutIsKept' /\ Keeping'
    OBVIOUS
  <1> USE SocketAssumption DEF TimeoutIsKept, Keeping, Locals, Named, TypeOK, Socket, Int32,
     MaxElapsed, Wrap, vars, kernelVars, timeVars, closerVars, callVars, receiverVars
  <1>1. CASE Tick
    BY <1>1 DEF Tick
  <1>2. CASE SetClock
    BY <1>2 DEF SetClock
  <1>3. CASE SelectInterrupted
    BY <1>3 DEF SelectInterrupted, PollAgain, Return, Continue, TimeLeft
  <1>4. CASE Receive
    BY <1>4 DEF Receive
  <1>5. CASE FetchForPoll
    BY <1>5 DEF FetchForPoll, Return, Continue, PollTimeout
  <1>6. CASE Select
    BY <1>6 DEF Select, SystemCall, Return, Continue
  <1>7. CASE SelectReady
    BY <1>7 DEF SelectReady, Continue
  <1>8. CASE SelectTimeout
    BY <1>8 DEF SelectTimeout, PollAgain, Return, Continue, TimeLeft
  <1>9. CASE FetchForRecv
    BY <1>9 DEF FetchForRecv, Return, Continue
  <1>10. CASE Recv
    BY <1>10 DEF Recv, SystemCall, Return, Continue
  <1>11. CASE RecvReturns
    BY <1>11 DEF RecvReturns, Return
  <1>12. CASE \E h \in Handle : OpenOther(h)
    BY <1>12 DEF OpenOther
  <1>13. CASE \E h \in Handle : CloseOther(h)
    BY <1>13 DEF CloseOther
  <1>14. CASE \E s \in Socket : Arrive(s)
    BY <1>14 DEF Arrive
  <1>15. CASE \E s \in Socket : Vanish(s)
    BY <1>15 DEF Vanish
  <1>16. CASE \E c \in Closer : EnterClose(c)
    BY <1>16 DEF EnterClose
  <1>17. CASE \E c \in Closer : ReadHandle(c)
    BY <1>17 DEF ReadHandle, Leave
  <1>18. CASE \E c \in Closer : ClearDescriptor(c)
    BY <1>18 DEF ClearDescriptor
  <1>19. CASE \E c \in Closer : CloseHandle(c)
    BY <1>19 DEF CloseHandle, Leave
  <1>20. CASE UNCHANGED vars
    BY <1>20
  <1> QED
    BY <1>1, <1>2, <1>3, <1>4, <1>5, <1>6, <1>7, <1>8, <1>9, <1>10, <1>11, <1>12, <1>13,
       <1>14, <1>15, <1>16, <1>17, <1>18, <1>19, <1>20 DEF Next, Environment, ReceiverStep,
       CloserStep

-----------------------------------------------------------------------------
THEOREM Invariance == Spec => []IInv
  <1>1. IInv /\ [Next]_vars => IInv'
    BY TypeStep, CloserStepInv, StaleStep, LocalsStep, TimeStep DEF IInv
  <1> QED
    BY InitInv, <1>1, PTL DEF Spec

\* Every variable keeps its type; the arithmetic on the clock stays within an int.
THEOREM TypeCorrect == Spec => []TypeOK
  BY Invariance, PTL DEF IInv

\* The descriptor never names a socket that is not the own one.
THEOREM DescriptorOwn == Spec => []DescriptorIsOwn
  BY Invariance, PTL DEF IInv

\* A receive begins at most one system call with a number closed under it.
THEOREM StaleOnce == Spec => []OneStaleCall
  BY Invariance, PTL DEF IInv

\* The timeout is kept, for every clock width and every timeout that fits the clock.
THEOREM TimeoutKept == Spec => []TimeoutIsKept
  BY Invariance, PTL DEF IInv

\* No closer, of any number of them, closes a socket that is not the own one.
THEOREM ClosesOwn == Spec => ClosesOwnOnly
  <1> DEFINE Step == \A c \in Closer, h \in Handle :
                       cpc'[c] # cpc[c] /\ owner[h] = "other" => owner'[h] = "other"
  <1>1. IInv /\ [Next]_vars => [Step]_vars
    <2> SUFFICES ASSUME IInv, [Next]_vars, NEW c \in Closer, NEW h \in Handle,
                        cpc'[c] # cpc[c], owner[h] = "other"
                 PROVE owner'[h] = "other"
      OBVIOUS
    <2> USE DEF IInv, TypeOK, vars, kernelVars, timeVars, closerVars, callVars, receiverVars
    <2>1. PICK d \in Closer : CloserStep(d)
      BY DEF Next, Environment, ReceiverStep, OpenOther, CloseOther, Arrive, Vanish, Tick, SetClock,
             SelectInterrupted, SelectTimeout, PollAgain, Receive, FetchForPoll, Select, SystemCall,
             SelectReady, FetchForRecv, Recv, RecvReturns
    <2>2. CASE CloseHandle(d)
      BY <2>2 DEF CloseHandle, CloserInside
    <2>3. CASE EnterClose(d) \/ ReadHandle(d) \/ ClearDescriptor(d)
      BY <2>3 DEF EnterClose, ReadHandle, ClearDescriptor
    <2> QED
      BY <2>1, <2>2, <2>3 DEF CloserStep
  <1> QED
    BY Invariance, <1>1, PTL DEF Spec, ClosesOwnOnly
=============================================================================
