------------------------------ MODULE Registration ------------------------------
(***************************************************************************)
(* Registration with the registrar: RegisterAgent (CurrentState, t,        *)
(* attempts), the part of SipdroidEngine that drives it (the wake lock     *)
(* wl[i], which counts its acquisitions) and Receiver.reRegister (the      *)
(* alarm that renews).  One line, as LINES = 1.                            *)
(*                                                                         *)
(* Three threads call in without a lock: "main" (user interface,           *)
(* broadcasts, alarms), "receive" (answers of the registrar) and "timer"   *)
(* (transaction timeouts).  The methods call each other: a failure makes   *)
(* the engine register again from inside the callback, and so on.  So each *)
(* thread has a stack of what it still has to do; a step does the top of   *)
(* it.                                                                     *)
(*                                                                         *)
(* A REGISTER and the un-REGISTER look the same to the callbacks, which    *)
(* go by CurrentState; so a transaction is only a name here.  The          *)
(* message-waiting subscription and halt() are left out.                   *)
(***************************************************************************)
EXTENDS Naturals, Sequences, FiniteSets

CONSTANTS
  Transaction,   \* names of TransactionClient objects, used again when over
  Expires,       \* the times, in seconds, that the registrar may grant
  MaxCalls       \* bound on the calls of register from outside the agent

ASSUME ExpiresAssumption == Expires \subseteq Nat
ASSUME MaxCallsAssumption == MaxCalls \in Nat

VARIABLES
  CurrentState,
  attempts,      \* authentication attempts since register() was last called
  t,             \* the set of at most one transaction that "t" refers to
  pending,       \* transactions that wait for an answer
  stack,         \* per thread, what it still has to do
  wl,            \* how often the wake lock is held
  alarm,         \* whether the alarm that renews is set
  expire_time,   \* whether Receiver.expire_time is set
  calls,         \* calls of register so far, for the bound
  unlocked,      \* history: how often there was no lock to release
  phantom        \* history: how often a transaction was ended that was over

agent == <<CurrentState, attempts, t, pending>>
lock == <<wl, unlocked, phantom>>
renewal == <<alarm, expire_time>>
vars == <<agent, stack, lock, renewal, calls>>

MAX_ATTEMPTS == 3
State == {"UNDEFINED", "UNREGISTERED", "REGISTERING", "REGISTERED", "DEREGISTERING"}
InProgress == {"REGISTERING", "DEREGISTERING"}
Thread == {"main", "receive", "timer"}
Kind == {"register", "unregister"}
Retry == 1000    \* seconds to the next attempt after a failure
Margin == 15     \* seconds before its end a registration is renewed

\* What a thread may have to do: enter register(), set CurrentState, send the request,
\* acquire the lock, tell the engine of a failure or a success, set the alarm.
Do(op, arg) == [op |-> op, arg |-> arg]
Frame == {Do(op, k) : op \in {"enter", "begin"}, k \in Kind}
           \cup {Do(op, 0) : op \in {"request", "acquire", "failed", "succeeded"}}
           \cup {Do("alarm", e) : e \in Expires \cup {Retry}}

TypeOK ==
  /\ CurrentState \in State
  /\ attempts \in 0..MAX_ATTEMPTS
  /\ t \subseteq Transaction /\ Cardinality(t) <= 1
  /\ pending \subseteq Transaction
  /\ stack \in [Thread -> Seq(Frame)]
  /\ wl \in Nat /\ unlocked \in Nat /\ phantom \in Nat
  /\ alarm \in BOOLEAN /\ expire_time \in BOOLEAN
  /\ calls \in 0..MaxCalls

Init ==
  /\ CurrentState = "UNDEFINED"
  /\ attempts = 0
  /\ t = {}
  /\ pending = {}
  /\ stack = [th \in Thread |-> <<>>]
  /\ wl = 0 /\ unlocked = 0 /\ phantom = 0
  /\ alarm = FALSE /\ expire_time = FALSE
  /\ calls = 0

--------------------------------------------------------------------------------

\* The thread's next thing to do is op with arg; it does it, and has "more" to do first.
Does(th, op, arg) == stack[th] # <<>> /\ Head(stack[th]) = Do(op, arg)
Then(th, more) == stack' = [stack EXCEPT ![th] = more \o Tail(@)]
Idle(th) == stack[th] = <<>>
Starts(th, frames) == Idle(th) /\ stack' = [stack EXCEPT ![th] = frames]

\* if (wl[i].isHeld()) wl[i].release().
Release ==
  IF wl > 0 THEN wl' = wl - 1 /\ UNCHANGED unlocked
            ELSE unlocked' = unlocked + 1 /\ UNCHANGED wl

\* A new transaction is made and sends its request.
NewTransaction(over) ==
  \E x \in Transaction \ (pending \cup t) :
    /\ t' = {x}
    /\ pending' = (pending \ over) \cup {x}

\* What the end of a transaction without a registration does to CurrentState, and what
\* then remains to be done.  A failed removal counts as done unless the account is one
\* that is used on the public network ("pub").
Rollback(state) ==
  \/ /\ state = "REGISTERING"
     /\ CurrentState' = "UNDEFINED"
  \/ /\ state # "REGISTERING"
     /\ CurrentState' \in {"UNDEFINED", "UNREGISTERED"}

AfterRollback ==
  IF CurrentState' = "UNDEFINED" THEN <<Do("failed", 0), Do("alarm", Retry)>>
                                 ELSE <<Do("succeeded", 0)>>

--------------------------------------------------------------------------------
(* The calls from outside. *)

\* SipdroidEngine.register: registers on a fast network, unregisters on another.
EngineRegister ==
  /\ calls < MaxCalls /\ calls' = calls + 1
  /\ \E k \in Kind : Starts("main", <<Do("enter", k)>>)
  /\ UNCHANGED <<agent, lock, renewal>>

\* SipdroidEngine.registerMore: registers if nothing is registered or registering.
RegisterMore ==
  /\ calls < MaxCalls /\ calls' = calls + 1
  /\ CurrentState \notin {"REGISTERED", "REGISTERING"}
  /\ Starts("main", <<Do("enter", "register")>>)
  /\ UNCHANGED <<agent, lock, renewal>>

\* The time of the alarm is not forgotten when it has rung.
MutantStaleExpireTime ==
  /\ calls < MaxCalls /\ calls' = calls + 1
  /\ alarm /\ alarm' = FALSE
  /\ CurrentState' = IF CurrentState = "REGISTERED" THEN "UNREGISTERED" ELSE CurrentState
  /\ \E k \in Kind : Starts("main", <<Do("enter", k)>>)
  /\ UNCHANGED <<attempts, t, pending, lock, expire_time>>

\* The alarm: SipdroidEngine.expire.
Expire ==
  /\ calls < MaxCalls /\ calls' = calls + 1
  /\ alarm /\ alarm' = FALSE
  /\ expire_time' = FALSE
  /\ CurrentState' = IF CurrentState = "REGISTERED" THEN "UNREGISTERED" ELSE CurrentState
  /\ \E k \in Kind : Starts("main", <<Do("enter", k)>>)
  /\ UNCHANGED <<attempts, t, pending, lock>>

--------------------------------------------------------------------------------
(* RegisterAgent.register, in any thread. *)

Opposite(k) == IF k = "register" THEN "DEREGISTERING" ELSE "REGISTERING"

\* register() terminates the transaction of the other kind and leaves CurrentState.
MutantNoRollback(th, k) ==
  /\ Does(th, "enter", k)
  /\ attempts' = 0
  /\ pending' = IF CurrentState = Opposite(k) THEN pending \ t ELSE pending
  /\ Then(th, <<Do("begin", k)>>)
  /\ UNCHANGED <<CurrentState, t, lock, renewal, calls>>

\* register(): a transaction of the other kind is ended as if it had timed out.
Enter(th, k) ==
  /\ Does(th, "enter", k)
  /\ attempts' = 0
  /\ IF CurrentState = Opposite(k) /\ t # {}
     THEN /\ pending' = pending \ t
          /\ Rollback(CurrentState)
          /\ Then(th, AfterRollback \o <<Do("begin", k)>>)
          /\ phantom' = IF t \subseteq pending THEN phantom ELSE phantom + 1
     ELSE /\ Then(th, <<Do("begin", k)>>)
          /\ UNCHANGED <<CurrentState, pending, phantom>>
  /\ UNCHANGED <<t, wl, unlocked, renewal, calls>>

\* A state from which the registration, or its removal, may start.
MayBegin(k) ==
  CurrentState \in IF k = "register" THEN {"UNREGISTERED", "REGISTERED", "UNDEFINED"}
                                     ELSE {"REGISTERED", "UNDEFINED"}

\* The engine acquires the lock whatever register() returns.
MutantAcquireAlways(th, k) ==
  /\ Does(th, "begin", k)
  /\ IF MayBegin(k)
     THEN /\ CurrentState' = IF k = "register" THEN "REGISTERING" ELSE "DEREGISTERING"
          /\ Then(th, <<Do("request", 0), Do("acquire", 0)>>)
     ELSE /\ Then(th, <<Do("acquire", 0)>>)
          /\ UNCHANGED CurrentState
  /\ UNCHANGED <<attempts, t, pending, lock, renewal, calls>>

Begin(th, k) ==
  /\ Does(th, "begin", k)
  /\ IF MayBegin(k)
     THEN /\ CurrentState' = IF k = "register" THEN "REGISTERING" ELSE "DEREGISTERING"
          /\ Then(th, <<Do("request", 0), Do("acquire", 0)>>)
     ELSE /\ Then(th, <<>>)
          /\ UNCHANGED CurrentState
  /\ UNCHANGED <<attempts, t, pending, lock, renewal, calls>>

\* The request goes out; register() returns true ...
SendRequest(th) ==
  /\ Does(th, "request", 0)
  /\ NewTransaction({})
  /\ Then(th, <<>>)
  /\ UNCHANGED <<CurrentState, attempts, lock, renewal, calls>>

\* ... and the engine acquires the lock.
Acquire(th) ==
  /\ Does(th, "acquire", 0)
  /\ wl' = wl + 1
  /\ Then(th, <<>>)
  /\ UNCHANGED <<agent, unlocked, phantom, renewal, calls>>

--------------------------------------------------------------------------------
(* The end of a transaction. *)

\* A 2xx, which grants e seconds.
OnSuccess(x, e) ==
  /\ x \in pending /\ pending' = pending \ {x}
  /\ IF CurrentState = "REGISTERING"
     THEN /\ CurrentState' = "REGISTERED"
          /\ Starts("receive", <<Do("succeeded", 0), Do("alarm", e)>>)
     ELSE /\ CurrentState' = "UNREGISTERED"
          /\ Starts("receive", <<Do("succeeded", 0)>>)
  /\ UNCHANGED <<attempts, t, lock, renewal, calls>>

\* The attempts are counted but not limited.
MutantEndlessChallenge(x) ==
  /\ Idle("receive") /\ x \in pending
  /\ attempts' = attempts + 1
  /\ NewTransaction({x})
  /\ UNCHANGED <<CurrentState, stack, lock, renewal, calls>>

\* A 401 or 407 while attempts remain: the request again, with credentials.
OnChallenge(x) ==
  /\ Idle("receive") /\ x \in pending
  /\ attempts < MAX_ATTEMPTS
  /\ attempts' = attempts + 1
  /\ NewTransaction({x})
  /\ UNCHANGED <<CurrentState, stack, lock, renewal, calls>>

\* Any other 3xx-6xx, or a challenge too many.
OnFailure(x) ==
  /\ x \in pending /\ pending' = pending \ {x}
  /\ attempts' = IF attempts < MAX_ATTEMPTS THEN attempts + 1 ELSE attempts
  /\ CurrentState' = "UNREGISTERED"
  /\ Starts("receive", IF CurrentState = "REGISTERING"
                       THEN <<Do("failed", 0), Do("alarm", Retry)>>
                       ELSE <<Do("succeeded", 0)>>)
  /\ UNCHANGED <<t, lock, renewal, calls>>

\* The timeout is not told to the agent.
MutantSilentTimeout(x) ==
  /\ x \in pending /\ pending' = pending \ {x}
  /\ UNCHANGED <<CurrentState, attempts, t, stack, lock, renewal, calls>>

\* No answer in 30 seconds.
OnTimeout(x) ==
  /\ x \in pending /\ pending' = pending \ {x}
  /\ Rollback(CurrentState)
  /\ Starts("timer", AfterRollback)
  /\ UNCHANGED <<attempts, t, lock, renewal, calls>>

\* SipdroidEngine.onUaRegistrationSuccess, also called for what was given up.
Succeeded(th) ==
  /\ Does(th, "succeeded", 0)
  /\ Release
  /\ Then(th, <<>>)
  /\ UNCHANGED <<agent, phantom, renewal, calls>>

\* SipdroidEngine.onUaRegistrationFailure: may register again at once; a registration
\* that another thread has begun meanwhile is declared undone.
Failed(th) ==
  /\ Does(th, "failed", 0)
  /\ Release
  /\ \/ /\ CurrentState \in {"REGISTERED", "REGISTERING"}
        /\ CurrentState' = "UNREGISTERED"
        /\ Then(th, <<>>)
        /\ UNCHANGED calls
     \/ /\ CurrentState \notin {"REGISTERED", "REGISTERING"}
        /\ UNCHANGED CurrentState
        /\ \/ Then(th, <<>>) /\ UNCHANGED calls
           \/ /\ calls < MaxCalls /\ calls' = calls + 1
              /\ \E k \in Kind : Then(th, <<Do("enter", k)>>)
  /\ UNCHANGED <<attempts, t, pending, phantom, renewal>>

\* Receiver.reRegister(e): an earlier time is kept; a time within the margin is no alarm.
ReRegister(th, e) ==
  /\ Does(th, "alarm", e)
  /\ Then(th, <<>>)
  /\ \/ expire_time /\ e > 0 /\ UNCHANGED renewal
     \/ expire_time' = (e > 0) /\ alarm' = (e > Margin)
  /\ UNCHANGED <<agent, lock, calls>>

--------------------------------------------------------------------------------

Run(th) ==
  \/ \E k \in Kind : Enter(th, k) \/ Begin(th, k)
  \/ SendRequest(th) \/ Acquire(th) \/ Succeeded(th) \/ Failed(th)
  \/ \E e \in Expires \cup {Retry} : ReRegister(th, e)

Over(x) == (\E e \in Expires : OnSuccess(x, e)) \/ OnChallenge(x) \/ OnFailure(x) \/ OnTimeout(x)

Next ==
  \/ EngineRegister \/ RegisterMore \/ Expire
  \/ \E th \in Thread : Run(th)
  \/ \E x \in Transaction : Over(x)

Spec == Init /\ [][Next]_vars

\* A thread goes on, and a transaction without an answer times out.
Fairness ==
  /\ \A th \in Thread : WF_vars(Run(th))
  /\ \A x \in Transaction : WF_vars(OnTimeout(x))

FairSpec == Spec /\ Fairness

--------------------------------------------------------------------------------
(* Properties. *)

\* The frames of all stacks that are to do op.
Waiting(op) == {p \in UNION {{th} \X DOMAIN stack[th] : th \in Thread} : stack[p[1]][p[2]].op = op}

\* CurrentState says REGISTERING or DEREGISTERING only while a transaction, or a thread
\* about to start one, will change that (RegisterAgent.java:198,218,450,620).
InProgressIsBacked == CurrentState \in InProgress => pending # {} \/ Waiting("request") # {}

\* Every transaction has its acquisition of the wake lock, done or due, to the end of its
\* callback, but for two races: a transaction that ends before the engine has acquired the
\* lock leaves one that is never released, and a register() that ends a transaction which is
\* already over releases one too many (SipdroidEngine.java:307,417, RegisterAgent.java:214).
LockBalance ==
  Cardinality(pending) + Cardinality(Waiting("request")) + Cardinality(Waiting("succeeded"))
    + Cardinality(Waiting("failed")) + unlocked
  = wl + Cardinality(Waiting("acquire")) + phantom

\* RegisterAgent.java:179, of REGISTERED and REGISTERING: "Whether it is periodically
\* registering.": what is registered is renewed by an alarm, set or about to be set.
RegisteredIsRenewed == CurrentState = "REGISTERED" => alarm \/ Waiting("alarm") # {}

\* A registration, or its removal, comes to an end.
EventuallySettled == (CurrentState \in InProgress) ~> (CurrentState \notin InProgress)
================================================================================
