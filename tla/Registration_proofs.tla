-------------------------- MODULE Registration_proofs --------------------------
(***************************************************************************)
(* The registration for any set of transactions, any times the registrar   *)
(* grants and any number of calls of register.                             *)
(***************************************************************************)
EXTENDS Registration, SequenceTheorems, FiniteSetTheorems, TLAPS

\* Some thread has yet to do op.
Due(op) == \E th \in Thread : \E i \in DOMAIN stack[th] : stack[th][i].op = op

\* It is among the frames that wait for op.
LEMMA DueIsWaiting == ASSUME NEW op PROVE Due(op) <=> Waiting(op) # {}
  <1> DEFINE All == UNION {{th} \X DOMAIN stack[th] : th \in Thread}
  <1>1. \A th \in Thread : \A i \in DOMAIN stack[th] : <<th, i>> \in All
    OBVIOUS
  <1>2. \A p \in All : p[1] \in Thread /\ p[2] \in DOMAIN stack[p[1]]
    OBVIOUS
  <1>3. ASSUME Due(op) PROVE Waiting(op) # {}
    <2>1. PICK th \in Thread : \E i \in DOMAIN stack[th] : stack[th][i].op = op
      BY <1>3 DEF Due
    <2>2. PICK i \in DOMAIN stack[th] : stack[th][i].op = op
      BY <2>1
    <2>3. <<th, i>> \in All /\ <<th, i>>[1] = th /\ <<th, i>>[2] = i
      BY <1>1
    <2> QED
      BY <2>2, <2>3 DEF Waiting
  <1> QED
    BY <1>2, <1>3 DEF Due, Waiting

\* The frames of f ask for op.
Asks(f, op) == \E i \in DOMAIN f : f[i].op = op

--------------------------------------------------------------------------------
(* What a step does to the stacks. *)

\* A thread that does the top of its stack and has "more" to do first: whatever else was
\* due is still due, and so is all of "more".
LEMMA ThenKeeps ==
  ASSUME stack \in [Thread -> Seq(Frame)], NEW th \in Thread, NEW done, NEW arg,
         Does(th, done, arg), NEW more \in Seq(Frame), Then(th, more), NEW op
  PROVE  /\ stack' \in [Thread -> Seq(Frame)]
         /\ Due(op) /\ op # done => Due(op)'
         /\ Asks(more, op) => Due(op)'
  <1> DEFINE s == stack[th]
  <1>1. s \in Seq(Frame) /\ s # <<>> /\ s[1].op = done
    BY DEF Does, Do
  <1>2. Tail(s) \in Seq(Frame) /\ Len(Tail(s)) = Len(s) - 1
        /\ \A i \in 1..Len(s) - 1 : Tail(s)[i] = s[i + 1]
    BY <1>1
  <1>3. stack' = [stack EXCEPT ![th] = more \o Tail(s)]
    BY DEF Then
  <1>4. more \o Tail(s) \in Seq(Frame)
    BY <1>2
  <1>5. \A i \in 1..Len(more) : (more \o Tail(s))[i] = more[i]
    BY <1>2
  <1>6. \A i \in 1..Len(s) - 1 : (more \o Tail(s))[Len(more) + i] = s[i + 1]
    BY <1>2
  <1>7. Len(more \o Tail(s)) = Len(more) + Len(s) - 1 /\ Len(more) \in Nat /\ Len(s) \in Nat
    BY <1>1, <1>2
  <1>8. Asks(more, op) => Due(op)'
    <2> SUFFICES ASSUME NEW i \in DOMAIN more, more[i].op = op PROVE Due(op)'
      BY DEF Asks
    <2>1. stack'[th] = more \o Tail(s) /\ i \in 1..Len(more)
      BY <1>3
    <2>2. i \in DOMAIN (more \o Tail(s)) /\ (more \o Tail(s))[i] = more[i]
      BY <1>1, <1>4, <1>5, <1>7, <2>1
    <2> QED
      BY <2>1, <2>2 DEF Due
  <1>9. ASSUME Due(op), op # done PROVE Due(op)'
    <2>0. PICK u \in Thread : \E i \in DOMAIN stack[u] : stack[u][i].op = op
      BY <1>9 DEF Due
    <2>1. PICK i \in DOMAIN stack[u] : stack[u][i].op = op
      BY <2>0
    <2>2. CASE u # th
      BY <1>3, <2>1, <2>2 DEF Due
    <2>3. CASE u = th
      <3>1. i \in 2..Len(s)
        BY <1>1, <1>9, <2>1, <2>3
      <3>2. (more \o Tail(s))[Len(more) + (i - 1)] = s[i]
        BY <1>6, <1>7, <3>1
      <3>3. Len(more) + (i - 1) \in DOMAIN (more \o Tail(s))
        BY <1>4, <1>7, <3>1
      <3>4. stack'[th] = more \o Tail(s)
        BY <1>3
      <3> QED
        BY <2>1, <2>3, <3>2, <3>3, <3>4 DEF Due
    <2> QED
      BY <2>2, <2>3
  <1> QED
    BY <1>3, <1>4, <1>8, <1>9

\* A thread that was idle begins.
LEMMA StartsKeeps ==
  ASSUME stack \in [Thread -> Seq(Frame)], NEW th \in Thread, NEW more \in Seq(Frame),
         Starts(th, more), NEW op
  PROVE  /\ stack' \in [Thread -> Seq(Frame)]
         /\ Due(op) => Due(op)'
         /\ Asks(more, op) => Due(op)'
  <1>1. stack[th] = <<>> /\ stack' = [stack EXCEPT ![th] = more]
    BY DEF Starts, Idle
  <1> QED
    BY <1>1 DEF Due, Asks

\* The frames that the steps put on a stack.
LEMMA Frames ==
  /\ \A k \in Kind : Do("enter", k) \in Frame /\ Do("begin", k) \in Frame
  /\ \A op \in {"request", "acquire", "failed", "succeeded"} : Do(op, 0) \in Frame
  /\ \A e \in Expires \cup {Retry} : Do("alarm", e) \in Frame
  BY DEF Frame


\* What a step other than the sending of a request, or the setting of an alarm, does to the stacks.
Keeps(op) == stack' \in [Thread -> Seq(Frame)] /\ (Due(op) => Due(op)')

\* A call from outside keeps what is due.
LEMMA OutsideKeeps ==
  ASSUME TypeOK, NEW op, EngineRegister \/ RegisterMore \/ Expire PROVE Keeps(op)
  <1>1. PICK k \in Kind : Starts("main", <<Do("enter", k)>>)
    BY DEF EngineRegister, RegisterMore, Expire, Kind
  <1>2. <<Do("enter", k)>> \in Seq(Frame)
    BY Frames
  <1> QED
    BY <1>1, <1>2, StartsKeeps DEF TypeOK, Keeps, Thread

\* What remains to be done after a rollback is made of frames.
LEMMA RollbackFrames == AfterRollback \in Seq(Frame)
  <1>1. /\ Do("failed", 0) \in Frame /\ Do("alarm", Retry) \in Frame
        /\ Do("succeeded", 0) \in Frame
    BY Frames
  <1> QED
    BY <1>1 DEF AfterRollback

\* So does entering register(), ...
LEMMA EnterKeeps ==
  ASSUME TypeOK, NEW op, op # "enter", NEW th \in Thread, NEW k \in Kind, Enter(th, k)
  PROVE  Keeps(op)
  <1>1. Does(th, "enter", k)
    BY DEF Enter
  <1>2. PICK more \in Seq(Frame) : Then(th, more)
    <2>1. <<Do("begin", k)>> \in Seq(Frame)
      BY Frames
    <2>2. AfterRollback \o <<Do("begin", k)>> \in Seq(Frame)
      BY <2>1, RollbackFrames
    <2> QED
      BY <2>1, <2>2 DEF Enter
  <1> QED
    BY <1>1, <1>2, ThenKeeps DEF TypeOK, Keeps

\* ... beginning, which makes a request due if CurrentState changes, ...
LEMMA BeginKeeps ==
  ASSUME TypeOK, NEW op, op # "begin", NEW th \in Thread, NEW k \in Kind, Begin(th, k)
  PROVE  Keeps(op) /\ (CurrentState' # CurrentState => Due("request")')
  <1>1. Does(th, "begin", k)
    BY DEF Begin
  <1> DEFINE ask == <<Do("request", 0), Do("acquire", 0)>>
  <1>2. ask \in Seq(Frame) /\ <<>> \in Seq(Frame)
    BY Frames
  <1>3. Asks(ask, "request")
    <2>1. 1 \in DOMAIN ask /\ ask[1].op = "request"
      BY DEF Do
    <2> QED
      BY <2>1 DEF Asks
  <1> HIDE DEF ask
  <1>4. CASE Then(th, ask)
    BY <1>1, <1>2, <1>3, <1>4, ThenKeeps DEF TypeOK, Keeps
  <1>5. CASE Then(th, <<>>) /\ UNCHANGED CurrentState
    BY <1>1, <1>2, <1>5, ThenKeeps DEF TypeOK, Keeps
  <1> QED
    BY <1>4, <1>5 DEF Begin, ask

\* ... doing something else and nothing first, ...
LEMMA PopKeeps ==
  ASSUME TypeOK, NEW op, NEW th \in Thread, NEW done, NEW arg, done # op, Does(th, done, arg),
         Then(th, <<>>)
  PROVE  Keeps(op)
  <1>1. <<>> \in Seq(Frame)
    OBVIOUS
  <1> QED
    BY <1>1, ThenKeeps DEF TypeOK, Keeps

\* ... hearing of a failure, ...
LEMMA FailedKeeps ==
  ASSUME TypeOK, NEW op, op # "failed", NEW th \in Thread, Failed(th) PROVE Keeps(op)
  <1>1. Does(th, "failed", 0)
    BY DEF Failed
  <1>2. PICK more \in Seq(Frame) : Then(th, more)
    <2>1. \A k \in Kind : <<Do("enter", k)>> \in Seq(Frame)
      BY Frames
    <2>2. <<>> \in Seq(Frame)
      OBVIOUS
    <2> QED
      BY <2>1, <2>2 DEF Failed
  <1> QED
    BY <1>1, <1>2, ThenKeeps DEF TypeOK, Keeps

\* ... a 2xx, which makes the alarm due, ...
LEMMA SuccessKeeps ==
  ASSUME TypeOK, NEW op, NEW x \in Transaction, NEW e \in Expires, OnSuccess(x, e)
  PROVE  Keeps(op) /\ (CurrentState' = "REGISTERED" => Due("alarm")')
  <1> DEFINE told == <<Do("succeeded", 0), Do("alarm", e)>>
  <1>1. told \in Seq(Frame) /\ <<Do("succeeded", 0)>> \in Seq(Frame)
    BY Frames
  <1>2. Asks(told, "alarm")
    <2>1. 2 \in DOMAIN told /\ told[2].op = "alarm"
      BY DEF Do
    <2> QED
      BY <2>1 DEF Asks
  <1> HIDE DEF told
  <1>3. "receive" \in Thread
    BY DEF Thread
  <1>4. CASE Starts("receive", told)
    BY <1>1, <1>2, <1>3, <1>4, StartsKeeps DEF TypeOK, Keeps
  <1>5. CASE Starts("receive", <<Do("succeeded", 0)>>) /\ CurrentState' = "UNREGISTERED"
    BY <1>1, <1>3, <1>5, StartsKeeps DEF TypeOK, Keeps
  <1> QED
    BY <1>4, <1>5 DEF OnSuccess, told

\* ... and a refusal or a timeout.
LEMMA FailureKeeps ==
  ASSUME TypeOK, NEW op, NEW x \in Transaction, OnFailure(x) \/ OnTimeout(x) PROVE Keeps(op)
  <1>1. PICK th \in Thread, more \in Seq(Frame) : Starts(th, more)
    <2>1. <<Do("failed", 0), Do("alarm", Retry)>> \in Seq(Frame)
      BY Frames
    <2>2. <<Do("succeeded", 0)>> \in Seq(Frame)
      BY Frames
    <2>3. "receive" \in Thread /\ "timer" \in Thread
      BY DEF Thread
    <2> QED
      BY <2>1, <2>2, <2>3, RollbackFrames DEF OnFailure, OnTimeout
  <1> QED
    BY <1>1, StartsKeeps DEF TypeOK, Keeps

--------------------------------------------------------------------------------

\* A registration in progress has a transaction, or a thread about to start one.
Backed == CurrentState \in InProgress => pending # {} \/ Due("request")

\* "t" refers to the new transaction alone.
LEMMA NewIsOne ==
  ASSUME NEW over, pending \subseteq Transaction, NewTransaction(over)
  PROVE  t' \subseteq Transaction /\ Cardinality(t') <= 1 /\ pending' \subseteq Transaction
  <1>1. PICK x \in Transaction : t' = {x} /\ pending' = (pending \ over) \cup {x}
    BY DEF NewTransaction
  <1>2. Cardinality({x}) = 1
    BY FS_Singleton
  <1>3. Cardinality(t') <= 1
    BY <1>1, <1>2
  <1> QED
    BY <1>1, <1>3

\* Every step keeps the types.
LEMMA TypeStep == TypeOK /\ [Next]_vars => TypeOK'
  <1> SUFFICES ASSUME TypeOK, [Next]_vars PROVE TypeOK'
    OBVIOUS
  <1> USE DEF State, lock, renewal, agent
  <1>1. CASE EngineRegister \/ RegisterMore \/ Expire
    <2>1. Keeps("alarm")
      BY <1>1, OutsideKeeps
    <2>2. alarm' \in BOOLEAN /\ expire_time' \in BOOLEAN
      BY <1>1, Zenon DEF TypeOK, EngineRegister, RegisterMore, Expire
    <2>3. calls' \in 0..MaxCalls
      BY <1>1, MaxCallsAssumption DEF TypeOK, EngineRegister, RegisterMore, Expire
    <2>4. CurrentState' \in State /\ UNCHANGED <<attempts, t, pending, lock>>
      BY <1>1 DEF TypeOK, EngineRegister, RegisterMore, Expire
    <2> QED
      BY <2>1, <2>2, <2>3, <2>4 DEF TypeOK, Keeps
  <1>2. ASSUME NEW th \in Thread, NEW k \in Kind, Enter(th, k) PROVE TypeOK'
    <2>1. Keeps("alarm")
      BY <1>2, EnterKeeps
    <2> QED
      BY <1>2, <2>1 DEF TypeOK, Enter, Rollback, MAX_ATTEMPTS, Keeps
  <1>3. ASSUME NEW th \in Thread, NEW k \in Kind, Begin(th, k) PROVE TypeOK'
    <2>1. Keeps("alarm")
      BY <1>3, BeginKeeps
    <2> QED
      BY <1>3, <2>1 DEF TypeOK, Begin, Keeps
  <1>4. ASSUME NEW th \in Thread, SendRequest(th) PROVE TypeOK'
    <2>1. Keeps("alarm")
      BY <1>4, PopKeeps DEF SendRequest
    <2>2. NewTransaction({})
      BY <1>4 DEF SendRequest
    <2>3. t' \subseteq Transaction /\ Cardinality(t') <= 1 /\ pending' \subseteq Transaction
      BY <2>2, NewIsOne DEF TypeOK
    <2> QED
      BY <1>4, <2>1, <2>3 DEF TypeOK, SendRequest, Keeps
  <1>5. ASSUME NEW th \in Thread, Acquire(th) \/ Succeeded(th) PROVE TypeOK'
    <2>1. Keeps("alarm")
      BY <1>5, PopKeeps DEF Acquire, Succeeded
    <2> QED
      BY <1>5, <2>1 DEF TypeOK, Acquire, Succeeded, Release, Keeps
  <1>6. ASSUME NEW th \in Thread, Failed(th) PROVE TypeOK'
    <2>1. Keeps("alarm")
      BY <1>6, FailedKeeps
    <2>2. calls' \in 0..MaxCalls
      BY <1>6, MaxCallsAssumption DEF TypeOK, Failed
    <2>3. CurrentState' \in State /\ UNCHANGED <<attempts, t, pending, phantom, renewal>>
      BY <1>6 DEF TypeOK, Failed
    <2>4. wl' \in Nat /\ unlocked' \in Nat
      BY <1>6 DEF TypeOK, Failed, Release
    <2> QED
      BY <2>1, <2>2, <2>3, <2>4 DEF TypeOK, Keeps
  <1>7. ASSUME NEW th \in Thread, NEW e \in Expires \cup {Retry}, ReRegister(th, e) PROVE TypeOK'
    <2>1. Keeps("request")
      BY <1>7, PopKeeps DEF ReRegister
    <2>0. (e > 0) \in BOOLEAN /\ (e > Margin) \in BOOLEAN
      OBVIOUS
    <2>2. alarm' \in BOOLEAN /\ expire_time' \in BOOLEAN
      BY <1>7, <2>0, Zenon DEF TypeOK, ReRegister
    <2>3. UNCHANGED <<agent, lock, calls>>
      BY <1>7 DEF ReRegister
    <2> QED
      BY <2>1, <2>2, <2>3 DEF TypeOK, Keeps
  <1>8. ASSUME NEW x \in Transaction, NEW e \in Expires, OnSuccess(x, e) PROVE TypeOK'
    <2>1. Keeps("alarm")
      BY <1>8, SuccessKeeps
    <2> QED
      BY <1>8, <2>1 DEF TypeOK, OnSuccess, Keeps
  <1>9. ASSUME NEW x \in Transaction, OnChallenge(x) PROVE TypeOK'
    <2>1. NewTransaction({x})
      BY <1>9 DEF OnChallenge
    <2>2. t' \subseteq Transaction /\ Cardinality(t') <= 1 /\ pending' \subseteq Transaction
      BY <2>1, NewIsOne DEF TypeOK
    <2> QED
      BY <1>9, <2>2 DEF TypeOK, OnChallenge, MAX_ATTEMPTS
  <1>10. ASSUME NEW x \in Transaction, OnFailure(x) \/ OnTimeout(x) PROVE TypeOK'
    <2>1. Keeps("alarm")
      BY <1>10, FailureKeeps
    <2> QED
      BY <1>10, <2>1 DEF TypeOK, OnFailure, OnTimeout, Rollback, MAX_ATTEMPTS, Keeps
  <1>11. CASE UNCHANGED vars
    BY <1>11 DEF TypeOK, vars
  <1> QED
    BY <1>1, <1>2, <1>3, <1>4, <1>5, <1>6, <1>7, <1>8, <1>9, <1>10, <1>11 DEF Next, Run, Over

\* Every step keeps a registration in progress backed.
LEMMA BackedStep == TypeOK /\ Backed /\ [Next]_vars => Backed'
  <1> SUFFICES ASSUME TypeOK, Backed, [Next]_vars PROVE Backed'
    OBVIOUS
  <1> USE DEF Backed, InProgress, agent
  <1>1. CASE EngineRegister \/ RegisterMore \/ Expire
    BY <1>1, OutsideKeeps DEF Keeps, EngineRegister, RegisterMore, Expire
  <1>2. ASSUME NEW th \in Thread, NEW k \in Kind, Enter(th, k) PROVE Backed'
    <2>1. Due("request") => Due("request")'
      BY <1>2, EnterKeeps DEF Keeps
    <2> QED
      BY <1>2, <2>1 DEF Enter, Rollback
  <1>3. ASSUME NEW th \in Thread, NEW k \in Kind, Begin(th, k) PROVE Backed'
    <2>1. (Due("request") => Due("request")') /\ (CurrentState' # CurrentState => Due("request")')
      BY <1>3, BeginKeeps DEF Keeps
    <2> QED
      BY <1>3, <2>1 DEF Begin
  <1>4. CASE (\E th \in Thread : SendRequest(th)) \/ (\E x \in Transaction : OnChallenge(x))
    <2>1. pending' # {}
      BY <1>4 DEF SendRequest, OnChallenge, NewTransaction
    <2> QED
      BY <2>1
  <1>5. ASSUME NEW th \in Thread, Acquire(th) \/ Succeeded(th) PROVE Backed'
    <2>1. Due("request") => Due("request")'
      BY <1>5, PopKeeps DEF Keeps, Acquire, Succeeded
    <2> QED
      BY <1>5, <2>1 DEF Acquire, Succeeded
  <1>6. ASSUME NEW th \in Thread, Failed(th) PROVE Backed'
    <2>1. Due("request") => Due("request")'
      BY <1>6, FailedKeeps DEF Keeps
    <2> QED
      BY <1>6, <2>1 DEF Failed
  <1>7. ASSUME NEW th \in Thread, NEW e \in Expires \cup {Retry}, ReRegister(th, e) PROVE Backed'
    <2>1. Due("request") => Due("request")'
      BY <1>7, PopKeeps DEF Keeps, ReRegister
    <2> QED
      BY <1>7, <2>1 DEF ReRegister
  <1>8. ASSUME NEW x \in Transaction,
               (\E e \in Expires : OnSuccess(x, e)) \/ OnFailure(x) \/ OnTimeout(x)
        PROVE  CurrentState' \notin InProgress
    BY <1>8 DEF OnSuccess, OnFailure, OnTimeout, Rollback
  <1>9. CASE UNCHANGED vars
    BY <1>9 DEF vars, Due
  <1> QED
    BY <1>1, <1>2, <1>3, <1>4, <1>5, <1>6, <1>7, <1>8, <1>9 DEF Next, Run, Over

\* Both hold in every state.
LEMMA Invariance == Spec => [](TypeOK /\ Backed)
  <1>1. Init => TypeOK /\ Backed
    <2> SUFFICES ASSUME Init PROVE TypeOK /\ Backed
      OBVIOUS
    <2>1. <<>> \in Seq(Frame)
      OBVIOUS
    <2>2. stack \in [Thread -> Seq(Frame)]
      BY <2>1 DEF Init
    <2>3. Cardinality({}) = 0
      BY FS_EmptySet
    <2>4. t \subseteq Transaction /\ Cardinality(t) <= 1
      BY <2>3 DEF Init
    <2>5. alarm \in BOOLEAN /\ expire_time \in BOOLEAN
      BY Zenon DEF Init
    <2>6. attempts \in 0..MAX_ATTEMPTS /\ calls \in 0..MaxCalls
      BY MaxCallsAssumption DEF Init, MAX_ATTEMPTS
    <2>7. CurrentState \in State \ InProgress /\ pending \subseteq Transaction
      BY DEF Init, State, InProgress
    <2>8. wl \in Nat /\ unlocked \in Nat /\ phantom \in Nat
      BY DEF Init
    <2> QED
      BY <2>2, <2>4, <2>5, <2>6, <2>7, <2>8 DEF TypeOK, Backed
  <1>2. TypeOK /\ Backed /\ [Next]_vars => (TypeOK /\ Backed)'
    BY TypeStep, BackedStep
  <1> QED
    BY <1>1, <1>2, PTL DEF Spec

--------------------------------------------------------------------------------
(* Renewal, as long as the registrar grants more than the margin. *)

Long == \A e \in Expires : e > Margin

\* An alarm whose time is remembered is set; what is registered has one, or will have.
Renewed == /\ expire_time => alarm
           /\ CurrentState = "REGISTERED" => alarm \/ Due("alarm")

\* Every step keeps what is registered renewed.
LEMMA RenewedStep == ASSUME Long, TypeOK, Renewed, [Next]_vars PROVE Renewed'
  <1> USE DEF Renewed, agent, renewal
  <1>1. CASE EngineRegister \/ RegisterMore \/ Expire
    <2>1. Due("alarm") => Due("alarm")'
      BY <1>1, OutsideKeeps DEF Keeps
    <2>2. CASE EngineRegister \/ RegisterMore
      BY <2>1, <2>2 DEF EngineRegister, RegisterMore
    <2>3. CASE Expire
      BY <2>3 DEF Expire
    <2> QED
      BY <1>1, <2>2, <2>3
  <1>2. ASSUME NEW th \in Thread, NEW k \in Kind, Enter(th, k) PROVE Renewed'
    <2>1. Due("alarm") => Due("alarm")'
      BY <1>2, EnterKeeps DEF Keeps
    <2> QED
      BY <1>2, <2>1 DEF Enter, Rollback
  <1>3. ASSUME NEW th \in Thread, NEW k \in Kind, Begin(th, k) PROVE Renewed'
    <2>1. Due("alarm") => Due("alarm")'
      BY <1>3, BeginKeeps DEF Keeps
    <2> QED
      BY <1>3, <2>1 DEF Begin
  <1>4. ASSUME NEW th \in Thread, SendRequest(th) \/ Acquire(th) \/ Succeeded(th) PROVE Renewed'
    <2>1. Due("alarm") => Due("alarm")'
      BY <1>4, PopKeeps DEF Keeps, SendRequest, Acquire, Succeeded
    <2> QED
      BY <1>4, <2>1 DEF SendRequest, Acquire, Succeeded
  <1>5. ASSUME NEW th \in Thread, Failed(th) PROVE Renewed'
    <2>1. Due("alarm") => Due("alarm")'
      BY <1>5, FailedKeeps DEF Keeps
    <2> QED
      BY <1>5, <2>1 DEF Failed
  <1>6. ASSUME NEW th \in Thread, NEW e \in Expires \cup {Retry}, ReRegister(th, e) PROVE Renewed'
    <2>1. e > Margin /\ e > 0
      BY ExpiresAssumption DEF Long, Margin, Retry
    <2>2. CASE expire_time /\ UNCHANGED renewal
      BY <2>2, Zenon
    <2>3. CASE expire_time' = (e > 0) /\ alarm' = (e > Margin)
      <3>1. alarm'
        BY <2>1, <2>3
      <3> QED
        BY <3>1
    <2> QED
      BY <1>6, <2>2, <2>3 DEF ReRegister
  <1>7. ASSUME NEW x \in Transaction, NEW e \in Expires, OnSuccess(x, e) PROVE Renewed'
    BY <1>7, SuccessKeeps DEF OnSuccess
  <1>8. ASSUME NEW x \in Transaction, OnFailure(x) \/ OnTimeout(x) PROVE Renewed'
    BY <1>8 DEF OnFailure, OnTimeout, Rollback
  <1>9. CASE (\E x \in Transaction : OnChallenge(x)) \/ UNCHANGED vars
    <2>1. UNCHANGED <<CurrentState, stack, renewal>>
      BY <1>9 DEF OnChallenge, vars
    <2> QED
      BY <2>1 DEF Due
  <1> QED
    BY <1>1, <1>2, <1>3, <1>4, <1>5, <1>6, <1>7, <1>8, <1>9 DEF Next, Run, Over

--------------------------------------------------------------------------------

\* Every variable keeps its type; in particular no more than MAX_ATTEMPTS challenges are
\* answered, whatever the threads do to the count in between.
THEOREM TypeCorrect == Spec => []TypeOK
  BY Invariance, PTL

\* REGISTERING and DEREGISTERING never last with nothing under way to end them
\* (RegisterAgent.java:198,218,450,620), for any number of transactions and calls.
THEOREM ProgressBacked == Spec => []InProgressIsBacked
  <1>1. Backed => InProgressIsBacked
    BY DueIsWaiting DEF Backed, InProgressIsBacked
  <1> QED
    BY <1>1, Invariance, PTL

\* What is registered is renewed, if the registrar never grants as little as the margin
\* (Receiver.java:558).
THEOREM RegistrationRenewed == Long => (Spec => []RegisteredIsRenewed)
  <1> SUFFICES ASSUME Long PROVE Spec => []RegisteredIsRenewed
    OBVIOUS
  <1>1. Init => Renewed
    BY DEF Init, Renewed
  <1>2. TypeOK /\ Renewed /\ [Next]_vars => Renewed'
    BY RenewedStep
  <1>3. Renewed => RegisteredIsRenewed
    BY DueIsWaiting DEF Renewed, RegisteredIsRenewed
  <1> QED
    BY <1>1, <1>2, <1>3, Invariance, PTL DEF Spec

--------------------------------------------------------------------------------
(* How many frames ask for op: counting what a step does to the stacks. *)

At(f, op) == {i \in DOMAIN f : f[i].op = op}
Count(f, op) == Cardinality(At(f, op))
One(o, op) == IF o = op THEN 1 ELSE 0

\* A sequence asks a finite number of times.
LEMMA CountType ==
  ASSUME NEW f \in Seq(Frame), NEW op
  PROVE  IsFiniteSet(At(f, op)) /\ Count(f, op) \in Nat
  <1>1. IsFiniteSet(DOMAIN f)
    BY FS_Interval
  <1> QED
    BY <1>1, FS_Subset, FS_CardinalityType DEF At, Count

\* A frame asks once or not at all; nothing asks for nothing.
LEMMA CountBase ==
  ASSUME NEW op
  PROVE  Count(<<>>, op) = 0 /\ \A fr \in Frame : Count(<<fr>>, op) = One(fr.op, op)
  <1>1. At(<<>>, op) = {}
    BY DEF At
  <1>2. ASSUME NEW fr \in Frame PROVE At(<<fr>>, op) = IF fr.op = op THEN {1} ELSE {}
    BY DEF At
  <1>3. Cardinality({}) = 0 /\ Cardinality({1}) = 1
    BY FS_EmptySet, FS_Singleton
  <1> QED
    BY <1>1, <1>2, <1>3 DEF Count, One

\* Moving a set of numbers up does not change how many they are.
LEMMA Shifted ==
  ASSUME NEW S \in SUBSET Nat, IsFiniteSet(S), NEW k \in Nat
  PROVE  LET T == {k + i : i \in S} IN IsFiniteSet(T) /\ Cardinality(T) = Cardinality(S)
  <1> DEFINE T == {k + i : i \in S}
             g == [i \in S |-> k + i]
  <1>1. g \in [S -> T] /\ \A x \in S : g[x] = k + x
    OBVIOUS
  <1>5. \A x \in S : \A y \in S : k + x = k + y => x = y
    OBVIOUS
  <1>2. \A y \in T : \E x \in S : g[x] = y
    OBVIOUS
  <1>3. g \in Bijection(S, T)
    BY <1>1, <1>2, <1>5 DEF Bijection, Injection, Surjection, IsInjective
  <1>4. ExistsBijection(S, T)
    BY <1>3 DEF ExistsBijection
  <1> QED
    BY <1>4, FS_Bijection

\* Finite sets that have nothing in common are counted apart.
LEMMA Apart ==
  ASSUME NEW S, NEW T, IsFiniteSet(S), IsFiniteSet(T), S \cap T = {}
  PROVE  IsFiniteSet(S \cup T) /\ Cardinality(S \cup T) = Cardinality(S) + Cardinality(T)
  <1>1. Cardinality(S \cap T) = 0
    BY FS_EmptySet
  <1>2. IsFiniteSet(S \cup T)
        /\ Cardinality(S \cup T) = Cardinality(S) + Cardinality(T) - Cardinality(S \cap T)
    BY FS_Union
  <1>3. Cardinality(S) \in Nat /\ Cardinality(T) \in Nat
    BY FS_CardinalityType
  <1> QED
    BY <1>1, <1>2, <1>3

\* Sequences put together ask as often as they do apart.
LEMMA CountConcat ==
  ASSUME NEW f \in Seq(Frame), NEW g \in Seq(Frame), NEW op
  PROVE  Count(f \o g, op) = Count(f, op) + Count(g, op)
  <1> DEFINE T == {Len(f) + i : i \in At(g, op)}
  <1>1. /\ f \o g \in Seq(Frame) /\ Len(f \o g) = Len(f) + Len(g)
        /\ \A i \in 1..Len(f) + Len(g) : (f \o g)[i] = IF i <= Len(f) THEN f[i] ELSE g[i - Len(f)]
    BY ConcatProperties
  <1>2. Len(f) \in Nat /\ Len(g) \in Nat
    OBVIOUS
  <1>3. At(f \o g, op) = At(f, op) \cup T
    <2>1. ASSUME NEW i \in At(f \o g, op) PROVE i \in At(f, op) \cup T
      <3>1. i \in 1..Len(f) + Len(g) /\ (f \o g)[i].op = op
        BY <1>1, <1>2 DEF At
      <3>2. CASE i <= Len(f)
        BY <1>1, <1>2, <3>1, <3>2 DEF At
      <3>3. CASE i > Len(f)
        <4>1. i - Len(f) \in 1..Len(g) /\ i = Len(f) + (i - Len(f))
          BY <1>2, <3>1, <3>3
        <4>2. i - Len(f) \in At(g, op)
          BY <1>1, <1>2, <3>1, <3>3, <4>1 DEF At
        <4> QED
          BY <4>1, <4>2
      <3> QED
        BY <1>2, <3>1, <3>2, <3>3
    <2>2. ASSUME NEW i \in At(f, op) PROVE i \in At(f \o g, op)
      BY <1>1, <1>2 DEF At
    <2>3. ASSUME NEW j \in At(g, op) PROVE Len(f) + j \in At(f \o g, op)
      <3>1. j \in 1..Len(g) /\ g[j].op = op
        BY DEF At
      <3>2. /\ Len(f) + j \in 1..Len(f) + Len(g) /\ ~(Len(f) + j <= Len(f))
            /\ (Len(f) + j) - Len(f) = j
        BY <1>2, <3>1
      <3>3. (f \o g)[Len(f) + j] = g[j]
        BY <1>1, <3>2
      <3> QED
        BY <1>1, <1>2, <3>1, <3>2, <3>3 DEF At
    <2> QED
      BY <2>1, <2>2, <2>3
  <1>4. At(f, op) \cap T = {}
    BY <1>2 DEF At
  <1>5. IsFiniteSet(At(f, op)) /\ IsFiniteSet(At(g, op)) /\ At(g, op) \subseteq Nat
    <2>1. At(g, op) \subseteq Nat
      BY DEF At
    <2> QED
      BY <2>1, CountType
  <1>6. IsFiniteSet(T) /\ Cardinality(T) = Count(g, op)
    BY <1>2, <1>5, Shifted DEF Count
  <1> HIDE DEF T
  <1>7. Cardinality(At(f, op) \cup T) = Cardinality(At(f, op)) + Cardinality(T)
    BY <1>4, <1>5, <1>6, Apart
  <1> QED
    BY <1>3, <1>6, <1>7 DEF Count

\* The first frame is no longer counted when it is taken away.
LEMMA CountTail ==
  ASSUME NEW f \in Seq(Frame), f # <<>>, NEW op
  PROVE  Count(f, op) = One(Head(f).op, op) + Count(Tail(f), op)
  <1>1. Head(f) \in Frame /\ Tail(f) \in Seq(Frame) /\ f = <<Head(f)>> \o Tail(f)
    OBVIOUS
  <1>2. <<Head(f)>> \in Seq(Frame)
    BY <1>1
  <1>3. Count(f, op) = Count(<<Head(f)>>, op) + Count(Tail(f), op)
    BY <1>1, <1>2, CountConcat
  <1> QED
    BY <1>1, <1>3, CountBase

\* The positions of the stacks st at which op waits, as Waiting has them.
Places(st, op) == {p \in UNION {{th} \X DOMAIN st[th] : th \in Thread} : st[p[1]][p[2]].op = op}

\* They are those of the three threads together.
LEMMA Places3 ==
  ASSUME NEW st \in [Thread -> Seq(Frame)], NEW op
  PROVE  Cardinality(Places(st, op))
           = Count(st["main"], op) + Count(st["receive"], op) + Count(st["timer"], op)
  <1> DEFINE W(th) == {th} \X At(st[th], op)
  <1>1. ASSUME NEW th \in Thread
        PROVE  IsFiniteSet(W(th)) /\ Cardinality(W(th)) = Count(st[th], op)
               /\ Count(st[th], op) \in Nat
    <2>1. IsFiniteSet(At(st[th], op)) /\ Count(st[th], op) \in Nat
      BY CountType
    <2> DEFINE g == [i \in At(st[th], op) |-> <<th, i>>]
    <2>2. g \in Bijection(At(st[th], op), W(th))
      BY DEF Bijection, Injection, Surjection, IsInjective
    <2>3. ExistsBijection(At(st[th], op), W(th))
      BY <2>2 DEF ExistsBijection
    <2> QED
      BY <2>1, <2>3, FS_Bijection DEF Count
  <1>2. "main" \in Thread /\ "receive" \in Thread /\ "timer" \in Thread
    BY DEF Thread
  <1>3. Places(st, op) = (W("main") \cup W("receive")) \cup W("timer")
    <2>1. ASSUME NEW p \in Places(st, op) PROVE p \in (W("main") \cup W("receive")) \cup W("timer")
      <3>1. PICK th \in Thread : p \in {th} \X DOMAIN st[th]
        BY DEF Places
      <3>2. p[1] = th /\ p[2] \in DOMAIN st[th] /\ p = <<th, p[2]>> /\ st[th][p[2]].op = op
        BY <3>1 DEF Places
      <3>3. p \in W(th)
        BY <3>2 DEF At
      <3> QED
        BY <3>3 DEF Thread
    <2>2. ASSUME NEW th \in Thread, NEW p \in W(th) PROVE p \in Places(st, op)
      <3>1. p[1] = th /\ p[2] \in DOMAIN st[th] /\ st[th][p[2]].op = op
        BY DEF At
      <3>2. p \in {th} \X DOMAIN st[th]
        BY DEF At
      <3> QED
        BY <3>1, <3>2 DEF Places
    <2> QED
      BY <1>2, <2>1, <2>2
  <1>4. W("main") \cap W("receive") = {} /\ (W("main") \cup W("receive")) \cap W("timer") = {}
    OBVIOUS
  <1> DEFINE A == W("main")
             B == W("receive")
             C == W("timer")
  <1>5. /\ IsFiniteSet(A) /\ Cardinality(A) = Count(st["main"], op)
        /\ IsFiniteSet(B) /\ Cardinality(B) = Count(st["receive"], op)
        /\ IsFiniteSet(C) /\ Cardinality(C) = Count(st["timer"], op)
    BY <1>1, <1>2
  <1>6. Places(st, op) = (A \cup B) \cup C /\ A \cap B = {} /\ (A \cup B) \cap C = {}
    BY <1>3, <1>4
  <1> HIDE DEF A, B, C
  <1>7. IsFiniteSet(A \cup B) /\ Cardinality(A \cup B) = Cardinality(A) + Cardinality(B)
    BY <1>5, <1>6, Apart
  <1>8. Cardinality((A \cup B) \cup C) = Cardinality(A \cup B) + Cardinality(C)
    BY <1>5, <1>6, <1>7, Apart
  <1> QED
    BY <1>5, <1>6, <1>7, <1>8

\* How often op waits.
N(op) == Cardinality(Waiting(op))

\* A change of one stack is a change of its counts.
LEMMA OneStack ==
  ASSUME stack \in [Thread -> Seq(Frame)], NEW th \in Thread, NEW f \in Seq(Frame),
         stack' = [stack EXCEPT ![th] = f], NEW op
  PROVE  N(op) \in Nat /\ N(op)' \in Nat /\ N(op)' + Count(stack[th], op) = N(op) + Count(f, op)
  <1>1. stack' \in [Thread -> Seq(Frame)]
    OBVIOUS
  <1> DEFINE a == Count(stack["main"], op)
             b == Count(stack["receive"], op)
             c == Count(stack["timer"], op)
             a2 == Count(stack'["main"], op)
             b2 == Count(stack'["receive"], op)
             c2 == Count(stack'["timer"], op)
             d == Count(stack[th], op)
             e == Count(f, op)
  <1>2. N(op) = a + b + c
    BY Places3 DEF N, Waiting, Places
  <1>3. N(op)' = a2 + b2 + c2
    BY <1>1, Places3 DEF N, Waiting, Places
  <1>4. a \in Nat /\ b \in Nat /\ c \in Nat /\ d \in Nat /\ e \in Nat
    BY CountType DEF Thread
  <1>5. \/ a = d /\ a2 = e /\ b2 = b /\ c2 = c
        \/ b = d /\ b2 = e /\ a2 = a /\ c2 = c
        \/ c = d /\ c2 = e /\ a2 = a /\ b2 = b
    BY DEF Thread
  <1> HIDE DEF a, b, c, a2, b2, c2, d, e
  <1>6. N(op)' + d = N(op) + e /\ N(op) \in Nat /\ N(op)' \in Nat
    <2>1. CASE a = d /\ a2 = e /\ b2 = b /\ c2 = c
      BY <1>2, <1>3, <1>4, <2>1
    <2>2. CASE b = d /\ b2 = e /\ a2 = a /\ c2 = c
      BY <1>2, <1>3, <1>4, <2>2
    <2>3. CASE c = d /\ c2 = e /\ a2 = a /\ b2 = b
      BY <1>2, <1>3, <1>4, <2>3
    <2> QED
      BY <1>5, <2>1, <2>2, <2>3
  <1> QED
    BY <1>6 DEF d, e

\* The thread does the top of its stack and has "more" to do first.
LEMMA ThenCounts ==
  ASSUME TypeOK, NEW th \in Thread, NEW done, NEW arg, Does(th, done, arg),
         NEW more \in Seq(Frame), Then(th, more), NEW op
  PROVE  N(op) \in Nat /\ N(op)' \in Nat /\ N(op)' + One(done, op) = N(op) + Count(more, op)
  <1> DEFINE s == stack[th]
  <1>1. s \in Seq(Frame) /\ s # <<>> /\ Head(s).op = done
    BY DEF TypeOK, Does, Do
  <1>2. Tail(s) \in Seq(Frame) /\ more \o Tail(s) \in Seq(Frame)
    BY <1>1
  <1>3. Count(s, op) = One(done, op) + Count(Tail(s), op)
    BY <1>1, CountTail
  <1>4. Count(more \o Tail(s), op) = Count(more, op) + Count(Tail(s), op)
    BY <1>2, CountConcat
  <1>5. Count(s, op) \in Nat /\ Count(Tail(s), op) \in Nat /\ Count(more, op) \in Nat
        /\ One(done, op) \in Nat
    BY <1>1, <1>2, CountType DEF One
  <1>6. stack' = [stack EXCEPT ![th] = more \o Tail(s)]
    BY DEF Then
  <1>7. N(op) \in Nat /\ N(op)' \in Nat
        /\ N(op)' + Count(s, op) = N(op) + Count(more \o Tail(s), op)
    BY <1>2, <1>6, OneStack DEF TypeOK
  <1> HIDE DEF s
  <1> QED
    BY <1>3, <1>4, <1>5, <1>7

\* A thread that was idle begins.
LEMMA StartsCounts ==
  ASSUME TypeOK, NEW th \in Thread, NEW more \in Seq(Frame), Starts(th, more), NEW op
  PROVE  N(op) \in Nat /\ N(op)' \in Nat /\ N(op)' = N(op) + Count(more, op)
  <1>1. stack[th] = <<>> /\ stack' = [stack EXCEPT ![th] = more]
    BY DEF Starts, Idle
  <1>2. Count(stack[th], op) = 0 /\ Count(more, op) \in Nat
    BY <1>1, CountBase, CountType
  <1>3. N(op) \in Nat /\ N(op)' \in Nat /\ N(op)' + Count(stack[th], op) = N(op) + Count(more, op)
    BY <1>1, OneStack DEF TypeOK
  <1> QED
    BY <1>2, <1>3

\* What is asked for by one frame and by two.
LEMMA CountFew ==
  ASSUME NEW op
  PROVE  /\ Count(<<>>, op) = 0
         /\ \A x \in Frame : Count(<<x>>, op) = One(x.op, op)
         /\ \A x, y \in Frame : Count(<<x, y>>, op) = One(x.op, op) + One(y.op, op)
  <1>1. ASSUME NEW x \in Frame, NEW y \in Frame
        PROVE  Count(<<x, y>>, op) = One(x.op, op) + One(y.op, op)
    <2> DEFINE A == IF x.op = op THEN {1} ELSE {}
               B == IF y.op = op THEN {2} ELSE {}
    <2>1. At(<<x, y>>, op) = A \cup B
      BY DEF At
    <2>2. A \cap B = {}
      OBVIOUS
    <2>3. /\ IsFiniteSet(A) /\ Cardinality(A) = One(x.op, op)
          /\ IsFiniteSet(B) /\ Cardinality(B) = One(y.op, op)
      BY FS_EmptySet, FS_Singleton DEF One
    <2> HIDE DEF A, B
    <2> QED
      BY <2>1, <2>2, <2>3, Apart DEF Count
  <1> QED
    BY <1>1, CountBase

--------------------------------------------------------------------------------
(* The balance of the wake lock. *)

Ops == {"request", "acquire", "failed", "succeeded"}

\* The transactions can be counted, and "t" refers to one at most.
Few == IsFiniteSet(pending) /\ (t = {} \/ \E x : t = {x})

Balance ==
  Cardinality(pending) + N("request") + N("succeeded") + N("failed") + unlocked
    = wl + N("acquire") + phantom

\* The counts do not change.
Same == \A op \in Ops : N(op) \in Nat /\ N(op)' = N(op)

\* Then the balance does not change either.
LEMMA SameBalance ==
  ASSUME Balance, Same, UNCHANGED <<wl, unlocked, phantom>>,
         Cardinality(pending') = Cardinality(pending)
  PROVE  Balance'
  BY DEF Balance, Same, Ops

\* What a thread does instead of something else that is not counted.
LEMMA ThenSame ==
  ASSUME TypeOK, NEW th \in Thread, NEW done, NEW arg, Does(th, done, arg), done \notin Ops,
         NEW more \in Seq(Frame), Then(th, more), \A op \in Ops : Count(more, op) = 0
  PROVE  Same
  <1> SUFFICES ASSUME NEW op \in Ops PROVE N(op) \in Nat /\ N(op)' = N(op)
    BY DEF Same
  <1>1. N(op) \in Nat /\ N(op)' \in Nat /\ N(op)' + One(done, op) = N(op) + Count(more, op)
    BY ThenCounts
  <1>2. One(done, op) = 0 /\ Count(more, op) = 0
    BY DEF One
  <1> HIDE DEF N
  <1> QED
    BY <1>1, <1>2

\* What an idle thread begins with that is not counted.
LEMMA StartsSame ==
  ASSUME TypeOK, NEW th \in Thread, NEW more \in Seq(Frame), Starts(th, more),
         \A op \in Ops : Count(more, op) = 0
  PROVE  Same
  <1> SUFFICES ASSUME NEW op \in Ops PROVE N(op) \in Nat /\ N(op)' = N(op)
    BY DEF Same
  <1>1. N(op) \in Nat /\ N(op)' \in Nat /\ N(op)' = N(op) + Count(more, op)
    BY StartsCounts
  <1>2. Count(more, op) = 0
    OBVIOUS
  <1> QED
    BY <1>1, <1>2

\* A step from outside asks only to enter register().
LEMMA OutsideBalance ==
  ASSUME TypeOK, Balance, EngineRegister \/ RegisterMore \/ Expire PROVE Balance'
  <1>1. PICK k \in Kind : Starts("main", <<Do("enter", k)>>)
    BY DEF EngineRegister, RegisterMore, Expire, Kind
  <1>2. Do("enter", k) \in Frame /\ <<Do("enter", k)>> \in Seq(Frame) /\ "main" \in Thread
    BY Frames DEF Thread
  <1>3. \A op \in Ops : Count(<<Do("enter", k)>>, op) = 0
    BY <1>2, CountFew DEF Ops, One, Do
  <1>4. Same
    BY <1>1, <1>2, <1>3, StartsSame
  <1> QED
    BY <1>4, SameBalance DEF EngineRegister, RegisterMore, Expire, lock, agent

\* A transaction that register() ends tells the engine once; if it was over, it does so again.
LEMMA EnterBalance ==
  ASSUME TypeOK, Few, Balance, NEW th \in Thread, NEW k \in Kind, Enter(th, k) PROVE Balance'
  <1>0. /\ Do("begin", k) \in Frame /\ <<Do("begin", k)>> \in Seq(Frame)
        /\ Do("failed", 0) \in Frame /\ Do("alarm", Retry) \in Frame
        /\ Do("succeeded", 0) \in Frame /\ Does(th, "enter", k)
    BY Frames DEF Enter
  <1>1. CASE CurrentState = Opposite(k) /\ t # {}
    <2>1. Then(th, AfterRollback \o <<Do("begin", k)>>)
      BY <1>1 DEF Enter
    <2>2. AfterRollback \in Seq(Frame) /\ AfterRollback \o <<Do("begin", k)>> \in Seq(Frame)
      BY <1>0, RollbackFrames
    <2>3. ASSUME NEW op \in Ops
          PROVE  Count(AfterRollback \o <<Do("begin", k)>>, op) = Count(AfterRollback, op)
      <3>1. Count(<<Do("begin", k)>>, op) = 0
        BY <1>0, CountFew DEF Ops, One, Do
      <3>2. Count(AfterRollback, op) \in Nat
        BY <2>2, CountType
      <3> DEFINE f == AfterRollback
                 g == <<Do("begin", k)>>
      <3>3. f \in Seq(Frame) /\ g \in Seq(Frame) /\ Count(f, op) \in Nat /\ Count(g, op) = 0
        BY <1>0, <2>2, <3>1, <3>2
      <3> HIDE DEF f, g
      <3>4. Count(f \o g, op) = Count(f, op) + Count(g, op)
        BY <3>3, CountConcat
      <3>5. Count(f \o g, op) = Count(f, op)
        BY <3>3, <3>4
      <3> QED
        BY <3>5 DEF f, g
    <2>4. ASSUME NEW op \in Ops
          PROVE  N(op) \in Nat /\ N(op)' \in Nat /\ N(op)' = N(op) + Count(AfterRollback, op)
      <3> DEFINE f == AfterRollback \o <<Do("begin", k)>>
      <3>1. One("enter", op) = 0 /\ Count(f, op) = Count(AfterRollback, op)
        BY <2>3 DEF Ops, One
      <3>2. Count(AfterRollback, op) \in Nat
        BY <2>2, CountType
      <3>3. f \in Seq(Frame) /\ Then(th, f)
        BY <2>1, <2>2
      <3> HIDE DEF f
      <3>4. N(op) \in Nat /\ N(op)' \in Nat /\ N(op)' + One("enter", op) = N(op) + Count(f, op)
        BY <1>0, <3>3, ThenCounts
      <3> QED
        BY <3>1, <3>2, <3>4
    <2>5. PICK told \in {"failed", "succeeded"} :
            \A op \in Ops : Count(AfterRollback, op) = One(told, op)
      <3>1. CASE CurrentState' = "UNDEFINED"
        <4>1. \A op \in Ops : Count(<<Do("failed", 0), Do("alarm", Retry)>>, op) = One("failed", op)
          <5> DEFINE x == Do("failed", 0)
                     y == Do("alarm", Retry)
          <5>1. x \in Frame /\ y \in Frame /\ x.op = "failed" /\ y.op = "alarm"
            BY <1>0 DEF Do
          <5> HIDE DEF x, y
          <5>2. \A op \in Ops : Count(<<x, y>>, op) = One("failed", op) + One("alarm", op)
            BY <5>1, CountFew
          <5>3. \A op \in Ops : One("alarm", op) = 0 /\ One("failed", op) \in Nat
            BY DEF Ops, One
          <5>4. \A op \in Ops : Count(<<x, y>>, op) = One("failed", op)
            BY <5>2, <5>3
          <5> QED
            BY <5>4 DEF x, y
        <4> QED
          BY <3>1, <4>1 DEF AfterRollback
      <3>2. CASE CurrentState' # "UNDEFINED"
        <4>1. \A op \in Ops : Count(<<Do("succeeded", 0)>>, op) = One("succeeded", op)
          BY <1>0, CountFew DEF Ops, One, Do
        <4> QED
          BY <3>2, <4>1 DEF AfterRollback
      <3> QED
        BY <3>1, <3>2
    <2>6. /\ N("request")' = N("request") /\ N("acquire")' = N("acquire")
          /\ N("failed")' + N("succeeded")' = N("failed") + N("succeeded") + 1
          /\ N("request") \in Nat /\ N("acquire") \in Nat /\ N("failed") \in Nat
          /\ N("succeeded") \in Nat /\ N("failed")' \in Nat /\ N("succeeded")' \in Nat
      BY <2>4, <2>5 DEF Ops, One
    <2>7. PICK x : t = {x}
      BY <1>1 DEF Few
    <2>8. Cardinality(pending \ {x}) = IF x \in pending THEN Cardinality(pending) - 1
                                                       ELSE Cardinality(pending)
      BY FS_RemoveElement DEF Few
    <2>9. Cardinality(pending) \in Nat
      BY FS_CardinalityType DEF Few
    <2>10. /\ pending' = pending \ {x} /\ UNCHANGED <<wl, unlocked>>
           /\ phantom' = IF x \in pending THEN phantom ELSE phantom + 1
      BY <1>1, <2>7 DEF Enter
    <2>11. wl \in Nat /\ unlocked \in Nat /\ phantom \in Nat
      BY DEF TypeOK
    <2>12. CASE x \in pending
      BY <2>6, <2>8, <2>9, <2>10, <2>11, <2>12 DEF Balance
    <2>13. CASE x \notin pending
      BY <2>6, <2>8, <2>9, <2>10, <2>11, <2>13 DEF Balance
    <2> QED
      BY <2>12, <2>13
  <1>2. CASE ~(CurrentState = Opposite(k) /\ t # {})
    <2>1. \A op \in Ops : Count(<<Do("begin", k)>>, op) = 0
      BY <1>0, CountFew DEF Ops, One, Do
    <2>2. Then(th, <<Do("begin", k)>>)
      BY <1>2 DEF Enter
    <2>3. Same
      BY <1>0, <2>1, <2>2, ThenSame DEF Ops
    <2> QED
      BY <1>2, <2>3, SameBalance DEF Enter
  <1> QED
    BY <1>1, <1>2

\* One transaction less, and one more.
LEMMA OneLess ==
  ASSUME NEW P, IsFiniteSet(P), NEW x \in P
  PROVE  /\ IsFiniteSet(P \ {x}) /\ Cardinality(P) \in Nat /\ Cardinality(P \ {x}) \in Nat
         /\ Cardinality(P \ {x}) + 1 = Cardinality(P)
  <1>1. Cardinality(P) \in Nat
    BY FS_CardinalityType
  <1>2. IsFiniteSet(P \ {x}) /\ Cardinality(P \ {x}) = Cardinality(P) - 1
    BY FS_RemoveElement
  <1>3. Cardinality(P \ {x}) \in Nat
    BY <1>2, FS_CardinalityType
  <1> QED
    BY <1>1, <1>2, <1>3

\* A set with one element more.
LEMMA OneMore ==
  ASSUME NEW P, IsFiniteSet(P), NEW x, x \notin P
  PROVE  /\ IsFiniteSet(P \cup {x}) /\ Cardinality(P) \in Nat
         /\ Cardinality(P \cup {x}) = Cardinality(P) + 1
  BY FS_AddElement, FS_CardinalityType

\* A thread does what was counted, and nothing else.
LEMMA Pops ==
  ASSUME TypeOK, NEW th \in Thread, NEW done \in Ops, Does(th, done, 0), Then(th, <<>>)
  PROVE  /\ N(done) \in Nat /\ N(done)' \in Nat /\ N(done)' + 1 = N(done)
         /\ \A op \in Ops \ {done} : N(op) \in Nat /\ N(op)' = N(op)
  <1>1. ASSUME NEW op \in Ops
        PROVE  N(op) \in Nat /\ N(op)' \in Nat /\ N(op)' + One(done, op) = N(op) + 0
    <2>1. <<>> \in Seq(Frame) /\ Count(<<>>, op) = 0
      BY CountFew
    <2> QED
      BY <2>1, ThenCounts
  <1>2. \A op \in Ops \ {done} : One(done, op) = 0
    BY DEF One
  <1>3. One(done, done) = 1
    BY DEF One
  <1>4. N(done) \in Nat /\ N(done)' \in Nat /\ N(done)' + 1 = N(done)
    BY <1>1, <1>3
  <1>5. ASSUME NEW op \in Ops \ {done} PROVE N(op) \in Nat /\ N(op)' = N(op)
    BY <1>1, <1>2
  <1> QED
    BY <1>4, <1>5

\* The request and the acquisition become due together.
LEMMA BeginBalance ==
  ASSUME TypeOK, Few, Balance, NEW th \in Thread, NEW k \in Kind, Begin(th, k) PROVE Balance'
  <1> DEFINE x == Do("request", 0)
             y == Do("acquire", 0)
  <1>0. x \in Frame /\ y \in Frame /\ x.op = "request" /\ y.op = "acquire" /\ Does(th, "begin", k)
    BY Frames DEF Begin, Do
  <1>1. \/ Then(th, <<x, y>>)
        \/ Then(th, <<>>)
    BY DEF Begin
  <1>2. UNCHANGED <<wl, unlocked, phantom, pending>>
    BY DEF Begin, lock
  <1> HIDE DEF x, y
  <1>3. CASE Then(th, <<>>)
    <2>1. <<>> \in Seq(Frame) /\ \A op \in Ops : Count(<<>>, op) = 0
      BY CountFew
    <2>2. Same
      BY <1>0, <1>3, <2>1, ThenSame DEF Ops
    <2> QED
      BY <1>2, <2>2, SameBalance
  <1>4. CASE Then(th, <<x, y>>)
    <2>1. ASSUME NEW op \in Ops
          PROVE  N(op) \in Nat /\ N(op)' = N(op) + One("request", op) + One("acquire", op)
      <3>1. <<x, y>> \in Seq(Frame) /\ Count(<<x, y>>, op) = One("request", op) + One("acquire", op)
        BY <1>0, CountFew
      <3>2. /\ N(op) \in Nat /\ N(op)' \in Nat
            /\ N(op)' + One("begin", op) = N(op) + Count(<<x, y>>, op)
        BY <1>0, <1>4, <3>1, ThenCounts
      <3>3. One("begin", op) = 0 /\ One("request", op) \in Nat /\ One("acquire", op) \in Nat
        BY DEF Ops, One
      <3> QED
        BY <3>1, <3>2, <3>3
    <2>2. /\ N("request") \in Nat /\ N("request")' = N("request") + 1
          /\ N("acquire") \in Nat /\ N("acquire")' = N("acquire") + 1
          /\ N("failed") \in Nat /\ N("failed")' = N("failed")
          /\ N("succeeded") \in Nat /\ N("succeeded")' = N("succeeded")
      BY <2>1 DEF Ops, One
    <2>3. wl \in Nat /\ unlocked \in Nat /\ phantom \in Nat
      BY DEF TypeOK
    <2> DEFINE p == Cardinality(pending)
               r == N("request")
               s == N("succeeded")
               f == N("failed")
               a == N("acquire")
    <2>4. p + r + s + f + unlocked = wl + a + phantom
      BY DEF Balance
    <2>5. p \in Nat /\ r \in Nat /\ s \in Nat /\ f \in Nat /\ a \in Nat
      BY <2>2, FS_CardinalityType DEF Few
    <2>6. Balance' <=> p + (r + 1) + s + f + unlocked = wl + (a + 1) + phantom
      BY <1>2, <2>2 DEF Balance
    <2> HIDE DEF p, r, s, f, a
    <2>7. p + (r + 1) + s + f + unlocked = wl + (a + 1) + phantom
      BY <2>3, <2>4, <2>5
    <2> QED
      BY <2>6, <2>7
  <1> QED
    BY <1>1, <1>3, <1>4

\* What was to be requested is pending.
LEMMA RequestBalance ==
  ASSUME TypeOK, Few, Balance, NEW th \in Thread, SendRequest(th) PROVE Balance'
  <1>1. /\ N("request") \in Nat /\ N("request")' \in Nat /\ N("request")' + 1 = N("request")
        /\ N("acquire")' = N("acquire") /\ N("failed")' = N("failed")
        /\ N("succeeded")' = N("succeeded")
        /\ N("acquire") \in Nat /\ N("failed") \in Nat /\ N("succeeded") \in Nat
    BY Pops DEF SendRequest, Ops
  <1>2. PICK x : x \notin pending /\ pending' = pending \cup {x}
    BY DEF SendRequest, NewTransaction
  <1>3. Cardinality(pending) \in Nat /\ Cardinality(pending') = Cardinality(pending) + 1
    BY <1>2, OneMore DEF Few
  <1>4. UNCHANGED <<wl, unlocked, phantom>> /\ wl \in Nat /\ unlocked \in Nat /\ phantom \in Nat
    BY DEF SendRequest, lock, TypeOK
  <1> QED
    BY <1>1, <1>3, <1>4 DEF Balance

\* The acquisition that was due is made.
LEMMA AcquireBalance ==
  ASSUME TypeOK, Few, Balance, NEW th \in Thread, Acquire(th) PROVE Balance'
  <1>1. /\ N("acquire") \in Nat /\ N("acquire")' \in Nat /\ N("acquire")' + 1 = N("acquire")
        /\ N("request")' = N("request") /\ N("failed")' = N("failed")
        /\ N("succeeded")' = N("succeeded")
        /\ N("request") \in Nat /\ N("failed") \in Nat /\ N("succeeded") \in Nat
    BY Pops DEF Acquire, Ops
  <1>2. Cardinality(pending) \in Nat /\ pending' = pending
    BY FS_CardinalityType DEF Few, Acquire, agent
  <1>3. /\ wl' = wl + 1 /\ UNCHANGED <<unlocked, phantom>>
        /\ wl \in Nat /\ unlocked \in Nat /\ phantom \in Nat
    BY DEF Acquire, TypeOK
  <1> QED
    BY <1>1, <1>2, <1>3 DEF Balance

\* A callback that releases the lock, or finds none.
LEMMA ReleaseBalance ==
  ASSUME TypeOK, Few, Balance, NEW done \in {"failed", "succeeded"},
         N(done) \in Nat, N(done)' \in Nat, N(done)' + 1 = N(done),
         \A op \in Ops \ {done} : N(op) \in Nat /\ N(op)' = N(op),
         Release, UNCHANGED <<pending, phantom>>
  PROVE  Balance'
  <1>1. /\ N("acquire")' = N("acquire") /\ N("request")' = N("request")
        /\ N("acquire") \in Nat /\ N("request") \in Nat /\ N("failed") \in Nat
        /\ N("succeeded") \in Nat /\ N("failed")' \in Nat /\ N("succeeded")' \in Nat
    BY DEF Ops
  <1>2. N("failed")' + N("succeeded")' + 1 = N("failed") + N("succeeded")
    <2>1. CASE done = "failed"
      <3>1. N("succeeded")' = N("succeeded")
        BY <2>1 DEF Ops
      <3> QED
        BY <1>1, <2>1, <3>1
    <2>2. CASE done = "succeeded"
      <3>1. N("failed")' = N("failed")
        BY <2>2 DEF Ops
      <3> QED
        BY <1>1, <2>2, <3>1
    <2> QED
      BY <2>1, <2>2
  <1>3. Cardinality(pending) \in Nat /\ wl \in Nat /\ unlocked \in Nat /\ phantom \in Nat
    BY FS_CardinalityType DEF Few, TypeOK
  <1>4. CASE wl > 0
    BY <1>1, <1>2, <1>3, <1>4 DEF Balance, Release
  <1>5. CASE ~(wl > 0)
    BY <1>1, <1>2, <1>3, <1>5 DEF Balance, Release
  <1> QED
    BY <1>4, <1>5

\* The engine hears of a success.
LEMMA SucceededBalance ==
  ASSUME TypeOK, Few, Balance, NEW th \in Thread, Succeeded(th) PROVE Balance'
  <1>1. Does(th, "succeeded", 0) /\ Then(th, <<>>) /\ Release /\ UNCHANGED <<pending, phantom>>
    BY DEF Succeeded, agent
  <1>2. "succeeded" \in Ops
    BY DEF Ops
  <1>3. /\ N("succeeded") \in Nat /\ N("succeeded")' \in Nat
        /\ N("succeeded")' + 1 = N("succeeded")
        /\ \A op \in Ops \ {"succeeded"} : N(op) \in Nat /\ N(op)' = N(op)
    BY <1>1, <1>2, Pops
  <1> QED
    BY <1>1, <1>3, ReleaseBalance

\* The engine hears of a failure, and may register again.
LEMMA FailedBalance ==
  ASSUME TypeOK, Few, Balance, NEW th \in Thread, Failed(th) PROVE Balance'
  <1>1. Does(th, "failed", 0) /\ Release /\ UNCHANGED <<pending, phantom>>
    BY DEF Failed
  <1>2. \/ Then(th, <<>>)
        \/ \E k \in Kind : Then(th, <<Do("enter", k)>>)
    BY DEF Failed
  <1>3. "failed" \in Ops
    BY DEF Ops
  <1>4. CASE Then(th, <<>>)
    <2>1. /\ N("failed") \in Nat /\ N("failed")' \in Nat /\ N("failed")' + 1 = N("failed")
          /\ \A op \in Ops \ {"failed"} : N(op) \in Nat /\ N(op)' = N(op)
      BY <1>1, <1>3, <1>4, Pops
    <2> QED
      BY <1>1, <2>1, ReleaseBalance
  <1>5. CASE \E k \in Kind : Then(th, <<Do("enter", k)>>)
    <2>1. PICK k \in Kind : Then(th, <<Do("enter", k)>>)
      BY <1>5
    <2> DEFINE x == Do("enter", k)
    <2>2. x \in Frame /\ x.op = "enter" /\ Then(th, <<x>>)
      BY <2>1, Frames DEF Do
    <2> HIDE DEF x
    <2>3. ASSUME NEW op \in Ops
          PROVE  N(op) \in Nat /\ N(op)' \in Nat /\ N(op)' + One("failed", op) = N(op)
      <3>1. <<x>> \in Seq(Frame) /\ Count(<<x>>, op) = One("enter", op)
        BY <2>2, CountFew
      <3>2. One("enter", op) = 0
        BY DEF Ops, One
      <3>3. /\ N(op) \in Nat /\ N(op)' \in Nat
            /\ N(op)' + One("failed", op) = N(op) + Count(<<x>>, op)
        BY <1>1, <2>2, <3>1, ThenCounts
      <3> QED
        BY <3>1, <3>2, <3>3
    <2>4. One("failed", "failed") = 1 /\ \A op \in Ops \ {"failed"} : One("failed", op) = 0
      BY DEF One
    <2>5. N("failed") \in Nat /\ N("failed")' \in Nat /\ N("failed")' + 1 = N("failed")
      BY <1>3, <2>3, <2>4
    <2>6. ASSUME NEW op \in Ops \ {"failed"} PROVE N(op) \in Nat /\ N(op)' = N(op)
      BY <2>3, <2>4
    <2> QED
      BY <1>1, <2>5, <2>6, ReleaseBalance
  <1> QED
    BY <1>2, <1>4, <1>5

\* A transaction that is over tells the engine once.
LEMMA OverBalance ==
  ASSUME TypeOK, Few, Balance, NEW x \in pending, pending' = pending \ {x},
         UNCHANGED <<wl, unlocked, phantom>>, NEW th \in Thread, NEW more \in Seq(Frame),
         Starts(th, more), NEW told \in {"failed", "succeeded"},
         \A op \in Ops : Count(more, op) = One(told, op)
  PROVE  Balance'
  <1>1. ASSUME NEW op \in Ops PROVE N(op) \in Nat /\ N(op)' = N(op) + One(told, op)
    <2>1. N(op) \in Nat /\ N(op)' = N(op) + Count(more, op)
      BY StartsCounts
    <2> QED
      BY <2>1
  <1>2. /\ N("acquire")' = N("acquire") /\ N("request")' = N("request")
        /\ N("acquire") \in Nat /\ N("request") \in Nat /\ N("failed") \in Nat
        /\ N("succeeded") \in Nat
        /\ N("failed")' + N("succeeded")' = N("failed") + N("succeeded") + 1
        /\ N("failed")' \in Nat /\ N("succeeded")' \in Nat
    BY <1>1 DEF Ops, One
  <1>3. /\ Cardinality(pending) \in Nat /\ Cardinality(pending') \in Nat
        /\ Cardinality(pending') + 1 = Cardinality(pending)
    BY OneLess DEF Few
  <1>4. wl \in Nat /\ unlocked \in Nat /\ phantom \in Nat
    BY DEF TypeOK
  <1> DEFINE p == Cardinality(pending)
             q == Cardinality(pending')
             r == N("request")
             s == N("succeeded")
             v == N("succeeded")'
             f == N("failed")
             g == N("failed")'
             a == N("acquire")
  <1>5. p + r + s + f + unlocked = wl + a + phantom
    BY DEF Balance
  <1>6. Balance' <=> q + r + v + g + unlocked = wl + a + phantom
    BY <1>2 DEF Balance
  <1>7. /\ p \in Nat /\ q \in Nat /\ r \in Nat /\ s \in Nat /\ f \in Nat /\ a \in Nat
        /\ v \in Nat /\ g \in Nat /\ q + 1 = p /\ g + v = f + s + 1
    BY <1>2, <1>3
  <1> HIDE DEF p, q, r, s, v, f, g, a
  <1>8. q + r + v + g + unlocked = wl + a + phantom
    BY <1>4, <1>5, <1>7
  <1> QED
    BY <1>6, <1>8

\* What the engine is told: a failure and the alarm, a success and the alarm, or a success.
LEMMA ToldFrames ==
  ASSUME NEW told \in {"failed", "succeeded"}, NEW e \in Expires \cup {Retry}
  PROVE  /\ <<Do(told, 0), Do("alarm", e)>> \in Seq(Frame) /\ <<Do(told, 0)>> \in Seq(Frame)
         /\ \A op \in Ops : /\ Count(<<Do(told, 0), Do("alarm", e)>>, op) = One(told, op)
                            /\ Count(<<Do(told, 0)>>, op) = One(told, op)
  <1> DEFINE x == Do(told, 0)
             y == Do("alarm", e)
  <1>1. x \in Frame /\ y \in Frame /\ x.op = told /\ y.op = "alarm"
    BY Frames DEF Do
  <1> HIDE DEF x, y
  <1>2. \A op \in Ops : /\ Count(<<x, y>>, op) = One(told, op) + One("alarm", op)
                        /\ Count(<<x>>, op) = One(told, op)
    BY <1>1, CountFew
  <1>3. \A op \in Ops : One("alarm", op) = 0 /\ One(told, op) \in Nat
    BY DEF Ops, One
  <1>4. \A op \in Ops : /\ Count(<<x, y>>, op) = One(told, op)
                        /\ Count(<<x>>, op) = One(told, op)
    BY <1>2, <1>3
  <1>5. <<x, y>> \in Seq(Frame) /\ <<x>> \in Seq(Frame)
    BY <1>1
  <1> QED
    BY <1>4, <1>5 DEF x, y

\* So do the answers and the timeouts.
LEMMA AnswerBalance ==
  ASSUME TypeOK, Few, Balance, NEW x \in Transaction,
         (\E e \in Expires : OnSuccess(x, e)) \/ OnFailure(x) \/ OnTimeout(x)
  PROVE  Balance'
  <1>1. PICK th \in Thread, told \in {"failed", "succeeded"}, e \in Expires \cup {Retry} :
          Starts(th, <<Do(told, 0), Do("alarm", e)>>) \/ Starts(th, <<Do(told, 0)>>)
    BY DEF OnSuccess, OnFailure, OnTimeout, AfterRollback, Thread
  <1>2. x \in pending /\ pending' = pending \ {x} /\ UNCHANGED <<wl, unlocked, phantom>>
    BY DEF OnSuccess, OnFailure, OnTimeout, lock
  <1> QED
    BY <1>1, <1>2, ToldFrames, OverBalance

\* Every step keeps the balance.
LEMMA BalanceStep == TypeOK /\ Few /\ Balance /\ [Next]_vars => Balance'
  <1> SUFFICES ASSUME TypeOK, Few, Balance, [Next]_vars PROVE Balance'
    OBVIOUS
  <1>1. CASE EngineRegister \/ RegisterMore \/ Expire
    BY <1>1, OutsideBalance
  <1>2. ASSUME NEW th \in Thread, NEW k \in Kind, Enter(th, k) \/ Begin(th, k) PROVE Balance'
    BY <1>2, EnterBalance, BeginBalance
  <1>3. ASSUME NEW th \in Thread, SendRequest(th) \/ Acquire(th) \/ Succeeded(th) \/ Failed(th)
        PROVE  Balance'
    BY <1>3, RequestBalance, AcquireBalance, SucceededBalance, FailedBalance
  <1>4. ASSUME NEW th \in Thread, NEW e \in Expires \cup {Retry}, ReRegister(th, e)
        PROVE  Balance'
    <2>1. <<>> \in Seq(Frame) /\ \A op \in Ops : Count(<<>>, op) = 0
      BY CountFew
    <2>2. Same
      BY <1>4, <2>1, ThenSame DEF Ops, ReRegister
    <2> QED
      BY <1>4, <2>2, SameBalance DEF ReRegister, lock, agent
  <1>5. ASSUME NEW x \in Transaction,
               (\E e \in Expires : OnSuccess(x, e)) \/ OnFailure(x) \/ OnTimeout(x)
        PROVE  Balance'
    BY <1>5, AnswerBalance
  <1>6. ASSUME NEW x \in Transaction, OnChallenge(x) PROVE Balance'
    <2>1. PICK y : y \notin pending /\ pending' = (pending \ {x}) \cup {y} /\ x \in pending
      BY <1>6 DEF OnChallenge, NewTransaction
    <2>2. /\ IsFiniteSet(pending \ {x}) /\ Cardinality(pending) \in Nat
          /\ Cardinality(pending \ {x}) \in Nat
          /\ Cardinality(pending \ {x}) + 1 = Cardinality(pending)
      BY <2>1, OneLess DEF Few
    <2>3. Cardinality((pending \ {x}) \cup {y}) = Cardinality(pending \ {x}) + 1
      BY <2>1, <2>2, OneMore
    <2>4. Cardinality(pending') = Cardinality(pending)
      BY <2>1, <2>2, <2>3
    <2>5. UNCHANGED <<stack, wl, unlocked, phantom>>
      BY <1>6 DEF OnChallenge, lock
    <2>6. \A op \in Ops : N(op)' = N(op)
      BY <2>5 DEF N, Waiting
    <2> QED
      BY <2>4, <2>5, <2>6 DEF Balance, Ops
  <1>7. CASE UNCHANGED vars
    BY <1>7 DEF vars, agent, lock, Balance, N, Waiting
  <1> QED
    BY <1>1, <1>2, <1>3, <1>4, <1>5, <1>6, <1>7 DEF Next, Run, Over

\* Every step leaves the transactions finite and at most one in "t".
LEMMA FewStep == Few /\ [Next]_vars => Few'
  <1> SUFFICES ASSUME Few, [Next]_vars PROVE Few'
    OBVIOUS
  <1>1. ASSUME NEW over, NewTransaction(over) PROVE Few'
    <2>1. PICK x : t' = {x} /\ pending' = (pending \ over) \cup {x}
      BY <1>1 DEF NewTransaction
    <2>2. IsFiniteSet(pending \ over)
      BY FS_Subset DEF Few
    <2>3. IsFiniteSet((pending \ over) \cup {x})
      BY <2>2, FS_AddElement
    <2> QED
      BY <2>1, <2>3 DEF Few
  <1>2. CASE pending' \subseteq pending /\ t' = t
    BY <1>2, FS_Subset DEF Few
  <1>3. (\E over : NewTransaction(over)) \/ (pending' \subseteq pending /\ t' = t)
    BY DEF Next, Run, Over, EngineRegister, RegisterMore, Expire, Enter, Begin, SendRequest,
           Acquire, Succeeded, Failed, ReRegister, OnSuccess, OnChallenge, OnFailure, OnTimeout,
           vars, agent
  <1> QED
    BY <1>1, <1>2, <1>3

\* The wake lock of SipdroidEngine is held, or about to be, as often as there are transactions or
\* callbacks that will release it, for any number of transactions and calls; the two counters tell
\* how often the races of SipdroidEngine.java:307,417 and RegisterAgent.java:214 have upset that.
THEOREM LockBalanced == Spec => []LockBalance
  <1>1. Init => Few /\ Balance
    <2> SUFFICES ASSUME Init PROVE Few /\ Balance
      OBVIOUS
    <2>1. stack \in [Thread -> Seq(Frame)] /\ \A th \in Thread : stack[th] = <<>>
      BY DEF Init
    <2>2. \A op : Waiting(op) = {}
      BY <2>1 DEF Waiting
    <2>3. Cardinality({}) = 0 /\ IsFiniteSet({})
      BY FS_EmptySet
    <2>4. \A op : N(op) = 0
      BY <2>2, <2>3 DEF N
    <2> QED
      BY <2>3, <2>4 DEF Init, Few, Balance
  <1>2. Balance => LockBalance
    BY DEF Balance, LockBalance, N
  <1> QED
    BY <1>1, <1>2, FewStep, BalanceStep, Invariance, PTL DEF Spec

================================================================================
