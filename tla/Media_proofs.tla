---------------------------- MODULE Media_proofs ----------------------------
(***************************************************************************)
(* The user's settings survive every call and every crash, and the count   *)
(* of receive errors stays bounded, for any number of calls and any        *)
(* schedule of their threads.                                              *)
(***************************************************************************)
EXTENDS Media, FiniteSetTheorems, TLAPS

ProcessType == /\ pc \in [Thread -> Step]
               /\ phone \in {"user", "call"} /\ saved \in {"user", "call"}
               /\ oldvalid \in BOOLEAN /\ alive \in BOOLEAN /\ overlapped \in BOOLEAN

(* nothing runs in a process that was killed *)
DeadIsStill == ~alive => \A t \in Thread : pc[t] = "done"

(* a receiver that has saved the settings and not yet put them back *)
Holding(t) == ~Sender(t) /\ pc[t] \in {"quiet", "loop", "hold", "receive", "restore", "restored"}

(* Where a thread can be depends on its role. *)
Roles == \A t \in Thread : Sender(t) => pc[t] \in {"new", "loop", "hold", "close", "done"}

OneReceiver ==
  ~overlapped => \A t, u \in Thread : ~Sender(t) /\ Active(t) /\ ~Sender(u) /\ Active(u) => t = u

(* While a receiver holds the settings they are kept; otherwise the phone has them. *)
Keeper ==
  ~overlapped =>
    /\ oldvalid => saved = "user"
    /\ \A t \in Thread : Holding(t) => oldvalid
    /\ \A t \in Thread : pc[t] = "restored" => phone = "user"
    /\ alive /\ (\A t \in Thread : ~Holding(t)) => phone = "user" /\ ~oldvalid

IInv == ProcessType /\ DeadIsStill /\ Roles /\ OneReceiver /\ Keeper /\ SettingsKept

-----------------------------------------------------------------------------
\* A process with no thread has the user's settings in the phone.
LEMMA InitInv == Init => IInv
  BY DEF Init, IInv, ProcessType, DeadIsStill, Roles, OneReceiver, Keeper, SettingsKept, Holding,
         Active, Step

\* What a step does to the types, to a dead process and to the place of each thread.
LEMMA ProcessStep ==
  ProcessType /\ DeadIsStill /\ Roles /\ [Next]_vars => ProcessType' /\ DeadIsStill' /\ Roles'
  <1> SUFFICES ASSUME ProcessType, DeadIsStill, Roles, [Next]_vars
               PROVE ProcessType' /\ DeadIsStill' /\ Roles'
    OBVIOUS
  <1> USE DEF ProcessType, DeadIsStill, Roles, Step, vars, callVars, settingVars, processVars
  <1>1. CASE \E c \in Call : Launch(c)
    BY <1>1 DEF Launch
  <1>2. CASE Close
    BY <1>2 DEF Close, StopMedia
  <1>3. CASE ToggleHold
    BY <1>3 DEF ToggleHold
  <1>4. CASE ToggleMute
    BY <1>4 DEF ToggleMute
  <1>5. CASE Crash
    BY <1>5 DEF Crash
  <1>6. CASE Restart
    BY <1>6 DEF Restart
  <1>7. CASE \E t \in Thread : Begin(t)
    BY <1>7 DEF Begin, Goto
  <1>8. CASE \E t \in Thread : SaveSettings(t)
    BY <1>8 DEF SaveSettings, Goto
  <1>9. CASE \E t \in Thread : Silence(t)
    BY <1>9 DEF Silence, Goto
  <1>10. CASE \E t \in Thread : EndLoop(t)
    BY <1>10 DEF EndLoop, End, Goto
  <1>11. CASE \E t \in Thread : EnterHold(t)
    BY <1>11 DEF EnterHold, Goto
  <1>12. CASE \E t \in Thread : LeaveHold(t)
    BY <1>12 DEF LeaveHold, Goto
  <1>13. CASE \E t \in Thread : Wait(t)
    BY <1>13 DEF Wait, Goto
  <1>14. CASE \E t \in Thread : ReceiveFails(t)
    BY <1>14 DEF ReceiveFails, RejectCall, StopMedia, Goto
  <1>15. CASE \E t \in Thread : Restore(t)
    BY <1>15 DEF Restore, Goto
  <1>16. CASE \E t \in Thread : Restored(t)
    <2>1. oldvalid' \in BOOLEAN
      BY <1>16, Zenon DEF Restored
    <2>2. pc' \in [Thread -> Step] /\ DeadIsStill' /\ Roles'
      BY <1>16 DEF Restored, Goto
    <2> QED
      BY <1>16, <2>1, <2>2 DEF Restored
  <1>17. CASE \E t \in Thread : Finish(t)
    BY <1>17 DEF Finish, Goto
  <1>18. CASE \E t \in Thread : Packet(t)
    BY <1>18 DEF Packet, Goto
  <1>19. CASE \E t \in Thread : NoRecord(t)
    BY <1>19 DEF NoRecord, RejectCall, StopMedia, Goto
  <1>20. CASE UNCHANGED vars
    BY <1>20
  <1> QED
    BY <1>1, <1>2, <1>3, <1>4, <1>5, <1>6, <1>7, <1>8, <1>9, <1>10, <1>11,
       <1>12, <1>13, <1>14, <1>15, <1>16, <1>17, <1>18, <1>19, <1>20 DEF Next, ThreadStep

\* Only Begin makes a second receiver active, and then it records the overlap.
LEMMA ReceiverStep == ProcessType /\ OneReceiver /\ [Next]_vars => OneReceiver'
  <1> SUFFICES ASSUME ProcessType, OneReceiver, [Next]_vars PROVE OneReceiver'
    OBVIOUS
  <1> USE DEF ProcessType, OneReceiver, Active, vars, callVars, settingVars, processVars
  <1>1. CASE \E c \in Call : Launch(c)
    BY <1>1 DEF Launch
  <1>2. CASE Close
    BY <1>2 DEF Close, StopMedia
  <1>3. CASE ToggleHold
    BY <1>3 DEF ToggleHold
  <1>4. CASE ToggleMute
    BY <1>4 DEF ToggleMute
  <1>5. CASE Crash
    BY <1>5 DEF Crash
  <1>6. CASE Restart
    BY <1>6 DEF Restart
  <1>7. CASE \E t \in Thread : Begin(t)
    BY <1>7 DEF Begin, Goto
  <1>8. CASE \E t \in Thread : SaveSettings(t)
    BY <1>8 DEF SaveSettings, Goto
  <1>9. CASE \E t \in Thread : Silence(t)
    BY <1>9 DEF Silence, Goto
  <1>10. CASE \E t \in Thread : EndLoop(t)
    BY <1>10 DEF EndLoop, End, Goto
  <1>11. CASE \E t \in Thread : EnterHold(t)
    BY <1>11 DEF EnterHold, Goto
  <1>12. CASE \E t \in Thread : LeaveHold(t)
    BY <1>12 DEF LeaveHold, Goto
  <1>13. CASE \E t \in Thread : Wait(t)
    BY <1>13 DEF Wait, Goto
  <1>14. CASE \E t \in Thread : ReceiveFails(t)
    BY <1>14 DEF ReceiveFails, RejectCall, StopMedia, Goto
  <1>15. CASE \E t \in Thread : Restore(t)
    BY <1>15 DEF Restore, Goto
  <1>16. CASE \E t \in Thread : Restored(t)
    BY <1>16 DEF Restored, Goto
  <1>17. CASE \E t \in Thread : Finish(t)
    BY <1>17 DEF Finish, Goto
  <1>18. CASE \E t \in Thread : Packet(t)
    BY <1>18 DEF Packet, Goto
  <1>19. CASE \E t \in Thread : NoRecord(t)
    BY <1>19 DEF NoRecord, RejectCall, StopMedia, Goto
  <1>20. CASE UNCHANGED vars
    BY <1>20
  <1> QED
    BY <1>1, <1>2, <1>3, <1>4, <1>5, <1>6, <1>7, <1>8, <1>9, <1>10, <1>11,
       <1>12, <1>13, <1>14, <1>15, <1>16, <1>17, <1>18, <1>19, <1>20 DEF Next, ThreadStep

\* Saving and restoring hand the user's settings over, one receiver at a time.
LEMMA KeeperStep == IInv /\ [Next]_vars => Keeper' /\ SettingsKept'
  <1> SUFFICES ASSUME IInv, [Next]_vars PROVE Keeper' /\ SettingsKept'
    OBVIOUS
  <1> USE DEF IInv, ProcessType, DeadIsStill, Roles, OneReceiver, Keeper, SettingsKept, Holding,
              Active, vars, callVars, settingVars, processVars
  <1>1. CASE \E c \in Call : Launch(c)
    BY <1>1 DEF Launch
  <1>2. CASE Close
    BY <1>2 DEF Close, StopMedia
  <1>3. CASE ToggleHold
    BY <1>3 DEF ToggleHold
  <1>4. CASE ToggleMute
    BY <1>4 DEF ToggleMute
  <1>5. CASE Crash
    BY <1>5 DEF Crash
  <1>6. CASE Restart
    BY <1>6 DEF Restart
  <1>7. CASE \E t \in Thread : Begin(t)
    BY <1>7 DEF Begin, Goto
  <1>8. CASE \E t \in Thread : SaveSettings(t)
    BY <1>8 DEF SaveSettings, Goto
  <1>9. CASE \E t \in Thread : Silence(t)
    BY <1>9 DEF Silence, Goto
  <1>10. CASE \E t \in Thread : EndLoop(t)
    BY <1>10 DEF EndLoop, End, Goto
  <1>11. CASE \E t \in Thread : EnterHold(t)
    BY <1>11 DEF EnterHold, Goto
  <1>12. CASE \E t \in Thread : LeaveHold(t)
    BY <1>12 DEF LeaveHold, Goto
  <1>13. CASE \E t \in Thread : Wait(t)
    BY <1>13 DEF Wait, Goto
  <1>14. CASE \E t \in Thread : ReceiveFails(t)
    BY <1>14 DEF ReceiveFails, RejectCall, StopMedia, Goto
  <1>15. CASE \E t \in Thread : Restore(t)
    BY <1>15 DEF Restore, Goto
  <1>16. CASE \E t \in Thread : Restored(t)
    BY <1>16 DEF Restored, Goto
  <1>17. CASE \E t \in Thread : Finish(t)
    BY <1>17 DEF Finish, Goto
  <1>18. CASE \E t \in Thread : Packet(t)
    BY <1>18 DEF Packet, Goto
  <1>19. CASE \E t \in Thread : NoRecord(t)
    BY <1>19 DEF NoRecord, RejectCall, StopMedia, Goto
  <1>20. CASE UNCHANGED vars
    BY <1>20
  <1> QED
    BY <1>1, <1>2, <1>3, <1>4, <1>5, <1>6, <1>7, <1>8, <1>9, <1>10, <1>11,
       <1>12, <1>13, <1>14, <1>15, <1>16, <1>17, <1>18, <1>19, <1>20 DEF Next, ThreadStep

-----------------------------------------------------------------------------
\* The user's settings are in the phone or kept for the next start, wherever the process is
\* killed and however many calls follow each other.
THEOREM SettingsAreKept == Spec => []SettingsKept
  <1>1. IInv /\ [Next]_vars => IInv'
    BY ProcessStep, ReceiverStep, KeeperStep DEF IInv
  <1>2. IInv => SettingsKept
    BY DEF IInv
  <1> QED
    BY InitInv, <1>1, <1>2, PTL DEF Spec

-----------------------------------------------------------------------------
(* The count of receive errors is shared by the receivers of all calls, and each of those
   that are in their loop may still add one to it when it is past the limit. *)

Looping == {c \in Call \ SendOnly : pc[<<c, "receiver">>] \in {"loop", "hold", "receive"}}

Fields == /\ app \in Call \cup {NoCall} /\ hold \in BOOLEAN
          /\ muted \in [Call -> BOOLEAN] /\ running \in [Thread -> BOOLEAN]
          /\ timeout \in Nat /\ crashed \in BOOLEAN

Limited == timeout > MaxTimeout => timeout + Cardinality(Looping) <= MaxTimeout + Cardinality(Call)

\* What is known of a thread by its role.
LEMMA ThreadRole ==
  ASSUME NEW t \in Thread
  PROVE  /\ CallOf(t) \in Call
         /\ ~Sender(t) => t = <<CallOf(t), "receiver">> /\ CallOf(t) \in Call \ SendOnly
  BY MediaAssumption DEF Thread, CallOf, Sender

\* And of a receiver.
LEMMA ReceiverRole ==
  ASSUME NEW c \in Call \ SendOnly
  PROVE  <<c, "receiver">> \in Thread /\ ~Sender(<<c, "receiver">>)
  BY DEF Thread, Sender

\* StopMedia halts threads only.
LEMMA StopTypes ==
  ASSUME Fields, StopMedia
  PROVE  app' \in Call \cup {NoCall} /\ hold' \in BOOLEAN /\ running' \in [Thread -> BOOLEAN]
  <1>1. \A t \in Thread : (running[t] /\ CallOf(t) # app) \in BOOLEAN
    BY Zenon
  <1>2. running' \in [Thread -> BOOLEAN]
    BY <1>1, Zenon DEF StopMedia
  <1> QED
    BY <1>2 DEF StopMedia

\* A rejected call is closed like any other, or there is none.
LEMMA RejectTypes ==
  ASSUME Fields, RejectCall
  PROVE  app' \in Call \cup {NoCall} /\ hold' \in BOOLEAN /\ running' \in [Thread -> BOOLEAN]
  <1>1. CASE app = NoCall
    BY <1>1 DEF RejectCall, Fields
  <1>2. CASE app # NoCall
    BY <1>2, StopTypes DEF RejectCall
  <1> QED
    BY <1>1, <1>2

\* Every step keeps the types that ProcessType leaves out.
LEMMA FieldsStep == Fields /\ [Next]_vars => Fields'
  <1> SUFFICES ASSUME Fields, [Next]_vars PROVE Fields'
    OBVIOUS
  <1> USE DEF Fields, vars, callVars, settingVars, processVars
  <1>1. ASSUME NEW c \in Call, Launch(c) PROVE Fields'
    BY <1>1 DEF Launch
  <1>2. CASE Close
    BY <1>2, StopTypes DEF Close
  <1>3. CASE ToggleHold
    <2>1. hold' \in BOOLEAN
      BY <1>3, Zenon DEF ToggleHold
    <2> QED
      BY <1>3, <2>1 DEF ToggleHold
  <1>4. CASE ToggleMute
    <2>1. muted' \in [Call -> BOOLEAN]
      BY <1>4, Zenon DEF ToggleMute
    <2> QED
      BY <1>4, <2>1 DEF ToggleMute
  <1>5. CASE Crash
    <2>1. muted' \in [Call -> BOOLEAN] /\ running' \in [Thread -> BOOLEAN]
      BY <1>5, Zenon DEF Crash
    <2> QED
      BY <1>5, <2>1 DEF Crash
  <1>6. CASE Restart
    BY <1>6 DEF Restart
  <1>7. ASSUME NEW t \in Thread, Begin(t) PROVE Fields'
    <2>1. running' \in [Thread -> BOOLEAN]
      BY <1>7, Zenon DEF Begin
    <2> QED
      BY <1>7, <2>1 DEF Begin
  <1>8. ASSUME NEW t \in Thread, SaveSettings(t) PROVE Fields'
    BY <1>8 DEF SaveSettings, Goto
  <1>9. ASSUME NEW t \in Thread, Silence(t) PROVE Fields'
    BY <1>9 DEF Silence, Goto
  <1>10. ASSUME NEW t \in Thread, EndLoop(t) PROVE Fields'
    BY <1>10 DEF EndLoop, End, Goto
  <1>11. ASSUME NEW t \in Thread, EnterHold(t) PROVE Fields'
    BY <1>11 DEF EnterHold, Goto
  <1>12. ASSUME NEW t \in Thread, LeaveHold(t) PROVE Fields'
    BY <1>12 DEF LeaveHold, Goto
  <1>13. ASSUME NEW t \in Thread, Wait(t) PROVE Fields'
    BY <1>13 DEF Wait, Goto
  <1>14. ASSUME NEW t \in Thread, ReceiveFails(t) PROVE Fields'
    BY <1>14, RejectTypes DEF ReceiveFails
  <1>15. ASSUME NEW t \in Thread, Restore(t) PROVE Fields'
    BY <1>15 DEF Restore, Goto
  <1>16. ASSUME NEW t \in Thread, Restored(t) PROVE Fields'
    BY <1>16 DEF Restored, Goto
  <1>17. ASSUME NEW t \in Thread, Finish(t) PROVE Fields'
    <2>1. muted' \in [Call -> BOOLEAN] /\ running' \in [Thread -> BOOLEAN]
      BY <1>17, Zenon DEF Finish
    <2> QED
      BY <1>17, <2>1 DEF Finish
  <1>18. ASSUME NEW t \in Thread, Packet(t) PROVE Fields'
    BY <1>18 DEF Packet, Goto
  <1>19. ASSUME NEW t \in Thread, NoRecord(t) PROVE Fields'
    BY <1>19, RejectTypes DEF NoRecord
  <1>20. CASE UNCHANGED vars
    BY <1>20
  <1> QED
    BY <1>1, <1>2, <1>3, <1>4, <1>5, <1>6, <1>7, <1>8, <1>9, <1>10, <1>11,
       <1>12, <1>13, <1>14, <1>15, <1>16, <1>17, <1>18, <1>19, <1>20 DEF Next, ThreadStep

\* A step in which no receiver enters its loop, and which leaves the count or sets it back.
LEMMA Calmer ==
  ASSUME Fields, Fields', Limited, timeout' <= timeout \/ timeout' <= MaxTimeout,
         Looping' \subseteq Looping \/ timeout' <= MaxTimeout
  PROVE  Limited'
  <1>0. MaxTimeout \in Nat /\ timeout \in Nat /\ timeout' \in Nat
    BY MediaAssumption DEF Fields
  <1>1. CASE timeout' <= MaxTimeout
    BY <1>0, <1>1 DEF Limited
  <1>2. CASE timeout' > MaxTimeout
    <2>1. timeout' <= timeout /\ Looping' \subseteq Looping
      BY <1>0, <1>2
    <2>2. IsFiniteSet(Looping) /\ IsFiniteSet(Call)
      BY MediaAssumption, FS_Subset DEF Looping
    <2>3. Cardinality(Looping') <= Cardinality(Looping) /\ IsFiniteSet(Looping')
      BY <2>1, <2>2, FS_Subset
    <2>4. /\ Cardinality(Looping) \in Nat /\ Cardinality(Looping') \in Nat
          /\ Cardinality(Call) \in Nat
      BY <2>2, <2>3, FS_CardinalityType
    <2>5. timeout + Cardinality(Looping) <= MaxTimeout + Cardinality(Call)
      BY <1>0, <1>2, <2>1 DEF Limited
    <2> DEFINE n == Cardinality(Looping)
               m == Cardinality(Looping')
               k == Cardinality(Call)
    <2> HIDE DEF n, m, k
    <2>6. timeout' + m <= MaxTimeout + k
      BY <1>0, <2>1, <2>3, <2>4, <2>5 DEF n, m, k
    <2> QED
      BY <2>6 DEF Limited, m, k
  <1> QED
    BY <1>0, <1>1, <1>2

\* A receiver that adds to a count past the limit leaves its loop.
LEMMA FailsLimited ==
  ASSUME ProcessType, Fields, Fields', Limited, NEW t \in Thread, ReceiveFails(t)
  PROVE  Limited'
  <1>0. MaxTimeout \in Nat /\ timeout \in Nat /\ timeout' = timeout + 1
    BY MediaAssumption DEF Fields, ReceiveFails
  <1>1. CASE timeout' <= MaxTimeout
    BY <1>0, <1>1 DEF Limited
  <1>2. CASE timeout' > MaxTimeout
    <2> DEFINE c == CallOf(t)
    <2>1. pc[t] = "receive" /\ pc' = [pc EXCEPT ![t] = "restore"] /\ ~Sender(t)
      BY <1>2 DEF ReceiveFails, Goto
    <2>2. t = <<c, "receiver">> /\ c \in Call \ SendOnly
      BY <2>1, ThreadRole
    <2>3. c \in Looping
      BY <2>1, <2>2 DEF Looping
    <2>4. Looping' \subseteq Looping \ {c}
      <3>1. ASSUME NEW d \in Looping' PROVE d \in Looping \ {c}
        <4>1. d \in Call \ SendOnly /\ pc'[<<d, "receiver">>] \in {"loop", "hold", "receive"}
          BY DEF Looping
        <4>2. <<d, "receiver">> \in Thread
          BY <4>1, ReceiverRole
        <4>3. <<d, "receiver">> # t
          BY <2>1, <4>1 DEF ProcessType
        <4> QED
          BY <2>1, <2>2, <4>1, <4>2, <4>3 DEF Looping, ProcessType
      <3> QED
        BY <3>1
    <2>5. IsFiniteSet(Looping) /\ IsFiniteSet(Call) /\ Cardinality(Looping) <= Cardinality(Call)
      BY MediaAssumption, FS_Subset DEF Looping
    <2>6. /\ IsFiniteSet(Looping \ {c}) /\ Cardinality(Looping \ {c}) = Cardinality(Looping) - 1
      BY <2>3, <2>5, FS_RemoveElement
    <2>7. IsFiniteSet(Looping') /\ Cardinality(Looping') <= Cardinality(Looping \ {c})
      BY <2>4, <2>6, FS_Subset
    <2>8. /\ Cardinality(Looping) \in Nat /\ Cardinality(Looping') \in Nat
          /\ Cardinality(Call) \in Nat
      BY <2>5, <2>7, FS_CardinalityType
    <2> DEFINE n == Cardinality(Looping)
               m == Cardinality(Looping')
               k == Cardinality(Call)
    <2>9. n \in Nat /\ m \in Nat /\ k \in Nat /\ m <= n - 1 /\ n <= k
      BY <2>5, <2>6, <2>7, <2>8
    <2>10. timeout > MaxTimeout => timeout + n <= MaxTimeout + k
      BY DEF Limited
    <2> HIDE DEF n, m, k
    <2>11. timeout + 1 + m <= MaxTimeout + k
      BY <1>0, <1>2, <2>9, <2>10
    <2> QED
      BY <1>0, <2>11 DEF Limited, m, k
  <1> QED
    BY <1>0, <1>1, <1>2

\* A receiver joins those in their loop by Silence only, which sets the count back.
LEMMA LimitedStep ==
  ProcessType /\ Fields /\ Fields' /\ Limited /\ [Next]_vars => Limited'
  <1> SUFFICES ASSUME ProcessType, Fields, Fields', Limited, [Next]_vars PROVE Limited'
    OBVIOUS
  <1> DEFINE Calm == UNCHANGED timeout /\ Looping' \subseteq Looping
  <1>a. Calm => Limited'
    BY Calmer DEF Fields
  <1>b. timeout' \in {0, 1} => Limited'
    <2>1. MaxTimeout \in Nat \ {0}
      BY MediaAssumption
    <2>2. timeout' \in {0, 1} => timeout' <= MaxTimeout
      BY <2>1
    <2> QED
      BY <2>2, Calmer
  <1>c. ASSUME NEW t \in Thread, NEW step \in Step, Goto(t, step), UNCHANGED timeout,
               Sender(t) \/ pc[t] \in {"loop", "hold", "receive"}
                 \/ step \notin {"loop", "hold", "receive"}
        PROVE  Limited'
    <2>1. ASSUME NEW c \in Looping' PROVE c \in Looping
      BY <1>c, ReceiverRole DEF Looping, Goto, ProcessType
    <2> QED
      BY <1>a, <1>c, <2>1
  <1>1. ASSUME NEW c \in Call, Launch(c) PROVE Limited'
    <2>1. ASSUME NEW d \in Looping' PROVE d \in Looping
      BY <1>1, ReceiverRole DEF Looping, Launch
    <2> QED
      BY <1>1, <1>a, <2>1 DEF Launch
  <1>2. CASE Close \/ ToggleHold \/ ToggleMute \/ Restart \/ UNCHANGED vars
    <2>1. UNCHANGED <<pc, timeout>>
      BY <1>2 DEF Close, ToggleHold, ToggleMute, Restart, vars
    <2> QED
      BY <1>a, <2>1 DEF Looping
  <1>3. CASE Crash
    BY <1>3, <1>b DEF Crash
  <1>4. ASSUME NEW t \in Thread, Begin(t) \/ SaveSettings(t) \/ EndLoop(t) \/ EnterHold(t)
                                   \/ Wait(t) \/ Restore(t) \/ Restored(t) \/ Finish(t)
                                   \/ NoRecord(t)
        PROVE  Limited'
    <2>1. PICK step \in Step : Goto(t, step) /\ UNCHANGED timeout
                               /\ \/ Sender(t)
                                  \/ pc[t] \in {"loop", "hold", "receive"}
                                  \/ step \notin {"loop", "hold", "receive"}
      BY <1>4 DEF Begin, SaveSettings, EndLoop, End, EnterHold, Wait, Restore, Restored, Finish,
                  NoRecord, Step
    <2> QED
      BY <1>c, <2>1
  <1>5. ASSUME NEW t \in Thread, Silence(t) \/ Packet(t) PROVE Limited'
    BY <1>5, <1>b DEF Silence, Packet
  <1>6. ASSUME NEW t \in Thread, LeaveHold(t) PROVE Limited'
    <2>1. CASE Sender(t)
      BY <1>6, <2>1, <1>c DEF LeaveHold, Step
    <2>2. CASE ~Sender(t)
      BY <1>6, <2>2, <1>b DEF LeaveHold
    <2> QED
      BY <2>1, <2>2
  <1>7. ASSUME NEW t \in Thread, ReceiveFails(t) PROVE Limited'
    BY <1>7, FailsLimited
  <1> QED
    BY <1>1, <1>2, <1>3, <1>4, <1>5, <1>6, <1>7 DEF Next, ThreadStep

\* Every variable keeps its type for any number of calls; in particular the count of receive
\* errors, static and shared by the receivers (RtpStreamReceiver.java:395), goes past the limit by
\* no more than one for each call whose receiver is still in its loop.
THEOREM TypeCorrect == Spec => []TypeOK
  <1>1. Init => Fields /\ Limited
    <2> SUFFICES ASSUME Init PROVE Fields /\ Limited
      OBVIOUS
    <2>1. muted \in [Call -> BOOLEAN] /\ running \in [Thread -> BOOLEAN]
      BY Zenon DEF Init
    <2>2. ~(timeout > MaxTimeout)
      BY MediaAssumption DEF Init
    <2> QED
      BY <2>1, <2>2 DEF Init, Fields, Limited
  <1>2. IInv /\ [Next]_vars => IInv'
    BY ProcessStep, ReceiverStep, KeeperStep DEF IInv
  <1>3. IInv /\ Fields /\ Limited /\ [Next]_vars => Fields' /\ Limited'
    BY FieldsStep, LimitedStep DEF IInv
  <1>4. IInv /\ Fields /\ Limited => TypeOK
    <2> SUFFICES ASSUME IInv, Fields, Limited PROVE TypeOK
      OBVIOUS
    <2>1. IsFiniteSet(Looping) /\ IsFiniteSet(Call)
      BY MediaAssumption, FS_Subset DEF Looping
    <2>2. Cardinality(Looping) \in Nat /\ Cardinality(Call) \in Nat
      BY <2>1, FS_CardinalityType
    <2>3. timeout \in 0..(MaxTimeout + Cardinality(Call))
      BY <2>2, MediaAssumption DEF Fields, Limited
    <2> QED
      BY <2>3 DEF IInv, ProcessType, Fields, TypeOK
  <1> QED
    BY InitInv, <1>1, <1>2, <1>3, <1>4, PTL DEF Spec
=============================================================================
