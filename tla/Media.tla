------------------------------- MODULE Media --------------------------------
(***************************************************************************)
(* The media of a call: JAudioLauncher starts an RtpStreamSender and an    *)
(* RtpStreamReceiver thread on one socket; the user agent halts them and   *)
(* closes the socket, without waiting for them.  The receiver silences the *)
(* phone for the call, keeps what it changed in the preferences and puts   *)
(* it back at its end or, after a crash, when the service starts.          *)
(***************************************************************************)
EXTENDS Naturals, FiniteSets

CONSTANTS Call,        \* the calls whose threads may live at once (a bound)
          RecvOnly,    \* those of a user whose profile is recv_only ...
          SendOnly,    \* ... or send_only
          NoCall,
          MaxTimeout   \* 60 in the code: receive errors before the call is given up

ASSUME MediaAssumption == /\ IsFiniteSet(Call) /\ NoCall \notin Call
                          /\ RecvOnly \cup SendOnly \subseteq Call /\ RecvOnly \cap SendOnly = {}
                          /\ MaxTimeout \in Nat \ {0}

(* the direction: a call has a sender, a receiver or both *)
Thread == (Call \ RecvOnly) \X {"sender"} \cup (Call \ SendOnly) \X {"receiver"}
CallOf(t) == t[1]
Sender(t) == t[2] = "sender"

VARIABLES app,         \* UserAgent.audio_app: the call it belongs to
          pc,          \* where each thread is
          running,     \* the thread's field of that name
          hold,        \* Receiver.call_state = UA_STATE_HOLD
          muted,       \* RtpStreamSender.muted
          timeout,     \* RtpStreamReceiver.timeout, static
          phone,       \* whose vibrate settings and sleep policy the phone has
          saved,       \* what the preferences keep
          oldvalid,    \* PREF_OLDVALID
          alive,       \* the process runs
          crashed,     \* history: it has been killed
          overlapped   \* history: two receivers have run at once

settingVars == <<phone, saved, oldvalid>>
callVars == <<app, hold, muted>>
processVars == <<alive, crashed>>
vars == <<callVars, pc, running, timeout, settingVars, processVars, overlapped>>

Step == {"new", "save", "quiet",
         "loop", "hold", "receive", "restore", "restored", "close", "done"}

(* between the beginning of run() and its end *)
Active(t) == pc[t] \notin {"new", "done"}

Init == /\ app = NoCall /\ hold = FALSE
        /\ muted = [c \in Call |-> FALSE]
        /\ pc = [t \in Thread |-> "done"]
        /\ running = [t \in Thread |-> FALSE]
        /\ timeout = 0
        /\ phone = "user"
        /\ saved = "user"
        /\ oldvalid = FALSE
        /\ alive = TRUE /\ crashed = FALSE
        /\ overlapped = FALSE

Goto(t, step) == pc' = [pc EXCEPT ![t] = step]

-----------------------------------------------------------------------------
(* The user agent. *)

(* launchMediaApplication and startMedia; the threads have yet to run. *)
Launch(c) == /\ alive /\ app = NoCall
             /\ \A t \in Thread : CallOf(t) = c => pc[t] = "done"
             /\ app' = c
             /\ pc' = [t \in Thread |-> IF CallOf(t) = c THEN "new" ELSE pc[t]]
             /\ UNCHANGED <<hold, muted, running, timeout, settingVars, processVars,
                            overlapped>>

(* stopMedia halts both threads and closes the socket; the status is idle. *)
StopMedia == /\ app' = NoCall /\ hold' = FALSE
             /\ running' = [t \in Thread |-> running[t] /\ CallOf(t) # app]

(* closeMediaApplication, by hangup or because the call is closed *)
Close == /\ app # NoCall
         /\ StopMedia
         /\ UNCHANGED <<muted, pc, timeout, settingVars, processVars, overlapped>>

ToggleHold == /\ app # NoCall
              /\ hold' = ~hold
              /\ UNCHANGED <<app, muted, pc, running, timeout, settingVars, processVars,
                             overlapped>>

(* muteMedia: of the sender, if there is one *)
ToggleMute == /\ app \in Call \ RecvOnly
              /\ muted' = [muted EXCEPT ![app] = ~@]
              /\ UNCHANGED <<app, hold, pc, running, timeout, settingVars, processVars,
                             overlapped>>

(* rejectcall(), by a thread of this or of an earlier call *)
RejectCall == IF app = NoCall THEN UNCHANGED <<app, hold, running>> ELSE StopMedia

-----------------------------------------------------------------------------
(* The process. *)

Crash == /\ alive /\ ~crashed
         /\ alive' = FALSE /\ crashed' = TRUE
         /\ app' = NoCall /\ hold' = FALSE
         /\ pc' = [t \in Thread |-> "done"]
         /\ running' = [t \in Thread |-> FALSE]
         /\ timeout' = 0
         /\ muted' = [c \in Call |-> FALSE]
         /\ UNCHANGED <<phone, saved, oldvalid, overlapped>>

\* Mutant: the service does not restore the settings when it starts.
MutantNoRestore == /\ ~alive /\ alive' = TRUE
                   /\ UNCHANGED <<callVars, pc, running, timeout, settingVars, crashed, overlapped>>

(* RegisterService.onCreate *)
Restart == /\ ~alive
           /\ alive' = TRUE
           /\ IF oldvalid THEN phone' = saved ELSE UNCHANGED phone
           /\ oldvalid' = FALSE
           /\ UNCHANGED <<callVars, pc, running, timeout, saved, crashed,
                          overlapped>>

-----------------------------------------------------------------------------
(* run(): running = true, whatever happened before *)
Begin(t) == /\ pc[t] = "new"
            /\ running' = [running EXCEPT ![t] = TRUE]
            /\ Goto(t, IF Sender(t) THEN "loop" ELSE "save")
            /\ overlapped' = (overlapped \/ (~Sender(t) /\ \E u \in Thread : ~Sender(u) /\ Active(u)))
            /\ UNCHANGED <<callVars, timeout, settingVars, processVars>>

\* Mutant: the phone is silenced before its settings are read.
MutantSaveSilenced(t) ==
  /\ pc[t] = "save"
  /\ phone' = "call" /\ oldvalid' = TRUE
  /\ saved' = IF oldvalid THEN saved ELSE phone'
  /\ Goto(t, "quiet")
  /\ UNCHANGED <<callVars, running, timeout, processVars, overlapped>>

(* saveSettings: what is still to be put back is not overwritten *)
SaveSettings(t) == /\ pc[t] = "save"
                   /\ IF oldvalid THEN UNCHANGED saved ELSE saved' = phone
                   /\ oldvalid' = TRUE
                   /\ Goto(t, "quiet")
                   /\ UNCHANGED <<callVars, running, timeout, phone, processVars,
                                  overlapped>>

(* The settings are changed, and setCodec resets the count of errors. *)
Silence(t) == /\ pc[t] = "quiet"
              /\ phone' = "call"
              /\ timeout' = 1
              /\ Goto(t, "loop")
              /\ UNCHANGED <<callVars, running, saved, oldvalid, processVars, overlapped>>

Waiting(t) == hold \/ (Sender(t) /\ muted[CallOf(t)])

End(t) == Goto(t, IF Sender(t) THEN "close" ELSE "restore")

(* The top of the loop of either thread. *)
EndLoop(t) == /\ pc[t] = "loop" /\ ~running[t]
              /\ End(t)
              /\ UNCHANGED <<callVars, running, timeout, settingVars, processVars, overlapped>>

EnterHold(t) == /\ pc[t] = "loop" /\ running[t] /\ Waiting(t)
                /\ Goto(t, "hold")
                /\ UNCHANGED <<callVars, running, timeout, settingVars, processVars, overlapped>>

\* Mutant: the wait does not look at running.
MutantDeafHold(t) ==
  /\ pc[t] = "hold" /\ ~Waiting(t)
  /\ IF Sender(t) THEN Goto(t, "loop") /\ UNCHANGED timeout ELSE Goto(t, "receive") /\ timeout' = 1
  /\ UNCHANGED <<callVars, running, settingVars, processVars, overlapped>>

(* while (running && (muted || call_state == HOLD)) sleep(1000): the        *)
(* receiver then receives once more, the sender sends.                     *)
LeaveHold(t) == /\ pc[t] = "hold" /\ ~(running[t] /\ Waiting(t))
                /\ IF Sender(t) THEN Goto(t, "loop") /\ UNCHANGED timeout
                   ELSE Goto(t, "receive") /\ timeout' = 1
                /\ UNCHANGED <<callVars, running, settingVars, processVars, overlapped>>

(* The receiver looks at running, and then waits for a packet. *)
Wait(t) == /\ ~Sender(t) /\ pc[t] = "loop" /\ running[t] /\ ~Waiting(t)
           /\ Goto(t, "receive")
           /\ UNCHANGED <<callVars, running, timeout, settingVars, processVars, overlapped>>

(* The microphone cannot be opened. *)
NoRecord(t) == /\ Sender(t) /\ pc[t] = "loop" /\ running[t]
               /\ RejectCall
               /\ Goto(t, "close")
               /\ UNCHANGED <<muted, timeout, settingVars, processVars, overlapped>>

(* A packet comes, as long as the socket is open. *)
Packet(t) == /\ ~Sender(t) /\ pc[t] = "receive" /\ app = CallOf(t)
             /\ timeout' = 0
             /\ Goto(t, "loop")
             /\ UNCHANGED <<callVars, running, settingVars, processVars, overlapped>>

\* Mutant: the call is given up, the thread goes on.
MutantNoBreak(t) ==
  /\ ~Sender(t) /\ pc[t] = "receive" /\ timeout <= MaxTimeout + 2
  /\ timeout' = timeout + 1
  /\ IF timeout' > MaxTimeout THEN RejectCall ELSE UNCHANGED <<app, hold, running>>
  /\ Goto(t, "loop")
  /\ UNCHANGED <<muted, settingVars, processVars, overlapped>>

(* Receive times out or, on a closed socket, fails at once. *)
ReceiveFails(t) == /\ ~Sender(t) /\ pc[t] = "receive"
                   /\ timeout' = timeout + 1
                   /\ IF timeout' > MaxTimeout
                      THEN RejectCall /\ Goto(t, "restore")
                      ELSE Goto(t, "loop") /\ UNCHANGED <<app, hold, running>>
                   /\ UNCHANGED <<muted, settingVars, processVars, overlapped>>

(* restoreSettings: the settings first, and only then OLDVALID *)
Restore(t) == /\ pc[t] = "restore"
              /\ phone' = IF oldvalid THEN saved ELSE phone
              /\ Goto(t, IF oldvalid THEN "restored" ELSE "close")
              /\ UNCHANGED <<callVars, running, timeout, saved, oldvalid, processVars, overlapped>>

Restored(t) == /\ pc[t] = "restored"
               /\ oldvalid' = FALSE
               /\ Goto(t, "close")
               /\ UNCHANGED <<callVars, running, timeout, phone, saved, processVars, overlapped>>

(* The codec is closed, and run() is over; the fields go with the thread. *)
Finish(t) == /\ pc[t] = "close"
             /\ Goto(t, "done")
             /\ running' = [running EXCEPT ![t] = FALSE]
             /\ muted' = IF Sender(t) THEN [muted EXCEPT ![CallOf(t)] = FALSE] ELSE muted
             /\ UNCHANGED <<app, hold, timeout, settingVars, processVars, overlapped>>

-----------------------------------------------------------------------------
ThreadStep(t) ==
  \/ Begin(t) \/ SaveSettings(t) \/ Silence(t)
  \/ EndLoop(t) \/ EnterHold(t) \/ LeaveHold(t) \/ Wait(t) \/ ReceiveFails(t)
  \/ Restore(t) \/ Restored(t)
  \/ Finish(t)

Next == \/ \E c \in Call : Launch(c)
        \/ Close \/ ToggleHold \/ ToggleMute
        \/ Crash \/ Restart
        \/ \E t \in Thread : ThreadStep(t) \/ Packet(t) \/ NoRecord(t)

(* The threads run, and a service that was killed is started again. *)
Spec == /\ Init /\ [][Next]_vars
        /\ \A t \in Thread : WF_vars(ThreadStep(t))
        /\ WF_vars(Restart)

-----------------------------------------------------------------------------
TypeOK == /\ app \in Call \cup {NoCall} /\ hold \in BOOLEAN
          /\ muted \in [Call -> BOOLEAN]
          /\ pc \in [Thread -> Step]
          /\ running \in [Thread -> BOOLEAN]
          /\ timeout \in 0..(MaxTimeout + Cardinality(Call))
          /\ {phone, saved} \subseteq {"user", "call"}
          /\ oldvalid \in BOOLEAN
          /\ alive \in BOOLEAN /\ crashed \in BOOLEAN
          /\ overlapped \in BOOLEAN

(* Whatever the process is doing when it is killed, the user's settings are *)
(* in the phone or kept for the next start; only two receivers at once, one *)
(* restoring while the other saves, can lose them.                         *)
SettingsKept == ~overlapped => phone = "user" \/ (oldvalid /\ saved = "user")

(* Once no call has media, the phone gets the user's settings back, also    *)
(* when the halt came too early for the receiver and when the process died. *)
SettingsReturn == app = NoCall ~> (app # NoCall \/ overlapped \/ phone = "user")

(* A thread halted while it runs ends, from a hold or a mute too.           *)
HaltedEnds == \A t \in Thread : Active(t) /\ ~running[t] ~> pc[t] = "done"

(* stopMedia stops the threads of its call.                                 *)
HaltStops == \A t \in Thread : pc[t] # "done" /\ app # CallOf(t) ~> pc[t] = "done"
=============================================================================
