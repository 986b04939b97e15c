----------------------------- MODULE NativeCodec -----------------------------
(***************************************************************************)
(* The life of a native codec (speex_jni.cpp; the glue of the other codecs *)
(* is written alike): one encoder and one decoder for the process,         *)
(* allocated by the first open and freed by the last close.  The sender    *)
(* and the receiver of a call open it, use it and close it from their own  *)
(* threads, those of the next call possibly while those of the last still  *)
(* run; others open it and never close it: the user agent for a session    *)
(* description, the settings, a change of the speaker mode.                *)
(*                                                                         *)
(* codec_open is a plain int: ++ and -- are a load and a store, and the    *)
(* allocation follows in a step of its own.                                *)
(***************************************************************************)
EXTENDS Integers, FiniteSets

CONSTANTS Thread,      \* the threads that open the codec (a bound: each does it once)
          Keeper       \* those that never close it

ASSUME CodecAssumption == IsFiniteSet(Thread) /\ Keeper \subseteq Thread

VARIABLES codec_open,  \* the users the code counts
          state,       \* the encoder and the decoder
          pc,          \* where each thread is
          loaded,      \* the count it has read
          raced        \* history: two have been inside open or close at once

vars == <<codec_open, state, pc, loaded, raced>>

Inside(t) == pc[t] \in {"opening", "allocating", "closing", "freeing"}
Using(t) == pc[t] \in {"open", "coding"}

Init == /\ codec_open = 0 /\ state = "none" /\ raced = FALSE
        /\ pc = [t \in Thread |-> "new"]
        /\ loaded = [t \in Thread |-> 0]

Goto(t, step) == pc' = [pc EXCEPT ![t] = step]

Load(t) == /\ loaded' = [loaded EXCEPT ![t] = codec_open]
           /\ raced' = (raced \/ \E u \in Thread : Inside(u))
           /\ UNCHANGED <<codec_open, state>>

-----------------------------------------------------------------------------
\* if (codec_open++ != 0) return;
LoadForOpen(t) == pc[t] = "new" /\ Goto(t, "opening") /\ Load(t)

FirstOpen(n) == n = 0

StoreForOpen(t) == /\ pc[t] = "opening"
                   /\ codec_open' = loaded[t] + 1
                   /\ Goto(t, IF FirstOpen(loaded[t]) THEN "allocating" ELSE "open")
                   /\ UNCHANGED <<state, loaded, raced>>

Allocate(t) == /\ pc[t] = "allocating"
               /\ state' = "allocated"
               /\ Goto(t, "open")
               /\ UNCHANGED <<codec_open, loaded, raced>>

\* encode and decode: if (!codec_open) return 0;
Code(t) == /\ \/ pc[t] = "open" /\ t \notin Keeper /\ codec_open # 0 /\ Goto(t, "coding")
              \/ pc[t] = "coding" /\ Goto(t, "open")
           /\ UNCHANGED <<codec_open, state, loaded, raced>>

\* if (--codec_open != 0) return;
LoadForClose(t) == pc[t] = "open" /\ t \notin Keeper /\ Goto(t, "closing") /\ Load(t)

MutantLastClose(n) == n <= 1
MutantNeverLast(n) == n < 0
LastClose(n) == n = 0

\* A thread that is not the last closes again.
MutantCloseAgain(t) == /\ pc[t] = "closing"
                       /\ codec_open' = loaded[t] - 1
                       /\ Goto(t, IF LastClose(codec_open') THEN "freeing" ELSE "open")
                       /\ UNCHANGED <<state, loaded, raced>>

StoreForClose(t) == /\ pc[t] = "closing"
                    /\ codec_open' = loaded[t] - 1
                    /\ Goto(t, IF LastClose(codec_open') THEN "freeing" ELSE "gone")
                    /\ UNCHANGED <<state, loaded, raced>>

\* close frees what it has, whatever that is by now.
Free(t) == /\ pc[t] = "freeing"
           /\ state' = "freed"
           /\ Goto(t, "gone")
           /\ UNCHANGED <<codec_open, loaded, raced>>

Next == \E t \in Thread :
          \/ LoadForOpen(t) \/ StoreForOpen(t) \/ Allocate(t)
          \/ Code(t)
          \/ LoadForClose(t) \/ StoreForClose(t) \/ Free(t)

Spec == Init /\ [][Next]_vars

-----------------------------------------------------------------------------
Count == -Cardinality(Thread)..Cardinality(Thread)

\* Updates can be lost, so the count may even be negative.
TypeOK == /\ codec_open \in Count
          /\ state \in {"none", "allocated", "freed"}
          /\ raced \in BOOLEAN
          /\ pc \in [Thread -> {"new", "opening", "allocating", "open", "coding", "closing",
                                "freeing", "gone"}]
          /\ loaded \in [Thread -> Count]

\* However the opens, uses and closes of all calls overlap: a thread that has opened the
\* codec has an encoder and a decoder until it closes it, as long as no two threads have
\* been inside open and close together.
CodecHeld == ~raced => \A t \in Thread : Using(t) => state = "allocated"

\* And once everyone who opened the codec has closed it, its memory has been given back.
LastFrees == ~raced /\ (\A t \in Thread : pc[t] \in {"new", "gone"}) => state # "allocated"
=============================================================================
