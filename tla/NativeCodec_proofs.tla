------------------------- MODULE NativeCodec_proofs --------------------------
(***************************************************************************)
(* For any number of threads: without a race in open and close the codec   *)
(* is there for whoever has opened it, and given back by the last close;   *)
(* and with races its count goes no further than the number of threads.    *)
(***************************************************************************)
EXTENDS NativeCodec, FiniteSetTheorems, TLAPS

\* Those the count stands for.
Users == {t \in Thread : pc[t] \in {"allocating", "open", "coding", "closing"}}

Types == /\ codec_open \in Int
         /\ state \in {"none", "allocated", "freed"}
         /\ raced \in BOOLEAN
         /\ pc \in [Thread -> {"new", "opening", "allocating", "open", "coding", "closing",
                               "freeing", "gone"}]
         /\ loaded \in [Thread -> Int]

Alone == \A t, u \in Thread : Inside(t) /\ Inside(u) => t = u
Counted == codec_open = Cardinality(Users)
Fresh == \A t \in Thread : pc[t] \in {"opening", "closing"} => loaded[t] = codec_open
FirstAllocates == \A t \in Thread : pc[t] = "allocating" => Users = {t}
LastLeaves == \A t \in Thread : pc[t] = "freeing" => Users = {}
Held == \A t \in Thread : pc[t] \in {"open", "coding", "closing"} => state = "allocated"
GivenBack == state = "allocated" => \/ \E t \in Thread : pc[t] \in {"open", "coding", "closing"}
                                    \/ \E t \in Thread : pc[t] = "freeing"

\* What is true as long as nobody has raced.
Quiet == /\ Alone /\ Counted /\ Fresh
         /\ FirstAllocates /\ LastLeaves /\ Held /\ GivenBack

IInv == Types /\ (~raced => Quiet)

\* A thread that comes to the users, and one that leaves them, change their number by one;
\* only no user makes it zero.
LEMMA UsersChange ==
  /\ IsFiniteSet(Users)
  /\ Cardinality(Users) \in Nat
  /\ Cardinality(Users) = 0 <=> Users = {}
  /\ \A t \in Thread \ Users : Cardinality(Users \cup {t}) = Cardinality(Users) + 1
  /\ \A t \in Users : Cardinality(Users \ {t}) = Cardinality(Users) - 1
<1>1. IsFiniteSet(Users)
  BY CodecAssumption, FS_Subset DEF Users
<1> QED
  BY <1>1, FS_CardinalityType, FS_EmptySet, FS_AddElement, FS_RemoveElement DEF Users

\* Every step keeps the types.
LEMMA TypesStep == ASSUME Types, [Next]_vars PROVE Types'
<1>1. ASSUME NEW t \in Thread,
             \/ LoadForOpen(t) \/ StoreForOpen(t) \/ Allocate(t) \/ Code(t)
             \/ LoadForClose(t) \/ StoreForClose(t) \/ Free(t)
      PROVE  Types'
  <2>1. raced' \in BOOLEAN
    BY <1>1, Zenon DEF Types, LoadForOpen, StoreForOpen, Allocate, Code, LoadForClose,
                       StoreForClose, Free, Load
  <2> QED
    BY <1>1, <2>1 DEF Types, LoadForOpen, StoreForOpen, Allocate, Code, LoadForClose,
                      StoreForClose, Free, Load, Goto
<1> QED
  BY <1>1 DEF Next, vars, Types
--------------------------------------------------------------------------------

\* A step without a race keeps the codec where its users expect it.
LEMMA QuietStep == ASSUME Types, Quiet, Next, ~raced' PROVE Quiet'
<1> USE DEF Quiet
<1>1. ASSUME NEW t \in Thread, LoadForOpen(t) PROVE Quiet'
  <2>1. Users' = Users
    BY <1>1 DEF LoadForOpen, Goto, Load, Types, Users
  <2>2. Users = {} <=> codec_open = 0
    BY UsersChange DEF Counted
  <2>3. Alone' /\ Fresh'
    BY <1>1 DEF LoadForOpen, Goto, Load, Inside, Types, Alone, Fresh
  <2>4. Counted'
    BY <1>1, <2>1, UsersChange DEF LoadForOpen, Load, Counted, Fresh
  <2>5. FirstAllocates' /\ LastLeaves'
    BY <1>1, <2>1, <2>2 DEF LoadForOpen, Goto, Load, Types, Inside, Alone, Fresh, Users,
       FirstAllocates, LastLeaves
  <2>6. Held'
    BY <1>1, <2>1, <2>2 DEF LoadForOpen, Goto, Load, Types, Inside, Alone, Fresh, Users,
       FirstAllocates, LastLeaves, Held
  <2>7. GivenBack'
    BY <1>1, <2>1, <2>2 DEF LoadForOpen, Goto, Load, Types, Inside, Alone, Fresh, Users,
       FirstAllocates, LastLeaves, GivenBack
  <2> QED
    BY <2>3, <2>4, <2>5, <2>6, <2>7
<1>2. ASSUME NEW t \in Thread, StoreForOpen(t) PROVE Quiet'
  <2>1. t \notin Users /\ Users' = Users \cup {t}
    BY <1>2 DEF StoreForOpen, Goto, Types, Users
  <2>2. Users = {} <=> codec_open = 0
    BY UsersChange DEF Counted
  <2>3. Alone' /\ Fresh'
    BY <1>2 DEF StoreForOpen, Goto, Load, Inside, Types, Alone, Fresh
  <2>4. Counted'
    BY <1>2, <2>1, UsersChange DEF StoreForOpen, Load, Counted, Fresh
  <2>5. FirstAllocates' /\ LastLeaves'
    BY <1>2, <2>1, <2>2 DEF StoreForOpen, Goto, Load, Types, FirstOpen, Inside, Alone, Fresh,
       Users, FirstAllocates, LastLeaves
  <2>6. Held'
    BY <1>2, <2>1, <2>2 DEF StoreForOpen, Goto, Load, Types, FirstOpen, Inside, Alone, Fresh,
       Users, FirstAllocates, LastLeaves, Held
  <2>7. GivenBack'
    BY <1>2, <2>1, <2>2 DEF StoreForOpen, Goto, Load, Types, FirstOpen, Inside, Alone, Fresh,
       Users, FirstAllocates, LastLeaves, GivenBack
  <2> QED
    BY <2>3, <2>4, <2>5, <2>6, <2>7
<1>3. ASSUME NEW t \in Thread, Allocate(t) PROVE Quiet'
  <2>1. Users' = Users
    BY <1>3 DEF Allocate, Goto, Load, Types, Users
  <2>2. Users = {} <=> codec_open = 0
    BY UsersChange DEF Counted
  <2>3. Alone' /\ Fresh'
    BY <1>3 DEF Allocate, Goto, Load, Inside, Types, Alone, Fresh
  <2>4. Counted'
    BY <1>3, <2>1, UsersChange DEF Allocate, Load, Counted, Fresh
  <2>5. FirstAllocates' /\ LastLeaves'
    BY <1>3, <2>1, <2>2 DEF Allocate, Goto, Load, Types, Inside, Alone, Fresh, Users,
       FirstAllocates, LastLeaves
  <2>6. Held'
    BY <1>3, <2>1, <2>2 DEF Allocate, Goto, Load, Types, Inside, Alone, Fresh, Users,
       FirstAllocates, LastLeaves, Held
  <2>7. GivenBack'
    BY <1>3, <2>1, <2>2 DEF Allocate, Goto, Load, Types, Inside, Alone, Fresh, Users,
       FirstAllocates, LastLeaves, GivenBack
  <2> QED
    BY <2>3, <2>4, <2>5, <2>6, <2>7
<1>4. ASSUME NEW t \in Thread, Code(t) PROVE Quiet'
  <2>1. Users' = Users
    BY <1>4 DEF Code, Goto, Load, Types, Users
  <2>2. Users = {} <=> codec_open = 0
    BY UsersChange DEF Counted
  <2>3. Alone' /\ Fresh'
    BY <1>4 DEF Code, Goto, Load, Inside, Types, Alone, Fresh
  <2>4. Counted'
    BY <1>4, <2>1, UsersChange DEF Code, Load, Counted, Fresh
  <2>5. FirstAllocates' /\ LastLeaves'
    BY <1>4, <2>1, <2>2 DEF Code, Goto, Load, Types, Inside, Alone, Fresh, Users, FirstAllocates,
       LastLeaves
  <2>6. Held'
    BY <1>4, <2>1, <2>2 DEF Code, Goto, Load, Types, Inside, Alone, Fresh, Users, FirstAllocates,
       LastLeaves, Held
  <2>7. GivenBack'
    BY <1>4, <2>1, <2>2 DEF Code, Goto, Load, Types, Inside, Alone, Fresh, Users, FirstAllocates,
       LastLeaves, GivenBack
  <2> QED
    BY <2>3, <2>4, <2>5, <2>6, <2>7
<1>5. ASSUME NEW t \in Thread, LoadForClose(t) PROVE Quiet'
  <2>1. Users' = Users
    BY <1>5 DEF LoadForClose, Goto, Load, Types, Users
  <2>2. Users = {} <=> codec_open = 0
    BY UsersChange DEF Counted
  <2>3. Alone' /\ Fresh'
    BY <1>5 DEF LoadForClose, Goto, Load, Inside, Types, Alone, Fresh
  <2>4. Counted'
    BY <1>5, <2>1, UsersChange DEF LoadForClose, Load, Counted, Fresh
  <2>5. FirstAllocates' /\ LastLeaves'
    BY <1>5, <2>1, <2>2 DEF LoadForClose, Goto, Load, Types, Inside, Alone, Fresh, Users,
       FirstAllocates, LastLeaves
  <2>6. Held'
    BY <1>5, <2>1, <2>2 DEF LoadForClose, Goto, Load, Types, Inside, Alone, Fresh, Users,
       FirstAllocates, LastLeaves, Held
  <2>7. GivenBack'
    BY <1>5, <2>1, <2>2 DEF LoadForClose, Goto, Load, Types, Inside, Alone, Fresh, Users,
       FirstAllocates, LastLeaves, GivenBack
  <2> QED
    BY <2>3, <2>4, <2>5, <2>6, <2>7
<1>6. ASSUME NEW t \in Thread, StoreForClose(t) PROVE Quiet'
  <2>1. t \in Users /\ Users' = Users \ {t}
    BY <1>6 DEF StoreForClose, Goto, Types, Users
  <2>2. Counted'
    BY <1>6, <2>1, UsersChange DEF StoreForClose, Counted, Fresh
  <2>3. Users' = {} <=> codec_open' = 0
    BY <2>1, <2>2, UsersChange, FS_RemoveElement, FS_EmptySet DEF Counted
  <2>4. Alone' /\ Fresh'
    BY <1>6 DEF StoreForClose, Goto, Load, Inside, Types, Alone, Fresh
  <2>5. FirstAllocates' /\ LastLeaves'
    BY <1>6, <2>1, <2>2, <2>3 DEF StoreForClose, Goto, Load, Types, LastClose, Inside, Alone,
       Fresh, Users, FirstAllocates, LastLeaves
  <2>6. Held'
    BY <1>6, <2>1, <2>2, <2>3 DEF StoreForClose, Goto, Load, Types, LastClose, Inside, Alone,
       Fresh, Users, FirstAllocates, LastLeaves, Held
  <2>7. GivenBack'
    BY <1>6, <2>1, <2>2, <2>3 DEF StoreForClose, Goto, Load, Types, LastClose, Inside, Alone,
       Fresh, Users, FirstAllocates, LastLeaves, GivenBack
  <2> QED
    BY <2>2, <2>4, <2>5, <2>6, <2>7
<1>7. ASSUME NEW t \in Thread, Free(t) PROVE Quiet'
  <2>1. Users' = Users
    BY <1>7 DEF Free, Goto, Load, Types, Users
  <2>2. Users = {} <=> codec_open = 0
    BY UsersChange DEF Counted
  <2>3. Alone' /\ Fresh'
    BY <1>7 DEF Free, Goto, Load, Inside, Types, Alone, Fresh
  <2>4. Counted'
    BY <1>7, <2>1, UsersChange DEF Free, Load, Counted, Fresh
  <2>5. FirstAllocates' /\ LastLeaves'
    BY <1>7, <2>1, <2>2 DEF Free, Goto, Load, Types, Inside, Alone, Fresh, Users, FirstAllocates,
       LastLeaves
  <2>6. Held'
    BY <1>7, <2>1, <2>2 DEF Free, Goto, Load, Types, Inside, Alone, Fresh, Users, FirstAllocates,
       LastLeaves, Held
  <2>7. GivenBack'
    BY <1>7, <2>1, <2>2 DEF Free, Goto, Load, Types, Inside, Alone, Fresh, Users, FirstAllocates,
       LastLeaves, GivenBack
  <2> QED
    BY <2>3, <2>4, <2>5, <2>6, <2>7
<1> QED
  BY <1>1, <1>2, <1>3, <1>4, <1>5, <1>6, <1>7 DEF Next

\* The invariant holds in every state.
THEOREM Invariance == Spec => []IInv
<1>1. Init => IInv
  <2>1. ASSUME Init PROVE Users = {}
    BY <2>1 DEF Init, Users
  <2>2. ASSUME Init PROVE Types /\ Alone /\ Fresh
    <3>1. raced \in BOOLEAN
      BY <2>2, Zenon DEF Init
    <3> QED
      BY <2>2, <3>1 DEF Init, Types, Inside, Alone, Fresh
  <2>3. ASSUME Init PROVE Counted
    BY <2>1, <2>3, FS_EmptySet DEF Init, Counted
  <2>4. ASSUME Init PROVE FirstAllocates /\ LastLeaves /\ Held /\ GivenBack
    BY <2>4 DEF Init, FirstAllocates, LastLeaves, Held, GivenBack
  <2> QED
    BY <2>2, <2>3, <2>4 DEF IInv, Quiet
<1>2. IInv /\ [Next]_vars => IInv'
  <2> SUFFICES ASSUME IInv, [Next]_vars PROVE IInv'
    OBVIOUS
  <2>1. Types'
    BY TypesStep DEF IInv
  <2>2. CASE Next
    <3>1. ~raced' => ~raced
      BY <2>2 DEF Next, LoadForOpen, StoreForOpen, Allocate, Code, LoadForClose, StoreForClose,
                  Free, Load
    <3> QED
      BY <2>1, <2>2, <3>1, QuietStep DEF IInv
  <2>3. CASE UNCHANGED vars
    BY <2>1, <2>3 DEF vars, IInv, Quiet, Users, Inside, Alone, Counted, Fresh, FirstAllocates,
                      LastLeaves, Held, GivenBack
  <2> QED
    BY <2>2, <2>3
<1> QED
  BY <1>1, <1>2, PTL DEF Spec

\* Whoever has opened the codec has it (speex_jni.cpp:48,117), for any number of threads.
THEOREM CodecIsHeld == Spec => []CodecHeld
<1>1. IInv => CodecHeld
  BY DEF IInv, Quiet, Held, CodecHeld, Using
<1> QED
  BY <1>1, Invariance, PTL

\* The last close frees it, for any number of threads.
THEOREM LastCloseFrees == Spec => []LastFrees
<1>1. IInv => LastFrees
  BY DEF IInv, Quiet, GivenBack, LastFrees
<1> QED
  BY <1>1, Invariance, PTL

--------------------------------------------------------------------------------
(* The count, races or not: no lost update takes it further than the threads that have been *)
(* through open, or through close.                                                          *)

Opened == {t \in Thread : pc[t] \notin {"new", "opening"}}
Closed == {t \in Thread : pc[t] \in {"freeing", "gone"}}

\* What the count, and the values read from it, may be.
Within(n) == -Cardinality(Closed) <= n /\ n <= Cardinality(Opened)

Bounded == Within(codec_open) /\ \A t \in Thread : Within(loaded[t])

\* Both sets can be counted.
LEMMA Counts ==
  /\ IsFiniteSet(Opened) /\ Cardinality(Opened) \in 0..Cardinality(Thread)
  /\ IsFiniteSet(Closed) /\ Cardinality(Closed) \in 0..Cardinality(Thread)
  /\ Cardinality(Thread) \in Nat
<1>1. Opened \subseteq Thread /\ Closed \subseteq Thread
  BY DEF Opened, Closed
<1>2. /\ IsFiniteSet(Opened) /\ Cardinality(Opened) <= Cardinality(Thread)
      /\ IsFiniteSet(Closed) /\ Cardinality(Closed) <= Cardinality(Thread)
  BY <1>1, CodecAssumption, FS_Subset
<1>3. Cardinality(Opened) \in Nat /\ Cardinality(Closed) \in Nat /\ Cardinality(Thread) \in Nat
  BY <1>2, CodecAssumption, FS_CardinalityType
<1> QED
  BY <1>2, <1>3

\* A thread that is through open, or through close, lets the count go one further.
LEMMA Further ==
  /\ \A t \in Thread \ Opened : Cardinality(Opened \cup {t}) = Cardinality(Opened) + 1
  /\ \A t \in Thread \ Closed : Cardinality(Closed \cup {t}) = Cardinality(Closed) + 1
BY Counts, FS_AddElement

\* Every step stays within.
LEMMA BoundedStep == ASSUME Types, Bounded, [Next]_vars PROVE Bounded'
<1> DEFINE o == Cardinality(Opened)
           c == Cardinality(Closed)
           o2 == Cardinality(Opened)'
           c2 == Cardinality(Closed)'
<1>1. o \in Nat /\ c \in Nat /\ codec_open \in Int /\ loaded \in [Thread -> Int]
  BY Counts DEF Types
<1>2. /\ -c <= codec_open /\ codec_open <= o
      /\ \A t \in Thread : -c <= loaded[t] /\ loaded[t] <= o
  BY DEF Bounded, Within
<1>3. ASSUME -c2 <= codec_open', codec_open' <= o2,
             \A t \in Thread : -c2 <= loaded'[t] /\ loaded'[t] <= o2
      PROVE  Bounded'
  BY <1>3 DEF Bounded, Within
<1>4. ASSUME NEW t \in Thread, LoadForOpen(t) \/ LoadForClose(t) PROVE Bounded'
  <2>1. Opened' = Opened /\ Closed' = Closed
    BY <1>4 DEF LoadForOpen, LoadForClose, Goto, Types, Opened, Closed
  <2>2. codec_open' = codec_open /\ loaded' = [loaded EXCEPT ![t] = codec_open]
    BY <1>4 DEF LoadForOpen, LoadForClose, Load
  <2>3. o2 = o /\ c2 = c
    BY <2>1
  <2> HIDE DEF o, c, o2, c2
  <2> QED
    BY <1>1, <1>2, <1>3, <2>2, <2>3
<1>5. ASSUME NEW t \in Thread, StoreForOpen(t) PROVE Bounded'
  <2>1. t \in Thread \ Opened /\ Opened' = Opened \cup {t} /\ Closed' = Closed
    BY <1>5 DEF StoreForOpen, Goto, Types, Opened, Closed
  <2>2. codec_open' = loaded[t] + 1 /\ loaded' = loaded
    BY <1>5 DEF StoreForOpen
  <2>3. o2 = o + 1 /\ c2 = c
    BY <2>1, Further
  <2> HIDE DEF o, c, o2, c2
  <2> QED
    BY <1>1, <1>2, <1>3, <2>2, <2>3
<1>6. ASSUME NEW t \in Thread, StoreForClose(t) PROVE Bounded'
  <2>1. t \in Thread \ Closed /\ Closed' = Closed \cup {t} /\ Opened' = Opened
    BY <1>6 DEF StoreForClose, Goto, Types, Opened, Closed
  <2>2. codec_open' = loaded[t] - 1 /\ loaded' = loaded
    BY <1>6 DEF StoreForClose
  <2>3. c2 = c + 1 /\ o2 = o
    BY <2>1, Further
  <2> HIDE DEF o, c, o2, c2
  <2> QED
    BY <1>1, <1>2, <1>3, <2>2, <2>3
<1>7. ASSUME NEW t \in Thread, Allocate(t) \/ Code(t) \/ Free(t) PROVE Bounded'
  <2>1. Opened' = Opened /\ Closed' = Closed
    BY <1>7 DEF Allocate, Code, Free, Goto, Types, Opened, Closed
  <2>2. codec_open' = codec_open /\ loaded' = loaded
    BY <1>7 DEF Allocate, Code, Free
  <2> QED
    BY <2>1, <2>2 DEF Bounded, Within
<1>8. CASE UNCHANGED vars
  BY <1>8 DEF vars, Bounded, Within, Opened, Closed
<1> QED
  BY <1>4, <1>5, <1>6, <1>7, <1>8 DEF Next

\* Whatever updates of codec_open are lost (speex_jni.cpp:48,117), the count stays between the
\* number of threads below zero and above it, for any number of threads.
THEOREM TypeCorrect == Spec => []TypeOK
<1>1. Init => Bounded
  <2> SUFFICES ASSUME Init PROVE Bounded
    OBVIOUS
  <2>1. Opened = {} /\ Closed = {}
    BY DEF Init, Opened, Closed
  <2>2. Cardinality(Opened) = 0 /\ Cardinality(Closed) = 0
    BY <2>1, FS_EmptySet
  <2> QED
    BY <2>2 DEF Init, Bounded, Within
<1>2. IInv /\ Bounded /\ [Next]_vars => Bounded'
  BY BoundedStep DEF IInv
<1>3. Types /\ Bounded => TypeOK
  <2> SUFFICES ASSUME Types, Bounded PROVE TypeOK
    OBVIOUS
  <2> DEFINE o == Cardinality(Opened)
             c == Cardinality(Closed)
             n == Cardinality(Thread)
  <2>1. o \in 0..n /\ c \in 0..n /\ n \in Nat
    BY Counts
  <2>2. /\ -c <= codec_open /\ codec_open <= o /\ codec_open \in Int
        /\ \A t \in Thread : -c <= loaded[t] /\ loaded[t] <= o /\ loaded[t] \in Int
    BY DEF Bounded, Within, Types
  <2>3. Count = -n..n
    BY DEF Count
  <2> HIDE DEF o, c, n
  <2>4. codec_open \in Count /\ \A t \in Thread : loaded[t] \in Count
    BY <2>1, <2>2, <2>3
  <2> QED
    BY <2>4 DEF Types, TypeOK
<1> QED
  BY <1>1, <1>2, <1>3, Invariance, PTL DEF Spec, IInv
=============================================================================
