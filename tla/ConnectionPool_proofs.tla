------------------------ MODULE ConnectionPool_proofs ------------------------
(***************************************************************************)
(* The table of connections for any number of connections, addresses and   *)
(* threads, and any size of the table.                                     *)
(***************************************************************************)
EXTENDS ConnectionPool, TLAPS

\* A connection that a thread adds has been opened; the thread knows where it sends to.
Owns ==
  /\ \A t \in Thread :
       /\ pc[t] \in {"opened", "add", "remove", "put"} <=> own[t] # None
       /\ own[t] # None => life[own[t]] # "unborn"
       /\ pc[t] = "connect" => dest[t] \in Addr
  /\ \A c \in Conn : attached[c] => life[c] # "unborn"

\* A connection is added by one thread, once, under one key.
Unshared ==
  /\ \A t, u \in Thread : own[t] # None /\ own[t] = own[u] => t = u
  /\ \A t \in Thread : \A k \in Key : table[k] # None => own[t] # table[k]
  /\ \A k, l \in Key : table[k] # None /\ table[k] = table[l] => k = l
  /\ \A c \in Conn : life[c] = "unborn" => ~stop[c] /\ \A k \in Key : table[k] # c

\* What a thread or a reader is going to take out it has halted.
Drops ==
  /\ \A t \in Thread : pc[t] # "remove" => drop[t] = None
  /\ \A c \in Conn : life[c] # "removing" => drop[c] = None
  /\ \A x \in Thread \cup Conn : drop[x] # None => stop[drop[x].conn]

\* A connection is listed under its address, unless its reader was done before.
Keyed ==
  /\ \A t \in Thread : pc[t] \in {"add", "remove", "put"} =>
       attached[own[t]] \/ life[own[t]] = "done"
  /\ \A t \in Thread : pc[t] \in {"remove", "put"} =>
       key[t] = address[own[t]] \/ life[own[t]] = "done"
  /\ \A k \in Key : \A c \in Conn : table[k] = c /\ ~late[c] => k = address[c] /\ attached[c]

\* Only its end stops a connection that is not yet listed; a reader that has been through
\* the table leaves nothing there.
Ends ==
  /\ \A t \in Thread : own[t] # None /\ stop[own[t]] => life[own[t]] # "running"
  /\ \A k \in Key : \A c \in Conn :
       table[k] = c /\ ~late[c] => /\ life[c] \notin {"told", "done"}
                                   /\ life[c] = "removing" => Removing(c, k)

IInv == /\ TypeOK /\ Owns /\ Unshared /\ Drops /\ Keyed /\ Ends /\ ListedIsUsable

-----------------------------------------------------------------------------
\* A thread or reader halts what it will take out, and nothing else.
Halts(x, k) ==
  /\ drop'[x] = None <=> table[k] = None
  /\ table[k] # None => drop'[x].key = k /\ drop'[x].conn = table[k] /\ stop'[table[k]]
  /\ \A y \in Thread \cup Conn : y # x => drop'[y] = drop[y]
  /\ \A c \in Conn : stop'[c] <=> stop[c] \/ table[k] = c

LEMMA FetchHalts ==
  ASSUME TypeOK, NEW x \in Thread \cup Conn, NEW k \in Key, Fetch(x, k) PROVE Halts(x, k)
  <1>1. drop' = [drop EXCEPT ![x] = Found(k)] /\ stop' = [c \in Conn |-> stop[c] \/ table[k] = c]
    BY DEF Fetch
  <1>2. table[k] # None => Found(k) = [key |-> k, conn |-> table[k]] /\ Found(k) # None
    BY PoolAssumption DEF Found, TypeOK, Key
  <1>3. table[k] = None => Found(k) = None
    BY DEF Found
  <1>4. \A c \in Conn : stop'[c] <=> stop[c] \/ table[k] = c
    BY <1>1, Zenon
  <1>5. table[k] # None => stop'[table[k]]
    BY <1>4 DEF TypeOK
  <1> QED
    BY <1>1, <1>2, <1>3, <1>4, <1>5 DEF TypeOK, Halts

\* What was going to be taken out still is, and so is what has now been halted.
Removes(x, k) ==
  /\ \A y \in Thread \cup Conn, l \in Key : Removing(y, l) => Removing(y, l)'
  /\ table[k] # None => Removing(x, k)'

LEMMA FetchRemoves ==
  ASSUME NEW x \in Thread \cup Conn, NEW k \in Key, Halts(x, k), drop[x] = None
  PROVE  Removes(x, k)
  <1>1. ASSUME NEW y \in Thread \cup Conn, NEW l \in Key, Removing(y, l) PROVE Removing(y, l)'
    BY <1>1 DEF Removing, Halts
  <1>2. table[k] # None => Removing(x, k)'
    BY DEF Removing, Halts
  <1> QED
    BY <1>1, <1>2 DEF Removes

\* What a thread halts to make room is on its way out.
LEMMA HaltedIsRemoved ==
  ASSUME Unshared, ListedIsUsable, NEW x \in Thread \cup Conn, NEW l \in Key,
         Halts(x, l), Removes(x, l), UNCHANGED <<table, life, late, halting>>
  PROVE  ListedIsUsable'
  <1> SUFFICES ASSUME NEW k \in Key, NEW c \in Conn, table[k] = c, stop'[c], ~halting,
                      life[c] # "ending", ~late[c]
               PROVE  \E y \in Thread \cup Conn : Removing(y, k)'
    BY DEF ListedIsUsable
  <1>1. CASE stop[c]
    <2>1. PICK y \in Thread \cup Conn : Removing(y, k)
      BY <1>1 DEF ListedIsUsable
    <2> QED
      BY <2>1 DEF Removes
  <1>2. CASE table[l] = c /\ k = l
    BY <1>2, PoolAssumption DEF Removes
  <1>3. CASE table[l] = c /\ k # l
    BY <1>3, PoolAssumption DEF Unshared
  <1> QED
    BY <1>1, <1>2, <1>3 DEF Halts

\* addConnection ends: the connection is listed under its key and no thread's any more.
Lists(t) ==
  /\ own[t] \in Conn /\ key[t] \in Key
  /\ table'[key[t]] = own[t] /\ \A k \in Key : k # key[t] => table'[k] = table[k]
  /\ late'[own[t]] <=> life[own[t]] \in {"removing", "told", "done"}
  /\ \A c \in Conn : c # own[t] => late'[c] = late[c]
  /\ own'[t] = None /\ \A u \in Thread : u # t => own'[u] = own[u] /\ pc'[u] = pc[u]
  /\ pc'[t] \in {"idle", "send"}

LEMMA PutLists == ASSUME TypeOK, Owns, NEW t \in Thread, Put(t) PROVE Lists(t)
  <1>1. own[t] \in Conn /\ key[t] \in Key
    BY DEF Put, TypeOK, Owns
  <1>2. late'[own[t]] <=> life[own[t]] \in {"removing", "told", "done"}
    BY <1>1, Zenon DEF Put, TypeOK
  <1> QED
    BY <1>1, <1>2 DEF Put, TypeOK, Lists

\* The key a connection has.
LEMMA IdInKey == ASSUME TypeOK, Owns, NEW c \in Conn PROVE Id(c) \in Key
  BY DEF Id, Key, TypeOK, Owns

LEMMA InitInv == Init => IInv
  <1> SUFFICES ASSUME Init PROVE IInv
    OBVIOUS
  <1>1. TypeOK
    BY PoolAssumption DEF Init, TypeOK, Key, Life, Step
  <1>2. \A k \in Key : table[k] = None
    BY DEF Init
  <1>3. Owns /\ Unshared /\ Drops
    BY PoolAssumption DEF Init, Owns, Unshared, Drops
  <1>4. Keyed /\ Ends /\ ListedIsUsable
    BY <1>2, PoolAssumption DEF Init, Keyed, Ends, ListedIsUsable
  <1> QED
    BY <1>1, <1>3, <1>4 DEF IInv

\* Every step keeps the types; what is opened has an address.
LEMMA TypeOKStep == IInv /\ [Next]_vars => TypeOK'
  <1> SUFFICES ASSUME IInv, [Next]_vars PROVE TypeOK'
    OBVIOUS
  <1> USE DEF IInv, TypeOK, Owns, Key, Life, Step, vars, threadVars, connVars
  <1>1. ASSUME NEW t \in Thread, NEW a \in Addr, Lookup(t, a) PROVE TypeOK'
    BY PoolAssumption, <1>1 DEF Lookup
  <1>2. ASSUME NEW t \in Thread, Connect(t) PROVE TypeOK'
    BY PoolAssumption, <1>2 DEF Connect, Open
  <1>3. ASSUME NEW t \in Thread, ConnectFails(t) PROVE TypeOK'
    BY PoolAssumption, <1>3 DEF ConnectFails
  <1>4. ASSUME NEW t \in Thread, Attach(t) PROVE TypeOK'
    BY PoolAssumption, <1>4 DEF Attach
  <1>5. ASSUME NEW t \in Thread, Replace(t) PROVE TypeOK'
    BY PoolAssumption, <1>5 DEF Replace, Fetch, Found, Id
  <1>6. ASSUME NEW t \in Thread, Evict(t) PROVE TypeOK'
    <2>1. own[t] \in Conn /\ Id(own[t]) \in Key /\ \A c \in Conn : Id(c) \in Key
      BY <1>6, IdInKey DEF Evict
    <2>2. key' \in [Thread -> Key] /\ pc' \in [Thread -> Step]
      BY <1>6, <2>1 DEF Evict
    <2>3. ASSUME NEW k \in Key, Fetch(t, k)
          PROVE  stop' \in [Conn -> BOOLEAN]
                 /\ drop' \in [Thread \cup Conn -> [key : Key, conn : Conn] \cup {None}]
      BY <2>3 DEF Fetch, Found
    <2> QED
      BY <1>6, <2>1, <2>2, <2>3 DEF Evict, Listed
  <1>7. ASSUME NEW t \in Thread, Fits(t) PROVE TypeOK'
    BY PoolAssumption, <1>7 DEF Fits, Id
  <1>8. ASSUME NEW t \in Thread, MakeRoom(t) PROVE TypeOK'
    BY PoolAssumption, <1>8 DEF MakeRoom, Remove, Removing
  <1>9. ASSUME NEW t \in Thread, Put(t) PROVE TypeOK'
    BY PoolAssumption, <1>9 DEF Put
  <1>10. ASSUME NEW t \in Thread, Send(t) PROVE TypeOK'
    BY PoolAssumption, <1>10 DEF Send
  <1>11. ASSUME NEW a \in Addr, Incoming(a) PROVE TypeOK'
    BY PoolAssumption, <1>11 DEF Incoming, Open
  <1>12. ASSUME NEW c \in Conn, ReadEnds(c) PROVE TypeOK'
    BY PoolAssumption, <1>12 DEF ReadEnds
  <1>13. ASSUME NEW c \in Conn, Terminated(c) PROVE TypeOK'
    BY PoolAssumption, <1>13 DEF Terminated, Fetch, Found, Id
  <1>14. ASSUME NEW c \in Conn, TakeOut(c) PROVE TypeOK'
    BY PoolAssumption, <1>14 DEF TakeOut, Remove, Removing
  <1>15. ASSUME NEW c \in Conn, Forget(c) PROVE TypeOK'
    BY PoolAssumption, <1>15 DEF Forget
  <1>16. ASSUME HaltConnections PROVE TypeOK'
    BY PoolAssumption, <1>16 DEF HaltConnections, Listed
  <1>17. ASSUME NewTable PROVE TypeOK'
    BY PoolAssumption, <1>17 DEF NewTable
  <1>18. ASSUME UNCHANGED vars PROVE TypeOK'
    BY <1>18 DEF vars
  <1> QED
    BY <1>1, <1>2, <1>3, <1>4, <1>5, <1>6, <1>7, <1>8, <1>9, <1>10, <1>11, <1>12,
       <1>13, <1>14, <1>15, <1>16, <1>17, <1>18 DEF Next, ThreadStep, ReaderStep

\* A thread has its connection from opening it to putting it in the table.
LEMMA OwnsStep == IInv /\ [Next]_vars => Owns'
  <1> SUFFICES ASSUME IInv, [Next]_vars PROVE Owns'
    OBVIOUS
  <1> USE DEF IInv, TypeOK, Owns, Key, vars, threadVars, connVars
  <1>1. ASSUME NEW t \in Thread, NEW a \in Addr, Lookup(t, a) PROVE Owns'
    BY PoolAssumption, <1>1 DEF Lookup
  <1>2. ASSUME NEW t \in Thread, Connect(t) PROVE Owns'
    BY PoolAssumption, <1>2 DEF Connect, Open
  <1>3. ASSUME NEW t \in Thread, ConnectFails(t) PROVE Owns'
    BY PoolAssumption, <1>3 DEF ConnectFails
  <1>4. ASSUME NEW t \in Thread, Attach(t) PROVE Owns'
    BY PoolAssumption, <1>4 DEF Attach
  <1>5. ASSUME NEW t \in Thread, Replace(t) PROVE Owns'
    <2>1. own[t] \in Conn /\ Id(own[t]) \in Key
      BY <1>5, IdInKey DEF Replace
    <2>2. Fetch(t, Id(own[t]))
      BY <1>5 DEF Replace
    <2>3. Halts(t, Id(own[t]))
      BY <2>1, <2>2, FetchHalts
    <2> QED
      BY PoolAssumption, <1>5, <2>1, <2>3 DEF Replace, Halts
  <1>6. ASSUME NEW t \in Thread, Evict(t) PROVE Owns'
    <2>1. own[t] \in Conn /\ Id(own[t]) \in Key
      BY <1>6, IdInKey DEF Evict
    <2>2. ASSUME NEW c \in Conn, Fetch(t, Id(c)), pc' = [pc EXCEPT ![t] = "remove"] PROVE Owns'
      <3>1. Id(c) \in Key /\ Halts(t, Id(c))
        BY <2>2, FetchHalts, IdInKey
      <3> QED
        BY PoolAssumption, <1>6, <2>1, <2>2, <3>1 DEF Evict, Listed, Halts
    <2>3. CASE UNCHANGED <<stop, drop>> /\ pc' = [pc EXCEPT ![t] = "put"]
      BY PoolAssumption, <1>6, <2>1, <2>3 DEF Evict, Listed
    <2> QED
      BY <1>6, <2>2, <2>3 DEF Evict, Listed
  <1>7. ASSUME NEW t \in Thread, Fits(t) PROVE Owns'
    BY PoolAssumption, <1>7 DEF Fits, Id
  <1>8. ASSUME NEW t \in Thread, MakeRoom(t) PROVE Owns'
    BY PoolAssumption, <1>8 DEF MakeRoom, Remove, Removing
  <1>9. ASSUME NEW t \in Thread, Put(t) PROVE Owns'
    BY PoolAssumption, <1>9 DEF Put
  <1>10. ASSUME NEW t \in Thread, Send(t) PROVE Owns'
    BY PoolAssumption, <1>10 DEF Send
  <1>11. ASSUME NEW a \in Addr, Incoming(a) PROVE Owns'
    BY PoolAssumption, <1>11 DEF Incoming, Open
  <1>12. ASSUME NEW c \in Conn, ReadEnds(c) PROVE Owns'
    BY PoolAssumption, <1>12 DEF ReadEnds
  <1>13. ASSUME NEW c \in Conn, Terminated(c) PROVE Owns'
    <2>1. Fetch(c, Id(c)) /\ Id(c) \in Key
      BY <1>13, IdInKey DEF Terminated
    <2>2. Halts(c, Id(c))
      BY <2>1, FetchHalts
    <2> QED
      BY PoolAssumption, <1>13, <2>1, <2>2 DEF Terminated, Halts
  <1>14. ASSUME NEW c \in Conn, TakeOut(c) PROVE Owns'
    BY PoolAssumption, <1>14 DEF TakeOut, Remove, Removing
  <1>15. ASSUME NEW c \in Conn, Forget(c) PROVE Owns'
    BY PoolAssumption, <1>15 DEF Forget
  <1>16. ASSUME HaltConnections PROVE Owns'
    BY PoolAssumption, <1>16 DEF HaltConnections, Listed
  <1>17. ASSUME NewTable PROVE Owns'
    BY PoolAssumption, <1>17 DEF NewTable
  <1>18. ASSUME UNCHANGED vars PROVE Owns'
    BY <1>18 DEF vars
  <1> QED
    BY <1>1, <1>2, <1>3, <1>4, <1>5, <1>6, <1>7, <1>8, <1>9, <1>10, <1>11, <1>12,
       <1>13, <1>14, <1>15, <1>16, <1>17, <1>18 DEF Next, ThreadStep, ReaderStep

\* No connection gets a second owner or a second key.
LEMMA UnsharedStep == IInv /\ [Next]_vars => Unshared'
  <1> SUFFICES ASSUME IInv, [Next]_vars PROVE Unshared'
    OBVIOUS
  <1> USE DEF IInv, TypeOK, Owns, Unshared, vars, threadVars, connVars
  <1>1. ASSUME NEW t \in Thread, NEW a \in Addr, Lookup(t, a) PROVE Unshared'
    BY PoolAssumption, <1>1 DEF Lookup
  <1>2. ASSUME NEW t \in Thread, Connect(t) PROVE Unshared'
    BY PoolAssumption, <1>2 DEF Connect, Open
  <1>3. ASSUME NEW t \in Thread, ConnectFails(t) PROVE Unshared'
    BY PoolAssumption, <1>3 DEF ConnectFails
  <1>4. ASSUME NEW t \in Thread, Attach(t) PROVE Unshared'
    BY PoolAssumption, <1>4 DEF Attach
  <1>5. ASSUME NEW t \in Thread, Replace(t) PROVE Unshared'
    <2>1. own[t] \in Conn /\ Id(own[t]) \in Key
      BY <1>5, IdInKey DEF Replace
    <2>2. Fetch(t, Id(own[t]))
      BY <1>5 DEF Replace
    <2>3. Halts(t, Id(own[t]))
      BY <2>1, <2>2, FetchHalts
    <2> QED
      BY PoolAssumption, <1>5, <2>1, <2>3 DEF Replace, Halts
  <1>6. ASSUME NEW t \in Thread, Evict(t) PROVE Unshared'
    <2>1. own[t] \in Conn /\ Id(own[t]) \in Key
      BY <1>6, IdInKey DEF Evict
    <2>2. ASSUME NEW c \in Conn, Fetch(t, Id(c)), pc' = [pc EXCEPT ![t] = "remove"] PROVE Unshared'
      <3>1. Id(c) \in Key /\ Halts(t, Id(c))
        BY <2>2, FetchHalts, IdInKey
      <3> QED
        BY PoolAssumption, <1>6, <2>1, <2>2, <3>1 DEF Evict, Listed, Halts
    <2>3. CASE UNCHANGED <<stop, drop>> /\ pc' = [pc EXCEPT ![t] = "put"]
      BY PoolAssumption, <1>6, <2>1, <2>3 DEF Evict, Listed
    <2> QED
      BY <1>6, <2>2, <2>3 DEF Evict, Listed
  <1>7. ASSUME NEW t \in Thread, Fits(t) PROVE Unshared'
    BY PoolAssumption, <1>7 DEF Fits, Id
  <1>8. ASSUME NEW t \in Thread, MakeRoom(t) PROVE Unshared'
    BY PoolAssumption, <1>8 DEF MakeRoom, Remove, Removing
  <1>9. ASSUME NEW t \in Thread, Put(t) PROVE Unshared'
    BY PoolAssumption, <1>9 DEF Put
  <1>10. ASSUME NEW t \in Thread, Send(t) PROVE Unshared'
    BY PoolAssumption, <1>10 DEF Send
  <1>11. ASSUME NEW a \in Addr, Incoming(a) PROVE Unshared'
    BY PoolAssumption, <1>11 DEF Incoming, Open
  <1>12. ASSUME NEW c \in Conn, ReadEnds(c) PROVE Unshared'
    BY PoolAssumption, <1>12 DEF ReadEnds
  <1>13. ASSUME NEW c \in Conn, Terminated(c) PROVE Unshared'
    <2>1. Fetch(c, Id(c)) /\ Id(c) \in Key
      BY <1>13, IdInKey DEF Terminated
    <2>2. Halts(c, Id(c))
      BY <2>1, FetchHalts
    <2> QED
      BY PoolAssumption, <1>13, <2>1, <2>2 DEF Terminated, Halts
  <1>14. ASSUME NEW c \in Conn, TakeOut(c) PROVE Unshared'
    BY PoolAssumption, <1>14 DEF TakeOut, Remove, Removing
  <1>15. ASSUME NEW c \in Conn, Forget(c) PROVE Unshared'
    BY PoolAssumption, <1>15 DEF Forget
  <1>16. ASSUME HaltConnections PROVE Unshared'
    BY PoolAssumption, <1>16 DEF HaltConnections, Listed
  <1>17. ASSUME NewTable PROVE Unshared'
    BY PoolAssumption, <1>17 DEF NewTable
  <1>18. ASSUME UNCHANGED vars PROVE Unshared'
    BY <1>18 DEF vars
  <1> QED
    BY <1>1, <1>2, <1>3, <1>4, <1>5, <1>6, <1>7, <1>8, <1>9, <1>10, <1>11, <1>12,
       <1>13, <1>14, <1>15, <1>16, <1>17, <1>18 DEF Next, ThreadStep, ReaderStep

\* Nobody takes out what is not halted.
LEMMA DropsStep == IInv /\ [Next]_vars => Drops'
  <1> SUFFICES ASSUME IInv, [Next]_vars PROVE Drops'
    OBVIOUS
  <1> USE DEF IInv, TypeOK, Owns, Unshared, Drops, vars, threadVars, connVars
  <1>1. ASSUME NEW t \in Thread, NEW a \in Addr, Lookup(t, a) PROVE Drops'
    BY PoolAssumption, <1>1 DEF Lookup
  <1>2. ASSUME NEW t \in Thread, Connect(t) PROVE Drops'
    BY PoolAssumption, <1>2 DEF Connect, Open
  <1>3. ASSUME NEW t \in Thread, ConnectFails(t) PROVE Drops'
    BY PoolAssumption, <1>3 DEF ConnectFails
  <1>4. ASSUME NEW t \in Thread, Attach(t) PROVE Drops'
    BY PoolAssumption, <1>4 DEF Attach
  <1>5. ASSUME NEW t \in Thread, Replace(t) PROVE Drops'
    <2>1. own[t] \in Conn /\ Id(own[t]) \in Key
      BY <1>5, IdInKey DEF Replace
    <2>2. Fetch(t, Id(own[t]))
      BY <1>5 DEF Replace
    <2>3. Halts(t, Id(own[t]))
      BY <2>1, <2>2, FetchHalts
    <2> QED
      BY PoolAssumption, <1>5, <2>1, <2>3 DEF Replace, Halts
  <1>6. ASSUME NEW t \in Thread, Evict(t) PROVE Drops'
    <2>1. own[t] \in Conn /\ Id(own[t]) \in Key
      BY <1>6, IdInKey DEF Evict
    <2>2. ASSUME NEW c \in Conn, Fetch(t, Id(c)), pc' = [pc EXCEPT ![t] = "remove"] PROVE Drops'
      <3>1. Id(c) \in Key /\ Halts(t, Id(c))
        BY <2>2, FetchHalts, IdInKey
      <3> QED
        BY PoolAssumption, <1>6, <2>1, <2>2, <3>1 DEF Evict, Listed, Halts
    <2>3. CASE UNCHANGED <<stop, drop>> /\ pc' = [pc EXCEPT ![t] = "put"]
      BY PoolAssumption, <1>6, <2>1, <2>3 DEF Evict, Listed
    <2> QED
      BY <1>6, <2>2, <2>3 DEF Evict, Listed
  <1>7. ASSUME NEW t \in Thread, Fits(t) PROVE Drops'
    BY PoolAssumption, <1>7 DEF Fits, Id
  <1>8. ASSUME NEW t \in Thread, MakeRoom(t) PROVE Drops'
    BY PoolAssumption, <1>8 DEF MakeRoom, Remove, Removing
  <1>9. ASSUME NEW t \in Thread, Put(t) PROVE Drops'
    BY PoolAssumption, <1>9 DEF Put
  <1>10. ASSUME NEW t \in Thread, Send(t) PROVE Drops'
    BY PoolAssumption, <1>10 DEF Send
  <1>11. ASSUME NEW a \in Addr, Incoming(a) PROVE Drops'
    BY PoolAssumption, <1>11 DEF Incoming, Open
  <1>12. ASSUME NEW c \in Conn, ReadEnds(c) PROVE Drops'
    BY PoolAssumption, <1>12 DEF ReadEnds
  <1>13. ASSUME NEW c \in Conn, Terminated(c) PROVE Drops'
    <2>1. Fetch(c, Id(c)) /\ Id(c) \in Key
      BY <1>13, IdInKey DEF Terminated
    <2>2. Halts(c, Id(c))
      BY <2>1, FetchHalts
    <2>3. drop'[c] # None => stop'[drop'[c].conn]
      BY <2>1, <2>2 DEF Halts
    <2>4. ASSUME NEW x \in Thread \cup Conn, x # c, drop'[x] # None PROVE stop'[drop'[x].conn]
      BY <2>2, <2>4 DEF Halts
    <2>5. \A t \in Thread : pc'[t] # "remove" => drop'[t] = None
      BY PoolAssumption, <1>13, <2>2 DEF Terminated, Halts
    <2>6. \A d \in Conn : life'[d] # "removing" => drop'[d] = None
      BY <1>13, <2>2 DEF Terminated, Halts
    <2> QED
      BY <2>3, <2>4, <2>5, <2>6
  <1>14. ASSUME NEW c \in Conn, TakeOut(c) PROVE Drops'
    BY PoolAssumption, <1>14 DEF TakeOut, Remove, Removing
  <1>15. ASSUME NEW c \in Conn, Forget(c) PROVE Drops'
    BY PoolAssumption, <1>15 DEF Forget
  <1>16. ASSUME HaltConnections PROVE Drops'
    BY PoolAssumption, <1>16 DEF HaltConnections, Listed
  <1>17. ASSUME NewTable PROVE Drops'
    BY PoolAssumption, <1>17 DEF NewTable
  <1>18. ASSUME UNCHANGED vars PROVE Drops'
    BY <1>18 DEF vars
  <1> QED
    BY <1>1, <1>2, <1>3, <1>4, <1>5, <1>6, <1>7, <1>8, <1>9, <1>10, <1>11, <1>12,
       <1>13, <1>14, <1>15, <1>16, <1>17, <1>18 DEF Next, ThreadStep, ReaderStep

\* Nothing but an early end separates a connection from its address.
LEMMA KeyedStep == IInv /\ [Next]_vars => Keyed'
  <1> SUFFICES ASSUME IInv, [Next]_vars PROVE Keyed'
    OBVIOUS
  <1> USE DEF IInv, TypeOK, Owns, Unshared, Drops, Keyed, Ends, Key, vars, threadVars, connVars
  <1>1. ASSUME NEW t \in Thread, NEW a \in Addr, Lookup(t, a) PROVE Keyed'
    BY PoolAssumption, <1>1 DEF Lookup
  <1>2. ASSUME NEW t \in Thread, Connect(t) PROVE Keyed'
    BY PoolAssumption, <1>2 DEF Connect, Open
  <1>3. ASSUME NEW t \in Thread, ConnectFails(t) PROVE Keyed'
    BY PoolAssumption, <1>3 DEF ConnectFails
  <1>4. ASSUME NEW t \in Thread, Attach(t) PROVE Keyed'
    BY PoolAssumption, <1>4 DEF Attach
  <1>5. ASSUME NEW t \in Thread, Replace(t) PROVE Keyed'
    <2>1. own[t] \in Conn /\ Id(own[t]) \in Key
      BY <1>5, IdInKey DEF Replace
    <2>2. Fetch(t, Id(own[t]))
      BY <1>5 DEF Replace
    <2>3. Halts(t, Id(own[t]))
      BY <2>1, <2>2, FetchHalts
    <2> QED
      BY PoolAssumption, <1>5, <2>1, <2>3 DEF Replace, Id, Halts
  <1>6. ASSUME NEW t \in Thread, Evict(t) PROVE Keyed'
    <2>1. own[t] \in Conn /\ Id(own[t]) \in Key
      BY <1>6, IdInKey DEF Evict
    <2>2. ASSUME NEW c \in Conn, Fetch(t, Id(c)), pc' = [pc EXCEPT ![t] = "remove"] PROVE Keyed'
      <3>1. Id(c) \in Key /\ Halts(t, Id(c))
        BY <2>2, FetchHalts, IdInKey
      <3> QED
        BY PoolAssumption, <1>6, <2>1, <2>2, <3>1 DEF Evict, Listed, Id, Halts
    <2>3. CASE UNCHANGED <<stop, drop>> /\ pc' = [pc EXCEPT ![t] = "put"]
      BY PoolAssumption, <1>6, <2>1, <2>3 DEF Evict, Listed, Id
    <2> QED
      BY <1>6, <2>2, <2>3 DEF Evict, Listed
  <1>7. ASSUME NEW t \in Thread, Fits(t) PROVE Keyed'
    BY PoolAssumption, <1>7 DEF Fits, Id
  <1>8. ASSUME NEW t \in Thread, MakeRoom(t) PROVE Keyed'
    BY PoolAssumption, <1>8 DEF MakeRoom, Remove, Removing
  <1>9. ASSUME NEW t \in Thread, Put(t) PROVE Keyed'
    <2>1. Lists(t)
      BY <1>9, PutLists
    <2>2. UNCHANGED <<life, attached, address, stop, dest, drop, halting>> /\ pc[t] = "put"
      BY <1>9 DEF Put
    <2>3. key'[t] = NoAddr /\ \A u \in Thread : u # t => key'[u] = key[u]
      BY <1>9 DEF Put
    <2> QED
      BY PoolAssumption, <2>1, <2>2, <2>3 DEF Lists
  <1>10. ASSUME NEW t \in Thread, Send(t) PROVE Keyed'
    BY PoolAssumption, <1>10 DEF Send
  <1>11. ASSUME NEW a \in Addr, Incoming(a) PROVE Keyed'
    BY PoolAssumption, <1>11 DEF Incoming, Open
  <1>12. ASSUME NEW c \in Conn, ReadEnds(c) PROVE Keyed'
    BY PoolAssumption, <1>12 DEF ReadEnds
  <1>13. ASSUME NEW c \in Conn, Terminated(c) PROVE Keyed'
    <2>1. Fetch(c, Id(c)) /\ Id(c) \in Key
      BY <1>13, IdInKey DEF Terminated
    <2>2. Halts(c, Id(c))
      BY <2>1, FetchHalts
    <2> QED
      BY PoolAssumption, <1>13, <2>1, <2>2 DEF Terminated, Id, Halts
  <1>14. ASSUME NEW c \in Conn, TakeOut(c) PROVE Keyed'
    BY PoolAssumption, <1>14 DEF TakeOut, Remove, Removing
  <1>15. ASSUME NEW c \in Conn, Forget(c) PROVE Keyed'
    BY PoolAssumption, <1>15 DEF Forget
  <1>16. ASSUME HaltConnections PROVE Keyed'
    BY PoolAssumption, <1>16 DEF HaltConnections, Listed
  <1>17. ASSUME NewTable PROVE Keyed'
    BY PoolAssumption, <1>17 DEF NewTable
  <1>18. ASSUME UNCHANGED vars PROVE Keyed'
    BY <1>18 DEF vars
  <1> QED
    BY <1>1, <1>2, <1>3, <1>4, <1>5, <1>6, <1>7, <1>8, <1>9, <1>10, <1>11, <1>12,
       <1>13, <1>14, <1>15, <1>16, <1>17, <1>18 DEF Next, ThreadStep, ReaderStep

\* The end of a connection finds it in the table.
LEMMA EndsStep == IInv /\ [Next]_vars => Ends'
  <1> SUFFICES ASSUME IInv, [Next]_vars PROVE Ends'
    OBVIOUS
  <1> USE DEF IInv, TypeOK, Owns, Unshared, Drops, Keyed, Ends, vars, threadVars, connVars
  <1>1. ASSUME NEW t \in Thread, NEW a \in Addr, Lookup(t, a) PROVE Ends'
    BY PoolAssumption, <1>1 DEF Lookup, Removing
  <1>2. ASSUME NEW t \in Thread, Connect(t) PROVE Ends'
    BY PoolAssumption, <1>2 DEF Connect, Open, Removing
  <1>3. ASSUME NEW t \in Thread, ConnectFails(t) PROVE Ends'
    BY PoolAssumption, <1>3 DEF ConnectFails, Removing
  <1>4. ASSUME NEW t \in Thread, Attach(t) PROVE Ends'
    BY PoolAssumption, <1>4 DEF Attach, Removing
  <1>5. ASSUME NEW t \in Thread, Replace(t) PROVE Ends'
    <2>1. Fetch(t, Id(own[t])) /\ Id(own[t]) \in Key
      BY <1>5, IdInKey DEF Replace
    <2>2. Halts(t, Id(own[t])) /\ Removes(t, Id(own[t]))
      BY <1>5, <2>1, FetchHalts, FetchRemoves DEF Replace
    <2> QED
      BY PoolAssumption, <1>5, <2>1, <2>2 DEF Replace, Halts, Removes
  <1>6. ASSUME NEW t \in Thread, Evict(t) PROVE Ends'
    <2>1. ASSUME NEW c \in Conn, Fetch(t, Id(c)) PROVE Ends'
      <3>1. Id(c) \in Key /\ Halts(t, Id(c)) /\ Removes(t, Id(c))
        BY <1>6, <2>1, FetchHalts, FetchRemoves, IdInKey DEF Evict
      <3> QED
        BY PoolAssumption, <1>6, <3>1 DEF Evict, Halts, Removes
    <2>2. CASE UNCHANGED <<stop, drop>>
      BY PoolAssumption, <1>6, <2>2 DEF Evict, Removing
    <2> QED
      BY <1>6, <2>1, <2>2 DEF Evict, Listed
  <1>7. ASSUME NEW t \in Thread, Fits(t) PROVE Ends'
    BY PoolAssumption, <1>7 DEF Fits, Id, Removing
  <1>8. ASSUME NEW t \in Thread, MakeRoom(t) PROVE Ends'
    BY PoolAssumption, <1>8 DEF MakeRoom, Remove, Removing
  <1>9. ASSUME NEW t \in Thread, Put(t) PROVE Ends'
    <2>1. Lists(t)
      BY <1>9, PutLists
    <2>2. UNCHANGED <<life, attached, address, stop, dest, drop, halting>> /\ pc[t] = "put"
      BY <1>9 DEF Put
    <2>3. key'[t] = NoAddr /\ \A u \in Thread : u # t => key'[u] = key[u]
      BY <1>9 DEF Put
    <2> QED
      BY PoolAssumption, <2>1, <2>2, <2>3 DEF Lists, Removing
  <1>10. ASSUME NEW t \in Thread, Send(t) PROVE Ends'
    BY PoolAssumption, <1>10 DEF Send, Removing
  <1>11. ASSUME NEW a \in Addr, Incoming(a) PROVE Ends'
    BY PoolAssumption, <1>11 DEF Incoming, Open, Removing
  <1>12. ASSUME NEW c \in Conn, ReadEnds(c) PROVE Ends'
    BY PoolAssumption, <1>12 DEF ReadEnds, Removing
  <1>13. ASSUME NEW c \in Conn, Terminated(c) PROVE Ends'
    <2>1. Fetch(c, Id(c)) /\ Id(c) \in Key
      BY <1>13, IdInKey DEF Terminated
    <2>2. Halts(c, Id(c))
      BY <2>1, FetchHalts
    <2> QED
      BY PoolAssumption, <1>13, <2>1, <2>2 DEF Terminated, Removing, Id, Halts
  <1>14. ASSUME NEW c \in Conn, TakeOut(c) PROVE Ends'
    BY PoolAssumption, <1>14 DEF TakeOut, Remove, Removing
  <1>15. ASSUME NEW c \in Conn, Forget(c) PROVE Ends'
    BY PoolAssumption, <1>15 DEF Forget, Removing
  <1>16. ASSUME HaltConnections PROVE Ends'
    BY PoolAssumption, <1>16 DEF HaltConnections, Listed, Removing
  <1>17. ASSUME NewTable PROVE Ends'
    BY PoolAssumption, <1>17 DEF NewTable, Removing
  <1>18. ASSUME UNCHANGED vars PROVE Ends'
    BY <1>18 DEF vars, Removing
  <1> QED
    BY <1>1, <1>2, <1>3, <1>4, <1>5, <1>6, <1>7, <1>8, <1>9, <1>10, <1>11, <1>12,
       <1>13, <1>14, <1>15, <1>16, <1>17, <1>18 DEF Next, ThreadStep, ReaderStep

\* A stopped connection is on its way out.
LEMMA ListedIsUsableStep == IInv /\ [Next]_vars => ListedIsUsable'
  <1> SUFFICES ASSUME IInv, [Next]_vars PROVE ListedIsUsable'
    OBVIOUS
  <1> USE DEF IInv, TypeOK, Owns, Unshared, Drops, Keyed, Ends, ListedIsUsable, vars,
     threadVars, connVars
  <1>1. ASSUME NEW t \in Thread, NEW a \in Addr, Lookup(t, a) PROVE ListedIsUsable'
    BY PoolAssumption, <1>1 DEF Lookup, Removing
  <1>2. ASSUME NEW t \in Thread, Connect(t) PROVE ListedIsUsable'
    BY PoolAssumption, <1>2 DEF Connect, Open, Removing
  <1>3. ASSUME NEW t \in Thread, ConnectFails(t) PROVE ListedIsUsable'
    BY PoolAssumption, <1>3 DEF ConnectFails, Removing
  <1>4. ASSUME NEW t \in Thread, Attach(t) PROVE ListedIsUsable'
    BY PoolAssumption, <1>4 DEF Attach, Removing
  <1>5. ASSUME NEW t \in Thread, Replace(t) PROVE ListedIsUsable'
    <2>1. Fetch(t, Id(own[t])) /\ Id(own[t]) \in Key
      BY <1>5, IdInKey DEF Replace
    <2>2. Halts(t, Id(own[t])) /\ Removes(t, Id(own[t]))
      BY <1>5, <2>1, FetchHalts, FetchRemoves DEF Replace
    <2> QED
      BY <1>5, <2>1, <2>2, HaltedIsRemoved DEF Replace
  <1>6. ASSUME NEW t \in Thread, Evict(t) PROVE ListedIsUsable'
    <2>1. ASSUME NEW c \in Conn, Fetch(t, Id(c)) PROVE ListedIsUsable'
      <3>1. Id(c) \in Key /\ Halts(t, Id(c)) /\ Removes(t, Id(c))
        BY <1>6, <2>1, FetchHalts, FetchRemoves, IdInKey DEF Evict
      <3> QED
        BY <1>6, <3>1, HaltedIsRemoved DEF Evict
    <2>2. CASE UNCHANGED <<stop, drop>>
      BY PoolAssumption, <1>6, <2>2 DEF Evict, Removing
    <2> QED
      BY <1>6, <2>1, <2>2 DEF Evict, Listed
  <1>7. ASSUME NEW t \in Thread, Fits(t) PROVE ListedIsUsable'
    BY PoolAssumption, <1>7 DEF Fits, Id, Removing
  <1>8. ASSUME NEW t \in Thread, MakeRoom(t) PROVE ListedIsUsable'
    BY PoolAssumption, <1>8 DEF MakeRoom, Remove, Removing
  <1>9. ASSUME NEW t \in Thread, Put(t) PROVE ListedIsUsable'
    <2>1. Lists(t)
      BY <1>9, PutLists
    <2>2. UNCHANGED <<life, attached, address, stop, drop, halting>> /\ pc[t] = "put"
      BY <1>9 DEF Put
    <2>3. stop[own[t]] /\ life[own[t]] # "ending" => late'[own[t]]
      BY <2>1, <2>2 DEF Lists, Life
    <2>4. \A y \in Thread \cup Conn, k \in Key : Removing(y, k)' <=> Removing(y, k)
      BY <2>2 DEF Removing
    <2> QED
      BY PoolAssumption, <2>1, <2>2, <2>3, <2>4 DEF Lists
  <1>10. ASSUME NEW t \in Thread, Send(t) PROVE ListedIsUsable'
    BY PoolAssumption, <1>10 DEF Send, Removing
  <1>11. ASSUME NEW a \in Addr, Incoming(a) PROVE ListedIsUsable'
    BY PoolAssumption, <1>11 DEF Incoming, Open, Removing
  <1>12. ASSUME NEW c \in Conn, ReadEnds(c) PROVE ListedIsUsable'
    BY PoolAssumption, <1>12 DEF ReadEnds, Removing
  <1>13. ASSUME NEW c \in Conn, Terminated(c) PROVE ListedIsUsable'
    <2>1. Fetch(c, Id(c)) /\ Id(c) \in Key
      BY <1>13, IdInKey DEF Terminated
    <2>2. Halts(c, Id(c))
      BY <2>1, FetchHalts
    <2> QED
      BY PoolAssumption, <1>13, <2>1, <2>2 DEF Terminated, Removing, Id, Halts
  <1>14. ASSUME NEW c \in Conn, TakeOut(c) PROVE ListedIsUsable'
    BY PoolAssumption, <1>14 DEF TakeOut, Remove, Removing
  <1>15. ASSUME NEW c \in Conn, Forget(c) PROVE ListedIsUsable'
    BY PoolAssumption, <1>15 DEF Forget, Removing
  <1>16. ASSUME HaltConnections PROVE ListedIsUsable'
    BY PoolAssumption, <1>16 DEF HaltConnections, Listed, Removing
  <1>17. ASSUME NewTable PROVE ListedIsUsable'
    BY PoolAssumption, <1>17 DEF NewTable, Removing
  <1>18. ASSUME UNCHANGED vars PROVE ListedIsUsable'
    BY <1>18 DEF vars, Removing
  <1> QED
    BY <1>1, <1>2, <1>3, <1>4, <1>5, <1>6, <1>7, <1>8, <1>9, <1>10, <1>11, <1>12,
       <1>13, <1>14, <1>15, <1>16, <1>17, <1>18 DEF Next, ThreadStep, ReaderStep

LEMMA Invariance == Spec => []IInv
  <1>1. IInv /\ [Next]_vars => IInv'
    BY TypeOKStep, OwnsStep, UnsharedStep, DropsStep, KeyedStep, EndsStep, ListedIsUsableStep
       DEF IInv
  <1> QED
    BY InitInv, <1>1, PTL DEF Spec

-----------------------------------------------------------------------------
\* Every variable keeps its type and what is open has an address.
THEOREM TypeCorrect == Spec => []TypeOK
  <1>1. IInv => TypeOK
    BY DEF IInv
  <1> QED
    BY <1>1, Invariance, PTL

\* A stopped connection is listed only while somebody is taking it out, or because it
\* ended before it was put in the table (SipProvider.java:1136, TcpConnection.java:164).
THEOREM ListedUsable == Spec => []ListedIsUsable
  <1>1. IInv => ListedIsUsable
    BY DEF IInv
  <1> QED
    BY <1>1, Invariance, PTL

\* What leaves the table has been halted, save in the named races.
THEOREM LeavesTableHalted == Spec => LeavesHalted
  <1> DEFINE
        Excused(k, c) ==
           \/ halting /\ ~halting'
           \/ \E t \in Thread : pc[t] = "put" /\ pc'[t] # "put" /\ own[t] # c
           \/ \E x \in Thread \cup Conn : Removing(x, k) /\ drop'[x] = None /\ drop[x].conn # c
        Left ==
          \A k \in Key : \A c \in Conn :
            (table[k] = c /\ table'[k] # c /\ ~stop'[c]) =>
               \/ halting /\ ~halting'
               \/ \E t \in Thread : pc[t] = "put" /\ pc'[t] # "put" /\ own[t] # c
               \/ \E x \in Thread \cup Conn : /\ Removing(x, k) /\ drop'[x] = None
                                              /\ drop[x].conn # c
  <1>1. IInv /\ [Next]_vars => Left
    <2> SUFFICES ASSUME IInv, [Next]_vars, NEW k \in Key, NEW c \in Conn,
                        table[k] = c, table'[k] # c, ~stop'[c]
                 PROVE  Excused(k, c)
      OBVIOUS
    <2>1. CASE NewTable
      BY <2>1 DEF NewTable
    <2>2. ASSUME NEW t \in Thread, Put(t) PROVE Excused(k, c)
      <3>1. own[t] # c
        BY PoolAssumption DEF IInv, Unshared
      <3>2. pc[t] = "put" /\ pc'[t] # "put"
        BY <2>2, PutLists DEF Put, Lists, IInv
      <3> QED
        BY <3>1, <3>2
    <2>3. ASSUME NEW x \in Thread \cup Conn, Remove(x), UNCHANGED stop PROVE Excused(k, c)
      <3>1. Removing(x, k) /\ drop'[x] = None
        BY <2>3 DEF Remove, IInv, TypeOK
      <3>2. drop[x].conn # c
        BY <2>3, <3>1 DEF Removing, IInv, Drops
      <3> QED
        BY <3>1, <3>2
    <2>4. (\E t \in Thread : MakeRoom(t)) \/ (\E d \in Conn : TakeOut(d))
            => \E x \in Thread \cup Conn : Remove(x) /\ UNCHANGED stop
      BY DEF MakeRoom, TakeOut
    <2>5. \/ NewTable \/ \E t \in Thread : MakeRoom(t) \/ Put(t)
          \/ \E d \in Conn : TakeOut(d)
      BY DEF Next, ThreadStep, ReaderStep, Lookup, Connect, ConnectFails, Incoming, Open, Attach,
             Replace, Evict, Fits, Send, ReadEnds, Terminated, Forget, HaltConnections, vars
    <2> QED
      BY <2>1, <2>2, <2>3, <2>4, <2>5
  <1> QED
    BY <1>1, Invariance, PTL DEF Spec, LeavesHalted

=============================================================================
