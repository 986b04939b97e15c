--------------------------- MODULE ConnectionPool ---------------------------
(***************************************************************************)
(* The table of TCP connections of a SipProvider: sendMessage opens and    *)
(* looks up connections, TcpServer accepts them, the reader thread of each *)
(* connection takes it out when it ends, haltConnections stops them all.   *)
(* None of this is synchronised; one step of the model is one access to    *)
(* the table with the tests around it.  The table is keyed by the remote   *)
(* address, and a transport whose connection is gone (tcp_conn = null)     *)
(* names itself "tcp:null:0", here NoAddr.                                 *)
(***************************************************************************)
EXTENDS Naturals, FiniteSets

CONSTANTS Conn,        \* the connections that may ever be opened (a bound)
          Addr,        \* remote addresses
          NoAddr,      \* "tcp:null:0"
          Thread,      \* the threads that open connections ...
          Server,      \* ... of which one is TcpServer's
          NMax,        \* nmax_connections
          None

ASSUME PoolAssumption == /\ Server \in Thread
                         /\ NMax \in Nat \ {0}
                         /\ NoAddr \notin Addr
                         /\ None \notin Conn \cup Addr \cup {NoAddr}
                         /\ None \notin [key : Addr \cup {NoAddr}, conn : Conn]
                         /\ Thread \cap Conn = {}

VARIABLES table,       \* connections: key -> connection or None
          life,        \* where the connection's reader thread is
          stop,        \* TcpConnection.stop
          attached,    \* whether TcpTransport.tcp_conn is set
          address,     \* the remote address of the socket
          pc,          \* where a thread is in sendMessage or addConnection
          dest,        \* the address it sends to
          own,         \* the connection it adds
          key,         \* conn_id in addConnection
          drop,        \* the entry a thread or a reader has halted and will remove
          halting,     \* haltConnections has halted and not yet replaced
          late         \* history: put after its reader was done with the table

vars == <<table, life, stop, attached, address, pc, dest, own, key, drop, halting, late>>
threadVars == <<pc, dest, own, key>>
connVars == <<life, attached, address>>

Key == Addr \cup {NoAddr}
Life == {"unborn", "running", "ending", "removing", "told", "done"}
Step == {"idle", "connect", "opened", "add", "remove", "put", "send"}

Listed == {c \in Conn : \E k \in Key : table[k] = c}

(* ConnectionIdentifier of a transport *)
Id(c) == IF attached[c] THEN address[c] ELSE NoAddr

Init == /\ table = [k \in Key |-> None]
        /\ life = [c \in Conn |-> "unborn"]
        /\ stop = [c \in Conn |-> FALSE]
        /\ attached = [c \in Conn |-> FALSE]
        /\ address = [c \in Conn |-> None]
        /\ pc = [t \in Thread |-> "idle"]
        /\ dest = [t \in Thread |-> None]
        /\ own = [t \in Thread |-> None]
        /\ key = [t \in Thread |-> NoAddr]
        /\ drop = [x \in Thread \cup Conn |-> None]
        /\ halting = FALSE
        /\ late = [c \in Conn |-> FALSE]

-----------------------------------------------------------------------------
(* removeConnection, which the replacement in addConnection repeats: halt  *)
(* what is listed under k, and in another step take k out                  *)
Found(k) == IF table[k] = None THEN None ELSE [key |-> k, conn |-> table[k]]
Removing(x, k) == drop[x] # None /\ drop[x].key = k

MutantNoHalt(x, k) == drop' = [drop EXCEPT ![x] = Found(k)] /\ UNCHANGED stop

Fetch(x, k) == /\ drop' = [drop EXCEPT ![x] = Found(k)]
               /\ stop' = [c \in Conn |-> stop[c] \/ table[k] = c]

Remove(x) == /\ table' = [k \in Key |-> IF Removing(x, k) THEN None ELSE table[k]]
             /\ drop' = [drop EXCEPT ![x] = None]

-----------------------------------------------------------------------------
(* sendMessage finds a connection to a, or goes on to open one *)
Lookup(t, a) ==
    /\ t # Server /\ pc[t] = "idle"
    /\ dest' = [dest EXCEPT ![t] = a]
    /\ pc' = [pc EXCEPT ![t] = IF table[a] = None THEN "connect" ELSE "send"]
    /\ UNCHANGED <<table, connVars, stop, own, key, drop, halting, late>>

(* a socket to a, and the TcpConnection on it, whose thread starts at once *)
MutantNoAddress(t, a) ==
    \E c \in Conn :
       /\ life[c] = "unborn"
       /\ life' = [life EXCEPT ![c] = "running"]
       /\ own' = [own EXCEPT ![t] = c]
       /\ pc' = [pc EXCEPT ![t] = "opened"]
       /\ UNCHANGED <<table, stop, attached, address, dest, key, drop, halting, late>>

Open(t, a) ==
    \E c \in Conn :
       /\ life[c] = "unborn"
       /\ life' = [life EXCEPT ![c] = "running"]
       /\ address' = [address EXCEPT ![c] = a]
       /\ own' = [own EXCEPT ![t] = c]
       /\ pc' = [pc EXCEPT ![t] = "opened"]
       /\ UNCHANGED <<table, stop, attached, dest, key, drop, halting, late>>

Connect(t) == pc[t] = "connect" /\ Open(t, dest[t])

(* no answer, or TcpSocket.lock is held by another thread's connect *)
ConnectFails(t) ==
    /\ pc[t] = "connect"
    /\ pc' = [pc EXCEPT ![t] = "idle"] /\ dest' = [dest EXCEPT ![t] = None]
    /\ UNCHANGED <<table, connVars, stop, own, key, drop, halting, late>>

Incoming(a) == pc[Server] = "idle" /\ Open(Server, a)

(* the constructor of TcpTransport assigns tcp_conn, the reader running *)
Attach(t) ==
    /\ pc[t] = "opened"
    /\ attached' = [attached EXCEPT ![own[t]] = TRUE]
    /\ pc' = [pc EXCEPT ![t] = "add"]
    /\ UNCHANGED <<table, life, stop, address, dest, own, key, drop, halting, late>>

(* addConnection under a key that is taken: the old connection goes *)
Replace(t) ==
    /\ pc[t] = "add" /\ table[Id(own[t])] # None
    /\ key' = [key EXCEPT ![t] = Id(own[t])]
    /\ Fetch(t, Id(own[t]))
    /\ pc' = [pc EXCEPT ![t] = "remove"]
    /\ UNCHANGED <<table, connVars, dest, own, halting, late>>

(* addConnection to a full table: the connection that is enumerated last   *)
(* among those not used in this millisecond goes, looked up by its own id, *)
(* or none does                                                            *)
Evict(t) ==
    /\ pc[t] = "add" /\ table[Id(own[t])] = None
    /\ Cardinality({k \in Key : table[k] # None}) >= NMax
    /\ key' = [key EXCEPT ![t] = Id(own[t])]
    /\ \/ /\ \E c \in Listed : Fetch(t, Id(c))
          /\ pc' = [pc EXCEPT ![t] = "remove"]
       \/ /\ pc' = [pc EXCEPT ![t] = "put"]
          /\ UNCHANGED <<stop, drop>>
    /\ UNCHANGED <<table, connVars, dest, own, halting, late>>

Fits(t) ==
    /\ pc[t] = "add" /\ table[Id(own[t])] = None
    /\ Cardinality({k \in Key : table[k] # None}) < NMax
    /\ key' = [key EXCEPT ![t] = Id(own[t])]
    /\ pc' = [pc EXCEPT ![t] = "put"]
    /\ UNCHANGED <<table, connVars, stop, dest, own, drop, halting, late>>

MakeRoom(t) ==
    /\ pc[t] = "remove"
    /\ Remove(t)
    /\ pc' = [pc EXCEPT ![t] = "put"]
    /\ UNCHANGED <<connVars, stop, dest, own, key, halting, late>>

Put(t) ==
    /\ pc[t] = "put"
    /\ table' = [table EXCEPT ![key[t]] = own[t]]
    /\ late' = [late EXCEPT ![own[t]] = life[own[t]] \in {"removing", "told", "done"}]
    /\ pc' = [pc EXCEPT ![t] = IF t = Server THEN "idle" ELSE "send"]
    /\ own' = [own EXCEPT ![t] = None] /\ key' = [key EXCEPT ![t] = NoAddr]
    /\ UNCHANGED <<connVars, stop, dest, drop, halting>>

(* sendMessage writes to what is listed under the address, if anything is; *)
(* a connection that is stopped takes the message and does not write it    *)
Send(t) ==
    /\ pc[t] = "send"
    /\ pc' = [pc EXCEPT ![t] = "idle"] /\ dest' = [dest EXCEPT ![t] = None]
    /\ UNCHANGED <<table, connVars, stop, own, key, drop, halting, late>>

-----------------------------------------------------------------------------
(* The reader thread leaves its loop: the peer closed, reading failed, or  *)
(* data came after the connection was halted.  Nothing else wakes a read.  *)
ReadEnds(c) ==
    /\ life[c] = "running"
    /\ life' = [life EXCEPT ![c] = "ending"]
    /\ stop' = [stop EXCEPT ![c] = TRUE]
    /\ UNCHANGED <<table, attached, address, threadVars, drop, halting, late>>

(* onConnectionTerminated tells the provider, then forgets tcp_conn *)
MutantForgetFirst(c) ==
    /\ life[c] = "ending"
    /\ Fetch(c, NoAddr)
    /\ life' = [life EXCEPT ![c] = "removing"]
    /\ UNCHANGED <<table, attached, address, threadVars, halting, late>>

Terminated(c) ==
    /\ life[c] = "ending"
    /\ Fetch(c, Id(c))
    /\ life' = [life EXCEPT ![c] = "removing"]
    /\ UNCHANGED <<table, attached, address, threadVars, halting, late>>

TakeOut(c) ==
    /\ life[c] = "removing"
    /\ Remove(c)
    /\ life' = [life EXCEPT ![c] = "told"]
    /\ UNCHANGED <<stop, attached, address, threadVars, halting, late>>

Forget(c) ==
    /\ life[c] = "told"
    /\ attached' = [attached EXCEPT ![c] = FALSE]
    /\ life' = [life EXCEPT ![c] = "done"]
    /\ UNCHANGED <<table, stop, address, threadVars, drop, halting, late>>

(* haltConnections halts what is listed and then puts in a new table *)
HaltConnections ==
    /\ ~halting
    /\ stop' = [c \in Conn |-> stop[c] \/ c \in Listed]
    /\ halting' = TRUE
    /\ UNCHANGED <<table, connVars, threadVars, drop, late>>

NewTable ==
    /\ halting
    /\ table' = [k \in Key |-> None]
    /\ halting' = FALSE
    /\ UNCHANGED <<connVars, stop, threadVars, drop, late>>

ThreadStep(t) == \/ Attach(t) \/ Replace(t) \/ Evict(t) \/ Fits(t)
                 \/ MakeRoom(t) \/ Put(t) \/ Send(t)
ReaderStep(c) == Terminated(c) \/ TakeOut(c) \/ Forget(c)

Next == \/ \E t \in Thread : \/ \E a \in Addr : Lookup(t, a)
                             \/ Connect(t) \/ ConnectFails(t) \/ ThreadStep(t)
        \/ \E a \in Addr : Incoming(a)
        \/ \E c \in Conn : ReadEnds(c) \/ ReaderStep(c)
        \/ HaltConnections \/ NewTable

Spec == Init /\ [][Next]_vars

-----------------------------------------------------------------------------
(* Types, and that every connection that was opened has an address. *)
TypeOK ==
    /\ table \in [Key -> Conn \cup {None}]
    /\ life \in [Conn -> Life]
    /\ stop \in [Conn -> BOOLEAN] /\ attached \in [Conn -> BOOLEAN]
    /\ address \in [Conn -> Addr \cup {None}]
    /\ \A c \in Conn : life[c] = "unborn" <=> address[c] = None
    /\ pc \in [Thread -> Step]
    /\ dest \in [Thread -> Addr \cup {None}] /\ own \in [Thread -> Conn \cup {None}]
    /\ key \in [Thread -> Key]
    /\ drop \in [Thread \cup Conn -> [key : Key, conn : Conn] \cup {None}]
    /\ halting \in BOOLEAN /\ late \in [Conn -> BOOLEAN]

(* A listed connection that is stopped swallows what is sent to its        *)
(* address: TcpConnection.send does nothing and reports nothing.  It is    *)
(* listed only while somebody is taking it out (haltConnections, a thread  *)
(* that removes its key, its own reader), or because the connection ended  *)
(* before addConnection put it in the table.                               *)
ListedIsUsable ==
    \A k \in Key : \A c \in Conn :
       (table[k] = c /\ stop[c]) =>
          \/ halting
          \/ \E x \in Thread \cup Conn : Removing(x, k)
          \/ life[c] = "ending"
          \/ late[c]

(* A connection leaves the table halted, so that its reader will not       *)
(* outlive it for longer than a read, unless it was put in while another   *)
(* thread was at it: the table replaced by haltConnections, the key put    *)
(* again by an addConnection that had found it free, or removed by a       *)
(* thread that halted the connection listed before.                        *)
LeavesHalted ==
    [][\A k \in Key : \A c \in Conn :
          (table[k] = c /\ table'[k] # c /\ ~stop'[c]) =>
             \/ halting /\ ~halting'
             \/ \E t \in Thread : pc[t] = "put" /\ pc'[t] # "put" /\ own[t] # c
             \/ \E x \in Thread \cup Conn : /\ Removing(x, k) /\ drop'[x] = None
                                            /\ drop[x].conn # c]_vars
=============================================================================
