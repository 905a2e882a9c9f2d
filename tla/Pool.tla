-------------------------------- MODULE Pool --------------------------------
(* Several clients share the connections of a pool to one database.  The     *)
(* pool is sqlx_core's (pool.rs names it; external here): connections that   *)
(* are given back wait in a FIFO queue, clients for a permit in another, and *)
(* ping is all it asks of a connection.  What the adapter adds is the        *)
(* transaction state of each connection, whose queued rollbacks run on its   *)
(* next use, and its statement cache.  The engine (external) has one write   *)
(* lock, held by a transaction from its first write to its end.              *)
(*                                                                           *)
(* The content of the database is the sequence of writes in it; a write      *)
(* stands for data and schema alike, so a prepared statement, which keeps    *)
(* the columns it was prepared with, keeps a content.  Transactions are one  *)
(* level deep: Connection.tla has the nested ones.                           *)
EXTENDS TransactionState, SequencesExt

CONSTANTS
  Conns, Clients,
  NoConn,          \* no connection: a client has none, the lock is free
  MaxTx,           \* bound: transactions and autocommitted writes of a client
  RollbackFails    \* the engine may refuse a ROLLBACK it could run

ASSUME PoolAssumption ==
  /\ NoConn \notin Conns
  /\ MaxTx \in Nat
  /\ RollbackFails \in BOOLEAN

VARIABLES
  conn,        \* the TursoConnections and their turso::Connections
  history,     \* the committed content
  lock,        \* the connection with the write lock
  idle,        \* connections in the pool, the next to hand out first
  queue,       \* clients waiting to acquire
  client,      \* the clients
  lost, kept   \* writes whose handle was dropped or rolled back; committed

pool == <<idle, queue>>
vars == <<conn, history, lock, pool, client, lost, kept>>

(* tx: the engine is in a transaction; snap: it has read, so view is what it *)
(* sees; cache: the content a cached statement was prepared with.            *)
Closed ==
  [open |-> FALSE, st |-> DefaultState, tx |-> FALSE, snap |-> FALSE, view |-> <<>>,
   cached |-> FALSE, cache |-> <<>>]

Away == [pc |-> "away", has |-> NoConn, handle |-> FALSE, tx |-> 0]

Init ==
  /\ conn = [c \in Conns |-> Closed]
  /\ history = <<>> /\ lock = NoConn
  /\ idle = <<>> /\ queue = <<>>
  /\ client = [u \in Clients |-> Away]
  /\ lost = {} /\ kept = {}

Of(u) == client[u].has
State(u) == conn[Of(u)].st
Content(c) == IF conn[c].snap THEN conn[c].view ELSE history

(* The write of client u in its current transaction. *)
Id(u) == [by |-> u, tx |-> client[u].tx]

-----------------------------------------------------------------------------
(* The pool.                                                                 *)

Acquire(u) ==
  /\ client[u].pc = "away"
  /\ client' = [client EXCEPT ![u].pc = "waiting"]
  /\ queue' = Append(queue, u)
  /\ UNCHANGED <<conn, history, lock, idle, lost, kept>>

(* acquire_timeout. *)
AcquireTimesOut(u) ==
  /\ client[u].pc = "waiting"
  /\ client' = [client EXCEPT ![u].pc = "away"]
  /\ \E i \in 1 .. Len(queue) : queue[i] = u /\ queue' = RemoveAt(queue, i)
  /\ UNCHANGED <<conn, history, lock, idle, lost, kept>>

(* Connection::ping: Ok, whatever the transaction state is. *)
Ping(c) == TRUE

Hand(c, u) ==
  /\ queue # <<>> /\ u = Head(queue)
  /\ queue' = Tail(queue)
  /\ client' = [client EXCEPT ![u].pc = "ready", ![u].has = c]
  /\ UNCHANGED <<history, lock, lost, kept>>

(* The connection that was given back first, if it answers the ping. *)
HandIdle(u) ==
  /\ idle # <<>> /\ Ping(Head(idle))
  /\ Hand(Head(idle), u)
  /\ idle' = Tail(idle)
  /\ UNCHANGED conn

HandNew(u) ==
  /\ idle = <<>>
  /\ \E c \in Conns :
       /\ ~conn[c].open
       /\ Hand(c, u)
       /\ conn' = [conn EXCEPT ![c].open = TRUE]
  /\ UNCHANGED idle

(* PoolConnection::drop.  A Transaction owns or borrows the connection, so   *)
(* its handle is gone by now.                                                *)
GiveBack(u) ==
  /\ client[u].pc = "ready" /\ ~client[u].handle
  /\ client' = [client EXCEPT ![u].pc = "away", ![u].has = NoConn]
  /\ idle' = Append(idle, Of(u))
  /\ UNCHANGED <<conn, history, lock, queue, lost, kept>>

(* max_lifetime or idle_timeout: the connection is closed, and with it the   *)
(* engine's transaction.                                                     *)
Expire ==
  /\ idle # <<>>
  /\ conn' = [conn EXCEPT ![Head(idle)] = Closed]
  /\ lock' = IF lock = Head(idle) THEN NoConn ELSE lock
  /\ idle' = Tail(idle)
  /\ UNCHANGED <<history, queue, client, lost, kept>>

-----------------------------------------------------------------------------
(* Calls of a client on its connection.                                      *)

Queries == {"read", "write"}

Call(u, op) ==
  /\ client[u].pc = "ready"
  /\ CASE op = "begin"                -> ~client[u].handle /\ client[u].tx < MaxTx
       [] op \in {"commit", "rollback"} -> client[u].handle
       [] op = "write"                -> client[u].handle \/ client[u].tx < MaxTx
       [] op \in {"read", "prepare"}  -> TRUE
  /\ client' = [client EXCEPT
       ![u].pc = op,
       ![u].tx = IF op = "begin" \/ (op = "write" /\ ~client[u].handle) THEN @ + 1 ELSE @]
  /\ UNCHANGED <<conn, history, lock, pool, lost, kept>>

(* Transaction::drop: start_rollback. *)
DropHandle(u) ==
  /\ client[u].pc = "ready" /\ client[u].handle
  /\ client' = [client EXCEPT ![u].handle = FALSE]
  /\ conn' = [conn EXCEPT ![Of(u)].st = MarkRollbackNeeded(@)]
  /\ lost' = lost \cup {Id(u)}
  /\ UNCHANGED <<history, lock, pool, kept>>

(* The engine's transaction on c ends. *)
Ended(c) == [conn[c] EXCEPT !.tx = FALSE, !.snap = FALSE, !.view = <<>>]
Unlocked(c) == IF lock = c THEN NoConn ELSE lock

Back(u) == client' = [client EXCEPT ![u].pc = "ready"]

(* clear_pending_rollback, which all calls but prepare and describe await.   *)
Drains(u) == client[u].pc \in {"begin", "commit", "rollback"} \cup Queries

(* Faulty: a depth is taken off the queue and nothing is sent. *)
ForgetPending(u) ==
  /\ Drains(u) /\ ~State(u).failed /\ State(u).pending # <<>>
  /\ conn' = [conn EXCEPT ![Of(u)].st = PopPendingRollback(@)]
  /\ UNCHANGED <<history, lock, pool, client, lost, kept>>

RollBackPending(u) ==
  /\ Drains(u) /\ ~State(u).failed /\ State(u).pending # <<>>
  /\ conn' = [conn EXCEPT ![Of(u)] =
       [Ended(Of(u)) EXCEPT !.st = PopPendingRollback(@)]]
  /\ lock' = Unlocked(Of(u))
  /\ UNCHANGED <<history, pool, client, lost, kept>>

(* The call ends with an error, and the handle of commit or rollback with it.*)
(* That of a begin queues nothing: no scope is open around it.               *)
GiveUp(u) ==
  /\ client' = [client EXCEPT ![u].pc = "ready",
       ![u].handle = @ /\ client[u].pc \notin {"commit", "rollback"}]
  /\ lost' = IF client[u].pc \in {"commit", "rollback"}
             THEN lost \cup {Id(u)} ELSE lost

Marked(u) ==
  IF client[u].pc \in {"commit", "rollback"} THEN MarkRollbackNeeded(State(u)) ELSE State(u)

FailPending(u) ==
  /\ RollbackFails
  /\ Drains(u) /\ ~State(u).failed /\ State(u).pending # <<>>
  /\ GiveUp(u)
  /\ conn' = [conn EXCEPT ![Of(u)].st = MarkRollbackFailed(@)]
  /\ UNCHANGED <<history, lock, pool, kept>>

(* Err(WorkerCrashed). *)
RefuseFailed(u) ==
  /\ Drains(u) /\ State(u).failed
  /\ GiveUp(u)
  /\ conn' = [conn EXCEPT ![Of(u)].st = Marked(u)]
  /\ UNCHANGED <<history, lock, pool, kept>>

(* Faulty: queued rollbacks are not awaited. *)
RunsAtOnce(u, op) == client[u].pc = op /\ ~State(u).failed

Runs(u, op) == client[u].pc = op /\ ~State(u).failed /\ State(u).pending = <<>>

Begin(u) ==
  /\ Runs(u, "begin") /\ ~conn[Of(u)].tx
  /\ conn' = [conn EXCEPT ![Of(u)].tx = TRUE, ![Of(u)].st = IncrementDepth(@)]
  /\ client' = [client EXCEPT ![u].pc = "ready", ![u].handle = TRUE]
  /\ UNCHANGED <<history, lock, pool, lost, kept>>

Commit(u) ==
  /\ Runs(u, "commit") /\ conn[Of(u)].tx
  /\ history' = IF lock = Of(u) THEN conn[Of(u)].view ELSE history
  /\ lock' = Unlocked(Of(u))
  /\ conn' = [conn EXCEPT ![Of(u)] = [Ended(Of(u)) EXCEPT !.st = DecrementDepth(@)]]
  /\ client' = [client EXCEPT ![u].pc = "ready", ![u].handle = FALSE]
  /\ kept' = IF Id(u) \in ToSet(history') THEN kept \cup {Id(u)} ELSE kept
  /\ UNCHANGED <<pool, lost>>

(* Faulty: COMMIT is sent in place of ROLLBACK. *)
RollbackCommits(u) ==
  /\ Runs(u, "rollback") /\ conn[Of(u)].tx
  /\ history' = IF lock = Of(u) THEN conn[Of(u)].view ELSE history
  /\ lock' = Unlocked(Of(u))
  /\ conn' = [conn EXCEPT ![Of(u)] = [Ended(Of(u)) EXCEPT !.st = DecrementDepth(@)]]
  /\ client' = [client EXCEPT ![u].pc = "ready", ![u].handle = FALSE]
  /\ lost' = lost \cup {Id(u)}
  /\ UNCHANGED <<pool, kept>>

Rollback(u) ==
  /\ Runs(u, "rollback") /\ conn[Of(u)].tx
  /\ lock' = Unlocked(Of(u))
  /\ conn' = [conn EXCEPT ![Of(u)] = [Ended(Of(u)) EXCEPT !.st = DecrementDepth(@)]]
  /\ client' = [client EXCEPT ![u].pc = "ready", ![u].handle = FALSE]
  /\ lost' = lost \cup {Id(u)}
  /\ UNCHANGED <<history, pool, kept>>

(* BEGIN, COMMIT or ROLLBACK fails. *)
TransactionFails(u) ==
  /\ \E op \in {"begin", "commit", "rollback"} : Runs(u, op)
  /\ GiveUp(u)
  /\ conn' = [conn EXCEPT ![Of(u)].st = Marked(u)]
  /\ UNCHANGED <<history, lock, pool, kept>>

(* prepare_sql: a cached statement, or one with the columns of the content   *)
(* the engine sees now, which is cached.                                     *)
Columns(c) == IF conn[c].cached THEN conn[c].cache ELSE Content(c)

Cached(c) == [conn[c] EXCEPT !.cached = TRUE, !.cache = Columns(c)]

(* prepare_with and describe neither drain nor look at the failed flag. *)
Prepare(u) ==
  /\ client[u].pc = "prepare"
  /\ conn' = [conn EXCEPT ![Of(u)] = Cached(Of(u))]
  /\ Back(u)
  /\ UNCHANGED <<history, lock, pool, lost, kept>>

(* fetch_many_sql with a query that reads.  A persistent one runs the cached *)
(* statement, whose columns its rows then have.                              *)
Read(u) ==
  LET c == Of(u) IN
  /\ Runs(u, "read")
  /\ \E after \in {conn[c], Cached(c)} :
       conn' = [conn EXCEPT ![c] =
         IF after.tx THEN [after EXCEPT !.snap = TRUE, !.view = Content(c)] ELSE after]
  /\ Back(u)
  /\ UNCHANGED <<history, lock, pool, lost, kept>>

(* ... and with one that writes, which needs the lock and a snapshot that is *)
(* not outdated.                                                             *)
MayWrite(c) == lock = c \/ (lock = NoConn /\ Content(c) = history)

WriteInTransaction(u) ==
  LET c == Of(u) IN
  /\ Runs(u, "write") /\ conn[c].tx /\ MayWrite(c)
  /\ Id(u) \notin ToSet(Content(c))
  /\ conn' = [conn EXCEPT ![c].snap = TRUE, ![c].view = Append(Content(c), Id(u))]
  /\ lock' = c
  /\ Back(u)
  /\ UNCHANGED <<history, pool, lost, kept>>

WriteAlone(u) ==
  /\ Runs(u, "write") /\ ~conn[Of(u)].tx /\ MayWrite(Of(u))
  /\ history' = Append(history, Id(u))
  /\ kept' = kept \cup {Id(u)}
  /\ Back(u)
  /\ UNCHANGED <<conn, lock, pool, lost>>

(* Busy after busy_timeout, BusySnapshot, a constraint.  The statement       *)
(* leaves nothing; a write of its own is over.                               *)
QueryFails(u) ==
  /\ Runs(u, "read") \/ Runs(u, "write")
  /\ Back(u)
  /\ UNCHANGED <<conn, history, lock, pool, lost, kept>>

Step(u) ==
  \/ RollBackPending(u) \/ FailPending(u) \/ RefuseFailed(u)
  \/ Begin(u) \/ Commit(u) \/ Rollback(u) \/ TransactionFails(u)
  \/ Prepare(u) \/ Read(u) \/ WriteInTransaction(u) \/ WriteAlone(u) \/ QueryFails(u)

CallQuery(u) == \E op \in Queries \cup {"begin"} : Call(u, op)
CallEnd(u) == Call(u, "commit") \/ Call(u, "rollback")

Next ==
  \/ \E u \in Clients :
       \/ Acquire(u) \/ AcquireTimesOut(u) \/ HandIdle(u) \/ HandNew(u) \/ GiveBack(u)
       \/ CallQuery(u) \/ CallEnd(u) \/ Call(u, "prepare") \/ DropHandle(u)
       \/ Step(u)
  \/ Expire

Spec == Init /\ [][Next]_vars

Leave(u) == CallEnd(u) \/ DropHandle(u) \/ GiveBack(u)

(* Calls are polled, the pool serves who waits, somebody comes back, nobody  *)
(* keeps a handle or a connection for ever, and a connection that is acquired*)
(* again and again is queried at times.                                      *)
FairSpec ==
  /\ Spec
  /\ WF_vars(\E u \in Clients : Acquire(u))
  /\ SF_vars(\E u \in Clients : HandIdle(u) \/ HandNew(u))
  /\ \A u \in Clients : WF_vars(Step(u)) /\ SF_vars(Leave(u))
  /\ \A c \in Conns : SF_vars(\E u \in Clients : Of(u) = c /\ CallQuery(u))

-----------------------------------------------------------------------------
(* Properties.                                                               *)

Ids == [by : Clients, tx : 1 .. MaxTx]

(* Type correctness; every connection is in one place, and nothing is queued *)
(* on one whose rollback failed.                                             *)
TypeOK ==
  /\ \A c \in Conns :
       /\ conn[c].st \in TransactionStates
       /\ conn[c].st.failed => conn[c].st.pending = <<>>
       /\ ToSet(conn[c].view) \subseteq Ids
       /\ conn[c].open => (c \in ToSet(idle)) # (\E u \in Clients : Of(u) = c)
  /\ IsInjective(idle) /\ IsInjective(queue)
  /\ ToSet(history) \subseteq Ids /\ IsInjective(history)
  /\ lock \in Conns \cup {NoConn}
  /\ \A u \in Clients : client[u].tx \in 0 .. MaxTx

(* What a client reads on its connection, and what its own statements build  *)
(* on, is the committed content and its own work, although the connection    *)
(* came from the pool with another's transaction open (pool.rs, test         *)
(* dropped_transaction_rolls_back_before_pool_reuse).                        *)
OnlyOwnWork ==
  \A u \in Clients, op \in Queries \cup {"begin"} :
    Runs(u, op) =>
      \A i \in DOMAIN Content(Of(u)) :
        Content(Of(u))[i].by # u => Content(Of(u))[i] \in kept

(* A transaction is committed whole or not at all: nothing of a handle that  *)
(* was dropped, rolled back or failed to commit ever becomes content, nor is *)
(* content that was acknowledged taken back.                                 *)
FateKept ==
  /\ ToSet(history) = kept
  /\ kept \cap lost = {}

(* The write lock always has somebody who can give it back: an open handle   *)
(* of the client that has the connection, a queued rollback, or nobody until *)
(* the connection expires if its rollback failed.                            *)
LockHasReason ==
  \A c \in Conns :
    lock = c =>
      \/ conn[c].st.failed
      \/ conn[c].st.pending # <<>>
      \/ conn[c].st.depth > 0 /\ \E u \in Clients : Of(u) = c /\ client[u].handle

(* What prepare and describe return are the columns of the committed content*)
(* unless the statement was cached before, the client has a handle open, or  *)
(* rollbacks are still to run, which they do not await.                      *)
PreparedIsCommitted ==
  \A u \in Clients :
    /\ client[u].pc = "prepare" /\ ~conn[Of(u)].cached
    /\ State(u).depth = 0 /\ State(u).pending = <<>> /\ ~State(u).failed
    => Columns(Of(u)) = history

(* An idle connection that still has the write lock gets rid of it, because  *)
(* the pool hands out connections in turn and the next query drains its      *)
(* queue; only a failed rollback keeps the lock (clear_pending_rollback).    *)
LockComesBack ==
  \A c \in Conns : (lock = c) ~> (lock # c \/ conn[c].st.failed)
=============================================================================
