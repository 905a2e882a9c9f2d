----------------------------- MODULE PoolProofs -----------------------------
(* Theorems about clients that share the connections of a pool, for any      *)
(* number of clients, connections and transactions.                          *)
EXTENDS Pool, SequenceTheorems, TLAPS

USE PoolAssumption

-----------------------------------------------------------------------------
(* The inductive invariant: types, who has which connection, what state a    *)
(* connection is in, and which writes its content consists of.               *)

Steps == {"away", "waiting", "ready", "begin", "commit", "rollback", "read", "write", "prepare"}

ClientType == [pc : Steps, has : Conns \cup {NoConn}, handle : BOOLEAN, tx : Nat]

Writes == [by : Clients, tx : Nat]

ConnType ==
  [open : BOOLEAN, st : TransactionStates, tx : BOOLEAN, snap : BOOLEAN, view : Seq(Writes),
   cached : BOOLEAN, cache : Seq(Writes)]

Types ==
  /\ conn \in [Conns -> ConnType]
  /\ client \in [Clients -> ClientType]
  /\ history \in Seq(Writes)
  /\ idle \in Seq(Conns) /\ queue \in Seq(Clients)
  /\ lost \subseteq Writes /\ kept \subseteq Writes

(* A client is away, waiting or on a connection, where its handle is. *)
ClientsOK ==
  \A u \in Clients :
    /\ Of(u) = NoConn <=> client[u].pc \in {"away", "waiting"}
    /\ client[u].handle => Of(u) # NoConn /\ client[u].pc # "begin"
    /\ client[u].pc \in {"commit", "rollback"} => client[u].handle

(* A connection has one place: a client, the pool, or it is closed. *)
Places ==
  /\ \A u, w \in Clients : Of(u) = Of(w) /\ Of(u) # NoConn => u = w
  /\ \A i, j \in 1 .. Len(idle) : idle[i] = idle[j] => i = j
  /\ \A i \in 1 .. Len(idle), u \in Clients : Of(u) # idle[i]
  /\ \A c \in Conns : ~conn[c].open =>
       (\A u \in Clients : Of(u) # c) /\ (\A i \in 1 .. Len(idle) : idle[i] # c)
  /\ \A i, j \in 1 .. Len(queue) : queue[i] = queue[j] => i = j
  /\ \A i \in 1 .. Len(queue) : client[queue[i]].pc = "waiting"

(* The states of a connection. *)
Clean(c) ==
  /\ conn[c].st.depth = 0 /\ conn[c].st.pending = <<>> /\ ~conn[c].st.failed
  /\ ~conn[c].tx /\ ~conn[c].snap /\ lock # c

Opened(c) ==
  /\ conn[c].st.depth = 1 /\ conn[c].st.pending = <<>> /\ ~conn[c].st.failed
  /\ conn[c].tx

Dropped(c) ==
  conn[c].st.depth = 0 /\ Len(conn[c].st.pending) = 1 /\ ~conn[c].st.failed

Broken(c) ==
  conn[c].st.depth = 0 /\ conn[c].st.failed

Modes ==
  /\ \A c \in Conns :
       \/ Clean(c) \/ Dropped(c) \/ Broken(c)
       \/ Opened(c) /\ \E u \in Clients : Of(u) = c /\ client[u].handle
  /\ \A u \in Clients : client[u].handle => Opened(Of(u))
  /\ \A c \in Conns : ~conn[c].open => Clean(c)

(* The write of u is still to be decided. *)
Undecided(u) ==
  client[u].handle \/ client[u].pc = "begin" \/ (client[u].pc = "write" /\ ~client[u].handle)

(* In u's transaction: committed content and u's write, which holds the lock *)
(* and comes right after what is committed. *)
OwnContent(u) ==
  client[u].handle =>
    /\ conn[Of(u)].snap =>
         \A i \in 1 .. Len(conn[Of(u)].view) : conn[Of(u)].view[i] \in kept \cup {Id(u)}
    /\ lock = Of(u) => conn[Of(u)].snap /\ conn[Of(u)].view = Append(history, Id(u))

Contents ==
  /\ \A w \in kept \cup lost : w.tx <= client[w.by].tx
  /\ \A u \in Clients : Undecided(u) => Id(u) \notin kept \cup lost
  /\ ToSet(history) = kept
  /\ kept \cap lost = {}
  /\ \A u \in Clients : OwnContent(u)

PoolInv == Types /\ ClientsOK /\ Places /\ Modes /\ Contents

-----------------------------------------------------------------------------
(* Types and places.                                                         *)

LEMMA ClosedType == Closed \in ConnType
  BY EmptySeq DEF Closed, ConnType, DefaultState, TransactionStates

LEMMA ContentType ==
  ASSUME Types, NEW c \in Conns
  PROVE  Content(c) \in Seq(Writes)
  BY DEF Types, Content, ConnType

(* A call of u on its connection: nobody and nothing else moves. *)
Served(u) ==
  /\ Of(u) \in Conns
  /\ conn' \in [Conns -> ConnType] /\ client' \in [Clients -> ClientType]
  /\ \A w \in Clients \ {u} : client'[w] = client[w]
  /\ \A d \in Conns \ {Of(u)} : conn'[d] = conn[d]
  /\ conn'[Of(u)].open = conn[Of(u)].open
  /\ client'[u].has = client[u].has
  /\ client'[u].pc \notin {"away", "waiting"}
  /\ client'[u].handle => client'[u].pc # "begin"
  /\ client'[u].pc \in {"commit", "rollback"} => client'[u].handle
  /\ UNCHANGED <<idle, queue>>

LEMMA ServedKeeps ==
  ASSUME Types, ClientsOK, Places, NEW u \in Clients, Served(u)
  PROVE  ClientsOK' /\ Places'
<1>1. \A w \in Clients : client'[w].has = client[w].has
  BY DEF Served
<1>2. \A c \in Conns : conn'[c].open = conn[c].open
  BY DEF Served
<1>3. ClientsOK'
  BY DEF Served, ClientsOK, Of
<1>4. \A i \in 1 .. Len(queue) : client'[queue[i]].pc = "waiting"
  <2> SUFFICES ASSUME NEW i \in 1 .. Len(queue) PROVE client'[queue[i]].pc = "waiting"
    OBVIOUS
  <2>1. queue[i] \in Clients /\ client[queue[i]].pc = "waiting"
    BY DEF Types, Places
  <2>2. queue[i] # u
    BY <2>1 DEF ClientsOK, Served
  <2> QED BY <2>1, <2>2 DEF Served
<1>5. Places'
  BY <1>1, <1>2, <1>4 DEF Places, Of, Served
<1> QED BY <1>3, <1>5

OnConn(u) == client[u].pc \notin {"away", "waiting"}

LEMMA HasConn ==
  ASSUME Types, ClientsOK, NEW u \in Clients, OnConn(u)
  PROVE  Of(u) \in Conns
  BY DEF Types, ClientsOK, OnConn, Of, ClientType

LEMMA CallServed ==
  ASSUME Types, ClientsOK, NEW u \in Clients, NEW op \in Steps \ {"away", "waiting", "ready"}, Call(u, op)
  PROVE  Served(u)
<1>1. Of(u) \in Conns
  BY HasConn DEF Call, OnConn
<1> DEFINE n == IF op = "begin" \/ (op = "write" /\ ~client[u].handle)
               THEN client[u].tx + 1 ELSE client[u].tx
<1>2. client[u] \in ClientType /\ n \in Nat
  BY DEF Types, ClientType
<1>3. client' = [client EXCEPT ![u] = [client[u] EXCEPT !.pc = op, !.tx = n]]
  BY DEF Call, Types
<1> HIDE DEF n
<1>4. client'[u] = [client[u] EXCEPT !.pc = op, !.tx = n] /\ client' \in [Clients -> ClientType]
  BY <1>2, <1>3 DEF Types, ClientType
<1>5. /\ client'[u].pc = op /\ client'[u].has = client[u].has
      /\ client'[u].handle = client[u].handle
  BY <1>2, <1>4 DEF ClientType
<1>6. /\ op = "begin" => ~client[u].handle
      /\ op \in {"commit", "rollback"} => client[u].handle
  BY DEF Call
<1>7. \A w \in Clients \ {u} : client'[w] = client[w]
  BY <1>3 DEF Types
<1> QED
  BY <1>1, <1>4, <1>5, <1>6, <1>7 DEF Call, Served, Types, pool

-----------------------------------------------------------------------------
(* What a call does to the client and to its connection, field by field.     *)

LEMMA ReadyIs ==
  ASSUME Types, NEW u \in Clients, NEW h \in BOOLEAN,
         client' = [client EXCEPT ![u].pc = "ready", ![u].handle = h]
  PROVE  /\ client' \in [Clients -> ClientType]
         /\ \A w \in Clients \ {u} : client'[w] = client[w]
         /\ client'[u].pc = "ready" /\ client'[u].has = client[u].has
         /\ client'[u].handle = h /\ client'[u].tx = client[u].tx
  BY DEF Types, ClientType, Steps

LEMMA BackIs ==
  ASSUME Types, NEW u \in Clients, Back(u)
  PROVE  /\ client' \in [Clients -> ClientType]
         /\ \A w \in Clients \ {u} : client'[w] = client[w]
         /\ client'[u].pc = "ready" /\ client'[u].has = client[u].has
         /\ client'[u].handle = client[u].handle /\ client'[u].tx = client[u].tx
  BY DEF Types, ClientType, Steps, Back

LEMMA StateIs ==
  ASSUME Types, NEW c \in Conns, NEW s \in TransactionStates,
         conn' = [conn EXCEPT ![c].st = s]
  PROVE  /\ conn' \in [Conns -> ConnType]
         /\ \A d \in Conns \ {c} : conn'[d] = conn[d]
         /\ conn'[c].st = s
         /\ conn'[c].open = conn[c].open /\ conn'[c].tx = conn[c].tx
         /\ conn'[c].snap = conn[c].snap /\ conn'[c].view = conn[c].view
  BY DEF Types, ConnType

LEMMA EndedIs ==
  ASSUME Types, NEW c \in Conns, NEW s \in TransactionStates,
         conn' = [conn EXCEPT ![c] = [Ended(c) EXCEPT !.st = s]]
  PROVE  /\ conn' \in [Conns -> ConnType]
         /\ \A d \in Conns \ {c} : conn'[d] = conn[d]
         /\ conn'[c].st = s
         /\ conn'[c].open = conn[c].open /\ ~conn'[c].tx /\ ~conn'[c].snap
<1>1. <<>> \in Seq(Writes)
  BY EmptySeq
<1>2. conn[c] \in ConnType
  BY DEF Types
<1>3. Ended(c) \in ConnType /\ Ended(c).open = conn[c].open
      /\ Ended(c).tx = FALSE /\ Ended(c).snap = FALSE
  BY <1>1, <1>2 DEF Ended, ConnType
<1> DEFINE new == [Ended(c) EXCEPT !.st = s]
<1>4. /\ new \in ConnType /\ new.open = conn[c].open /\ new.st = s
      /\ new.tx = FALSE /\ new.snap = FALSE
  BY <1>3 DEF ConnType
<1>5. conn' = [conn EXCEPT ![c] = new]
  OBVIOUS
<1> HIDE DEF new
<1> QED BY <1>4, <1>5 DEF Types

(* Connections other than c keep their part in the lock. *)
LockOf(c) == \A d \in Conns \ {c} : (lock' = d) <=> (lock = d)

LEMMA UnlockedIs ==
  ASSUME NEW c \in Conns, lock' = Unlocked(c)
  PROVE  lock' # c /\ LockOf(c)
  BY DEF Unlocked, LockOf

-----------------------------------------------------------------------------
(* What a call has to keep.                                                  *)

OwnMode(u) ==
  LET c == Of(u) IN
  IF client[u].handle THEN Opened(c) ELSE Clean(c) \/ Dropped(c) \/ Broken(c)

LEMMA ModeOfClient ==
  ASSUME Types, ClientsOK, Places, Modes, NEW u \in Clients, OnConn(u)
  PROVE  OwnMode(u) /\ conn[Of(u)].open
<1>1. Of(u) \in Conns
  BY HasConn
<1>2. conn[Of(u)].open
  BY <1>1 DEF Places, Types, ConnType
<1>3. OwnMode(u)
  <2>1. CASE client[u].handle
    BY <2>1 DEF Modes, OwnMode
  <2>2. CASE ~client[u].handle
    <3>1. ASSUME NEW w \in Clients, Of(w) = Of(u) PROVE ~client[w].handle
      BY <1>1, <2>2, <3>1 DEF Places
    <3> QED
      BY <1>1, <2>2, <3>1 DEF Modes, OwnMode
  <2> QED BY <2>1, <2>2
<1> QED BY <1>2, <1>3

LEMMA ModesKeep ==
  ASSUME Types, ClientsOK, Places, Modes, NEW u \in Clients, OnConn(u),
         Served(u), LockOf(Of(u)), OwnMode(u)'
  PROVE  Modes'
<1>1. Of(u) \in Conns /\ conn[Of(u)].open /\ Of(u)' = Of(u)
  BY HasConn, ModeOfClient DEF Served, Of
<1>2. \A w \in Clients \ {u} : Of(w)' = Of(w) /\ client'[w] = client[w] /\ (client[w].handle => Of(w) # Of(u))
  BY <1>1 DEF Served, Of, Places, ClientsOK
<1>3. ASSUME NEW d \in Conns \ {Of(u)}
      PROVE  /\ Clean(d)' <=> Clean(d)
             /\ Dropped(d)' <=> Dropped(d)
             /\ Broken(d)' <=> Broken(d)
             /\ Opened(d)' <=> Opened(d)
             /\ conn'[d].open <=> conn[d].open
  BY DEF Served, LockOf, Clean, Dropped, Broken, Opened
<1>4. \A w \in Clients : client'[w].handle => Opened(Of(w))'
  <2>1. client'[u].handle => Opened(Of(u))'
    BY DEF OwnMode
  <2>2. ASSUME NEW w \in Clients \ {u}, client'[w].handle PROVE Opened(Of(w))'
    <3>1. Of(w) \in Conns \ {Of(u)} /\ Opened(Of(w)) /\ Of(w)' = Of(w)
      BY <1>2, <2>2 DEF Modes, ClientsOK, Types, ClientType, Of
    <3>2. conn'[Of(w)] = conn[Of(w)]
      BY <3>1 DEF Served
    <3> QED BY <3>1, <3>2 DEF Opened
  <2> QED BY <2>1, <2>2
<1>5. ASSUME NEW d \in Conns
      PROVE  \/ Clean(d)' \/ Dropped(d)' \/ Broken(d)'
             \/ Opened(d)' /\ \E w \in Clients : Of(w)' = d /\ client'[w].handle
  <2>1. CASE d = Of(u)
    BY <1>1, <2>1 DEF OwnMode
  <2>2. CASE d # Of(u)
    <3>1. CASE Clean(d) \/ Dropped(d) \/ Broken(d)
      BY <1>3, <2>2, <3>1
    <3>2. CASE Opened(d) /\ \E w \in Clients : Of(w) = d /\ client[w].handle
      BY <1>2, <1>3, <2>2, <3>2
    <3> QED BY <3>1, <3>2 DEF Modes
  <2> QED BY <2>1, <2>2
<1>6. \A d \in Conns : ~conn'[d].open => Clean(d)'
  BY <1>1, <1>3 DEF Modes, Served
<1> QED BY <1>4, <1>5, <1>6 DEF Modes

-----------------------------------------------------------------------------
(* What becomes of a write.                                                  *)

LEMMA IdIs ==
  ASSUME Types, NEW u \in Clients
  PROVE  Id(u) \in Writes /\ Id(u).by = u /\ Id(u).tx = client[u].tx
  BY DEF Types, ClientType, Writes, Id

LEMMA ToSetAppend ==
  ASSUME NEW S, NEW s \in Seq(S), NEW e \in S
  PROVE  /\ Append(s, e) \in Seq(S)
         /\ ToSet(Append(s, e)) = ToSet(s) \cup {e}
         /\ \A i \in 1 .. Len(Append(s, e)) :
              Append(s, e)[i] \in ToSet(s) \cup {e}
<1>1. /\ Append(s, e) \in Seq(S) /\ Len(Append(s, e)) = Len(s) + 1 /\ Len(s) \in Nat
      /\ \A i \in 1 .. Len(s) : Append(s, e)[i] = s[i]
      /\ Append(s, e)[Len(s) + 1] = e
  BY AppendProperties, LenProperties
<1>2. DOMAIN s = 1 .. Len(s) /\ DOMAIN Append(s, e) = 1 .. Len(s) + 1
  BY <1>1, LenProperties
<1>3. 1 .. Len(s) + 1 = (1 .. Len(s)) \cup {Len(s) + 1}
  BY <1>1
<1>4. ToSet(Append(s, e)) = ToSet(s) \cup {e}
  BY <1>1, <1>2, <1>3 DEF ToSet
<1>5. \A i \in 1 .. Len(Append(s, e)) : Append(s, e)[i] \in ToSet(Append(s, e))
  BY <1>1, <1>2 DEF ToSet
<1> QED BY <1>1, <1>4, <1>5

(* u's write is decided: lost, kept at the end of the history, or not yet.   *)
Decides(u) ==
  \/ /\ UNCHANGED <<history, kept, lost>>
     /\ Undecided(u)' => Undecided(u)
  \/ /\ UNCHANGED <<history, kept>>
     /\ lost' = lost \cup {Id(u)}
     /\ Undecided(u) /\ ~Undecided(u)'
  \/ /\ lost' = lost /\ kept' = kept \cup {Id(u)} /\ history' = Append(history, Id(u))
     /\ lock \in {NoConn, Of(u)}
     /\ Undecided(u) /\ ~Undecided(u)'

LEMMA ContentsKeep ==
  ASSUME Types, ClientsOK, Places, Contents, NEW u \in Clients, OnConn(u),
         Served(u), LockOf(Of(u)), Decides(u), client'[u].tx = client[u].tx, OwnContent(u)'
  PROVE  Contents'
<1>1. /\ Id(u) \in Writes /\ Id(u).by = u /\ Id(u).tx = client[u].tx /\ client[u].tx \in Nat
      /\ Of(u) \in Conns
  BY IdIs, HasConn DEF Types, ClientType
<1>2. \A w \in Clients : client'[w].tx = client[w].tx /\ Id(w)' = Id(w)
  BY DEF Served, Id
<1>3. /\ kept \cup lost \subseteq kept' \cup lost'
      /\ kept' \cup lost' \subseteq kept \cup lost \cup {Id(u)}
  BY DEF Decides
<1>4. \A w \in kept' \cup lost' : w.tx <= client'[w.by].tx
  <2> SUFFICES ASSUME NEW w \in kept' \cup lost' PROVE w.tx <= client'[w.by].tx
    OBVIOUS
  <2>1. CASE w = Id(u)
    BY <1>1, <1>2, <2>1
  <2>2. CASE w \in kept \cup lost
    <3>1. w.by \in Clients
      BY <2>2 DEF Types, Writes
    <3> QED BY <1>2, <2>2, <3>1 DEF Contents
  <2> QED BY <1>3, <2>1, <2>2
<1>5. ASSUME NEW w \in Clients, Undecided(w)' PROVE Id(w)' \notin kept' \cup lost'
  <2>1. CASE w = u
    BY <1>2, <1>5, <2>1 DEF Decides, Contents
  <2>2. CASE w # u
    <3>1. Undecided(w)
      BY <1>5, <2>2 DEF Served, Undecided
    <3>2. Id(w) # Id(u)
      BY <2>2, <1>1, IdIs
    <3> QED BY <1>2, <1>3, <3>1, <3>2 DEF Contents
  <2> QED BY <2>1, <2>2
<1>6. ToSet(history') = kept'
  <2>1. ToSet(history) = kept /\ history \in Seq(Writes)
    BY DEF Contents, Types
  <2>2. CASE UNCHANGED <<history, kept>>
    BY <2>1, <2>2
  <2>3. CASE kept' = kept \cup {Id(u)} /\ history' = Append(history, Id(u))
    <3>1. ToSet(Append(history, Id(u))) = ToSet(history) \cup {Id(u)}
      BY <1>1, <2>1, ToSetAppend
    <3> QED BY <2>1, <2>3, <3>1
  <2> QED BY <2>2, <2>3 DEF Decides
<1>7. kept' \cap lost' = {}
  BY DEF Decides, Contents
<1>8. ASSUME NEW w \in Clients PROVE OwnContent(w)'
  <2>1. CASE w # u /\ client[w].handle
    <3>1. Of(w) \in Conns \ {Of(u)}
      BY <1>1, <2>1 DEF Places, ClientsOK, Types, ClientType, Of
    <3>2. /\ conn'[Of(w)] = conn[Of(w)] /\ Of(w)' = Of(w) /\ client'[w] = client[w]
          /\ (lock' = Of(w)) <=> (lock = Of(w))
      BY <2>1, <3>1 DEF Served, LockOf, Of
    <3>3. kept \subseteq kept'
      BY DEF Decides
    <3>4. lock = Of(w) => history' = history
      BY <3>1 DEF Decides
    <3> QED BY <1>2, <2>1, <3>2, <3>3, <3>4 DEF Contents, OwnContent
  <2>2. CASE w # u /\ ~client[w].handle
    BY <2>2 DEF Served, OwnContent
  <2> QED BY <2>1, <2>2
<1> QED BY <1>4, <1>5, <1>6, <1>7, <1>8 DEF Contents

-----------------------------------------------------------------------------
(* The calls, one by one.                                                    *)

LEMMA ServedInv ==
  ASSUME PoolInv, NEW u \in Clients, OnConn(u),
         Served(u), LockOf(Of(u)), OwnMode(u)',
         Decides(u), client'[u].tx = client[u].tx, OwnContent(u)'
  PROVE  PoolInv'
<1>1. Id(u) \in Writes
  BY IdIs DEF PoolInv
<1>2. history \in Seq(Writes) /\ lost \subseteq Writes /\ kept \subseteq Writes
  BY DEF PoolInv, Types
<1>3. Append(history, Id(u)) \in Seq(Writes)
  BY <1>1, <1>2, ToSetAppend
<1>4. history' \in Seq(Writes) /\ lost' \subseteq Writes /\ kept' \subseteq Writes
  BY <1>1, <1>2, <1>3 DEF Decides
<1>5. Types'
  BY <1>4 DEF Served, PoolInv, Types
<1> QED
  BY <1>5, ServedKeeps, ModesKeep, ContentsKeep DEF PoolInv

LEMMA CallKeeps ==
  ASSUME PoolInv, NEW u \in Clients, NEW op \in Steps \ {"away", "waiting", "ready"},
         Call(u, op)
  PROVE  PoolInv'
<1> USE DEF PoolInv
<1>1. OnConn(u) /\ Served(u) /\ UNCHANGED <<conn, history, lock, idle, queue, lost, kept>>
  BY CallServed DEF Call, OnConn, pool
<1>2. Of(u)' = Of(u) /\ client'[u].handle = client[u].handle /\ client'[u].pc = op
      /\ client[u].pc = "ready" /\ \A w \in Clients \ {u} : client'[w] = client[w]
  BY <1>1 DEF Served, Of, Call, Types, ClientType
<1>3. LockOf(Of(u)) /\ Types'
  BY <1>1 DEF LockOf, Served, Types
<1>4. OwnMode(u)'
  BY <1>1, <1>2, ModeOfClient DEF OwnMode, Opened, Clean, Dropped, Broken
<1> DEFINE n == IF op = "begin" \/ (op = "write" /\ ~client[u].handle)
               THEN client[u].tx + 1 ELSE client[u].tx
<1>5. client'[u].tx = n
  BY DEF Call, Types, ClientType
<1>6. Contents'
  <2>1. client[u].tx \in Nat /\ client[u].tx <= n
    BY DEF Types, ClientType
  <2>2. \A w \in kept \cup lost : w.by \in Clients /\ w.tx \in Nat
    BY DEF Types, Writes
  <2>3. \A w \in kept \cup lost : w.tx <= client'[w.by].tx
    <3> SUFFICES ASSUME NEW w \in kept \cup lost PROVE w.tx <= client'[w.by].tx
      OBVIOUS
    <3>1. w.tx <= client[w.by].tx
      BY DEF Contents
    <3>2. CASE w.by = u
      <4>1. w.tx <= client[u].tx /\ w.tx \in Nat /\ n \in Nat
        BY <2>1, <2>2, <3>1, <3>2
      <4> HIDE DEF n
      <4> QED BY <1>5, <2>1, <3>2, <4>1
    <3>3. CASE w.by # u
      BY <1>2, <2>2, <3>1, <3>3
    <3> QED BY <3>2, <3>3
  <2>4. Undecided(u)' => Id(u)' \notin kept \cup lost
    <3>1. CASE op = "begin" \/ (op = "write" /\ ~client[u].handle)
      <4>1. Id(u)'.by = u /\ Id(u)'.tx = client[u].tx + 1
        BY <1>5, <3>1 DEF Id
      <4>2. \A w \in kept \cup lost : w.by = u => w.tx <= client[u].tx
        BY DEF Contents
      <4> QED BY <2>1, <2>2, <4>1, <4>2
    <3>2. CASE ~(op = "begin" \/ (op = "write" /\ ~client[u].handle))
      <4>1. Id(u)' = Id(u)
        BY <1>5, <3>2 DEF Id
      <4>2. Undecided(u)' => client[u].handle
        BY <1>2, <3>2 DEF Undecided
      <4> QED BY <4>1, <4>2 DEF Contents, Undecided
    <3> QED BY <3>1, <3>2
  <2>5. \A w \in Clients \ {u} : Undecided(w)' => Id(w)' \notin kept \cup lost
    BY <1>2 DEF Undecided, Id, Contents
  <2>6. OwnContent(u)'
    <3>1. CASE client[u].handle
      <4>1. Id(u)' = Id(u)
        BY <1>5, <3>1 DEF Id, Call
      <4>2. OwnContent(u)
        BY DEF Contents
      <4>3. UNCHANGED <<conn, history, kept, lock>> /\ Of(u)' = Of(u)
        BY <1>1, <1>2 DEF Of
      <4>4. /\ conn[Of(u)].snap =>
                 \A i \in 1 .. Len(conn[Of(u)].view) : conn[Of(u)].view[i] \in kept \cup {Id(u)}
            /\ lock = Of(u) => conn[Of(u)].snap /\ conn[Of(u)].view = Append(history, Id(u))
        BY <3>1, <4>2 DEF OwnContent
      <4> QED BY <4>1, <4>3, <4>4, Zenon DEF OwnContent
    <3>2. CASE ~client[u].handle
      BY <1>2, <3>2 DEF OwnContent
    <3> QED BY <3>1, <3>2
  <2>7. \A w \in Clients \ {u} : OwnContent(w)'
    <3> TAKE w \in Clients \ {u}
    <3>1. OwnContent(w)
      BY DEF Contents
    <3>2. client'[w] = client[w] /\ UNCHANGED <<conn, history, kept, lock>>
      BY <1>1, <1>2
    <3> HIDE DEF PoolInv
    <3> QED BY <3>1, <3>2, Zenon DEF OwnContent, Id, Of
  <2> QED
    BY <1>1, <2>3, <2>4, <2>5, <2>6, <2>7 DEF Contents
<1>7. Modes'
  BY <1>1, <1>3, <1>4, ModesKeep
<1> QED
  BY <1>1, <1>3, <1>6, <1>7, ServedKeeps

(* A handle goes away: dropped by the application, or by an end that failed. *)
LEMMA MarkIs ==
  ASSUME PoolInv, NEW u \in Clients, client[u].handle,
         conn' = [conn EXCEPT ![Of(u)].st = MarkRollbackNeeded(State(u))]
  PROVE  /\ Of(u) \in Conns
         /\ conn' \in [Conns -> ConnType]
         /\ \A d \in Conns \ {Of(u)} : conn'[d] = conn[d]
         /\ conn'[Of(u)].open = conn[Of(u)].open
         /\ conn'[Of(u)].st.depth = 0 /\ Len(conn'[Of(u)].st.pending) = 1
         /\ ~conn'[Of(u)].st.failed
<1> USE DEF PoolInv
<1>1. Of(u) \in Conns
  BY DEF ClientsOK, Types, ClientType, Of
<1>2. State(u) \in TransactionStates /\ State(u).depth = 1 /\ State(u).pending = <<>>
      /\ ~State(u).failed
  BY <1>1 DEF Modes, Opened, State, Types, ConnType
<1>3. MarkRollbackNeeded(State(u)) \in TransactionStates
      /\ MarkRollbackNeeded(State(u)).depth = 0
      /\ MarkRollbackNeeded(State(u)).pending = Append(<<>>, 1)
      /\ ~MarkRollbackNeeded(State(u)).failed
  <2> DEFINE t == [State(u) EXCEPT !.pending = Append(@, 1)]
  <2>1. Append(State(u).pending, 1) \in Seq(Nat \ {0})
    BY <1>2 DEF TransactionStates
  <2>2. /\ t \in TransactionStates /\ t.depth = 1 /\ ~t.failed
        /\ t.pending = Append(<<>>, 1)
    BY <1>2, <2>1 DEF TransactionStates
  <2>3. MarkRollbackNeeded(State(u)) = DecrementDepth(t)
    BY <1>2 DEF MarkRollbackNeeded
  <2> HIDE DEF t
  <2> QED BY <2>2, <2>3 DEF TransactionStates, DecrementDepth
<1>4. Len(Append(<<>>, 1)) = 1
  OBVIOUS
<1> QED BY <1>1, <1>3, <1>4, StateIs

LEMMA HandleGone ==
  ASSUME PoolInv, NEW u \in Clients, client[u].handle,
         conn' = [conn EXCEPT ![Of(u)].st = MarkRollbackNeeded(State(u))],
         client' = [client EXCEPT ![u].pc = "ready", ![u].handle = FALSE],
         lost' = lost \cup {Id(u)}, UNCHANGED <<history, lock, idle, queue, kept>>
  PROVE  PoolInv'
<1> USE DEF PoolInv
<1>1. /\ client' \in [Clients -> ClientType]
      /\ \A w \in Clients \ {u} : client'[w] = client[w]
      /\ client'[u].pc = "ready" /\ client'[u].has = client[u].has
      /\ ~client'[u].handle /\ client'[u].tx = client[u].tx
  BY ReadyIs
<1>2. OnConn(u)
  BY DEF ClientsOK, OnConn
<1>3. Served(u)
  BY <1>1, MarkIs DEF Served
<1>4. OwnMode(u)'
  BY <1>1, MarkIs DEF OwnMode, Dropped, Of
<1>5. Decides(u)
  BY <1>1 DEF Decides, Undecided
<1>6. OwnContent(u)' /\ LockOf(Of(u))
  BY <1>1 DEF OwnContent, LockOf
<1> QED BY <1>1, <1>2, <1>3, <1>4, <1>5, <1>6, ServedInv

LEMMA DropHandleKeeps ==
  ASSUME PoolInv, NEW u \in Clients, DropHandle(u)
  PROVE  PoolInv'
<1>1. client' = [client EXCEPT ![u].pc = "ready", ![u].handle = FALSE]
  BY DEF DropHandle, PoolInv, Types, ClientType
<1>2. conn' = [conn EXCEPT ![Of(u)].st = MarkRollbackNeeded(State(u))]
  BY DEF DropHandle, State
<1> QED BY <1>1, <1>2, HandleGone DEF DropHandle, pool

LEMMA GaveUp ==
  ASSUME PoolInv, NEW u \in Clients, client[u].pc \in {"commit", "rollback"}, GiveUp(u)
  PROVE  /\ client' = [client EXCEPT ![u].pc = "ready", ![u].handle = FALSE]
         /\ lost' = lost \cup {Id(u)}
  BY DEF GiveUp

LEMMA GaveUpQuery ==
  ASSUME PoolInv, NEW u \in Clients, client[u].pc \notin {"commit", "rollback"}, GiveUp(u)
  PROVE  Back(u) /\ lost' = lost
<1>1. /\ client[u].handle \in BOOLEAN /\ client \in [Clients -> ClientType]
      /\ DOMAIN client[u] = {"pc", "has", "handle", "tx"}
  BY DEF PoolInv, Types, ClientType
<1>2. /\ client' = [client EXCEPT ![u].pc = "ready",
           ![u].handle = @ /\ client[u].pc \notin {"commit", "rollback"}]
      /\ lost' = lost
  BY DEF GiveUp
<1>3. (client[u].handle /\ client[u].pc \notin {"commit", "rollback"}) = client[u].handle
  BY <1>1
<1>4. client' = [client EXCEPT ![u].pc = "ready", ![u].handle = client[u].handle]
  BY <1>1, <1>2, <1>3
<1>5. client' = [client EXCEPT ![u].pc = "ready"]
  BY <1>1, <1>4
<1> QED BY <1>2, <1>5 DEF Back

LEMMA TransactionFailsKeeps ==
  ASSUME PoolInv, NEW u \in Clients, TransactionFails(u)
  PROVE  PoolInv'
<1> USE DEF PoolInv
<1>1. client[u].pc \in {"begin", "commit", "rollback"} /\ OnConn(u)
  BY DEF TransactionFails, Runs, OnConn
<1>2. CASE client[u].pc \in {"commit", "rollback"}
  <2>1. client[u].handle
    BY <1>2 DEF ClientsOK
  <2> QED
    BY <1>2, <2>1, GaveUp, HandleGone DEF TransactionFails, Marked, pool
<1>3. CASE client[u].pc = "begin"
  <2>1. Of(u) \in Conns
    BY <1>1, HasConn
  <2>2. conn' = conn
    BY <1>3, <2>1 DEF TransactionFails, Marked, State, Types, ConnType
  <2>3. Back(u) /\ lost' = lost
    BY <1>3, GaveUpQuery DEF TransactionFails
  <2>4. /\ client' \in [Clients -> ClientType]
        /\ \A w \in Clients \ {u} : client'[w] = client[w]
        /\ client'[u].pc = "ready" /\ client'[u].has = client[u].has
        /\ client'[u].handle = client[u].handle /\ client'[u].tx = client[u].tx
    BY <2>3, BackIs
  <2>5. ~client[u].handle
    BY <1>3 DEF ClientsOK
  <2>6. UNCHANGED <<history, lock, idle, queue, kept>>
    BY DEF TransactionFails, pool
  <2>7. Served(u)
    BY <2>1, <2>2, <2>4, <2>6 DEF Served, Types
  <2>8. OwnMode(u)'
    BY <1>1, <2>2, <2>4, <2>6, ModeOfClient DEF OwnMode, Clean, Dropped, Broken, Opened, Of
  <2>9. Decides(u) /\ OwnContent(u)' /\ LockOf(Of(u))
    BY <2>3, <2>4, <2>5, <2>6 DEF Decides, Undecided, OwnContent, LockOf
  <2> QED BY <1>1, <2>4, <2>7, <2>8, <2>9, ServedInv
<1> QED BY <1>1, <1>2, <1>3

(* Where a queue is drained or a failed connection is met, there is no       *)
(* handle on the connection. *)
LEMMA NoHandle ==
  ASSUME PoolInv, NEW u \in Clients, Drains(u), State(u).failed \/ State(u).pending # <<>>
  PROVE  /\ OnConn(u) /\ Of(u) \in Conns /\ ~client[u].handle
         /\ client[u].pc \notin {"commit", "rollback"}
         /\ State(u) \in TransactionStates /\ State(u).depth = 0
         /\ State(u).failed \/ Len(State(u).pending) = 1
<1> USE DEF PoolInv
<1>1. OnConn(u) /\ Of(u) \in Conns
  BY HasConn DEF Drains, Queries, OnConn
<1>2. OwnMode(u) /\ State(u) \in TransactionStates
  BY <1>1, ModeOfClient DEF Types, ConnType, State
<1>3. ~client[u].handle
  BY <1>2 DEF OwnMode, Opened, State
<1>4. client[u].pc \notin {"commit", "rollback"}
  BY <1>3 DEF ClientsOK
<1> QED
  BY <1>1, <1>2, <1>3, <1>4 DEF OwnMode, Clean, Dropped, Broken, State

LEMMA RollBackPendingKeeps ==
  ASSUME PoolInv, NEW u \in Clients, RollBackPending(u)
  PROVE  PoolInv'
<1> USE DEF PoolInv
<1>1. /\ OnConn(u) /\ Of(u) \in Conns /\ ~client[u].handle
      /\ State(u) \in TransactionStates /\ State(u).depth = 0
      /\ Len(State(u).pending) = 1 /\ ~State(u).failed /\ State(u).pending # <<>>
  BY NoHandle DEF RollBackPending
<1> DEFINE s == PopPendingRollback(State(u))
<1>2. s \in TransactionStates /\ s.depth = 0 /\ s.pending = Tail(State(u).pending) /\ ~s.failed
  <2>1. State(u).pending \in Seq(Nat \ {0})
    BY <1>1 DEF TransactionStates
  <2>2. Tail(State(u).pending) \in Seq(Nat \ {0})
    BY <1>1, <2>1
  <2> QED BY <1>1, <2>2 DEF TransactionStates, PopPendingRollback
<1>3. s.pending = <<>>
  <2>1. State(u).pending \in Seq(Nat \ {0})
    BY <1>1 DEF TransactionStates
  <2>2. Len(Tail(State(u).pending)) = 0 /\ Tail(State(u).pending) \in Seq(Nat \ {0})
    BY <1>1, <2>1, HeadTailProperties
  <2> QED BY <1>2, <2>2, EmptySeq
<1>4. conn' = [conn EXCEPT ![Of(u)] = [Ended(Of(u)) EXCEPT !.st = s]]
  BY DEF RollBackPending, Ended, State
<1> HIDE DEF s
<1>5. /\ conn' \in [Conns -> ConnType]
      /\ \A d \in Conns \ {Of(u)} : conn'[d] = conn[d]
      /\ conn'[Of(u)].st = s
      /\ conn'[Of(u)].open = conn[Of(u)].open /\ ~conn'[Of(u)].tx /\ ~conn'[Of(u)].snap
  BY <1>1, <1>2, <1>4, EndedIs
<1>6. UNCHANGED <<history, idle, queue, client, lost, kept>> /\ lock' # Of(u) /\ LockOf(Of(u))
  BY <1>1, UnlockedIs DEF RollBackPending, pool
<1>7. Served(u)
  BY <1>1, <1>5, <1>6 DEF Served, OnConn, ClientsOK, Types
<1>8. OwnMode(u)'
  BY <1>1, <1>2, <1>3, <1>5, <1>6 DEF OwnMode, Clean, Of
<1>9. Decides(u) /\ OwnContent(u)'
  BY <1>1, <1>6 DEF Decides, Undecided, OwnContent
<1> QED BY <1>1, <1>6, <1>7, <1>8, <1>9, ServedInv

(* A query or BEGIN is refused, and its connection is broken.                *)
LEMMA Refused ==
  ASSUME PoolInv, NEW u \in Clients, OnConn(u), Of(u) \in Conns, ~client[u].handle,
         Back(u), lost' = lost, UNCHANGED <<history, lock, idle, queue, kept>>,
         NEW s \in TransactionStates, s.depth = 0, s.failed,
         conn' = [conn EXCEPT ![Of(u)].st = s]
  PROVE  PoolInv'
<1> USE DEF PoolInv
<1>1. /\ client' \in [Clients -> ClientType]
      /\ \A w \in Clients \ {u} : client'[w] = client[w]
      /\ client'[u].pc = "ready" /\ client'[u].has = client[u].has
      /\ client'[u].handle = client[u].handle /\ client'[u].tx = client[u].tx
  BY BackIs
<1>2. /\ conn' \in [Conns -> ConnType]
      /\ \A d \in Conns \ {Of(u)} : conn'[d] = conn[d]
      /\ conn'[Of(u)].st = s /\ conn'[Of(u)].open = conn[Of(u)].open
  BY StateIs
<1>3. Served(u)
  BY <1>1, <1>2 DEF Served
<1>4. OwnMode(u)'
  BY <1>1, <1>2 DEF OwnMode, Broken, Of
<1>5. Decides(u) /\ OwnContent(u)' /\ LockOf(Of(u))
  BY <1>1 DEF Decides, Undecided, OwnContent, LockOf
<1> QED BY <1>1, <1>3, <1>4, <1>5, ServedInv

LEMMA FailPendingKeeps ==
  ASSUME PoolInv, NEW u \in Clients, FailPending(u)
  PROVE  PoolInv'
<1>1. /\ OnConn(u) /\ Of(u) \in Conns /\ ~client[u].handle
      /\ client[u].pc \notin {"commit", "rollback"}
      /\ State(u) \in TransactionStates /\ State(u).depth = 0
  BY NoHandle DEF FailPending
<1> DEFINE s == MarkRollbackFailed(State(u))
<1>2. s \in TransactionStates /\ s.depth = 0 /\ s.failed
  <2>1. <<>> \in Seq(Nat \ {0})
    OBVIOUS
  <2> QED BY <1>1, <2>1 DEF TransactionStates, MarkRollbackFailed
<1>3. Back(u) /\ lost' = lost
  BY <1>1, GaveUpQuery DEF FailPending
<1>4. conn' = [conn EXCEPT ![Of(u)].st = s]
  BY DEF FailPending, State
<1> HIDE DEF s
<1> QED BY <1>1, <1>2, <1>3, <1>4, Refused DEF FailPending, pool

LEMMA RefuseFailedKeeps ==
  ASSUME PoolInv, NEW u \in Clients, RefuseFailed(u)
  PROVE  PoolInv'
<1>1. /\ OnConn(u) /\ Of(u) \in Conns /\ ~client[u].handle
      /\ client[u].pc \notin {"commit", "rollback"}
      /\ State(u) \in TransactionStates /\ State(u).depth = 0 /\ State(u).failed
  BY NoHandle DEF RefuseFailed
<1>2. Back(u) /\ lost' = lost
  BY <1>1, GaveUpQuery DEF RefuseFailed
<1>3. conn' = [conn EXCEPT ![Of(u)].st = State(u)]
  BY <1>1 DEF RefuseFailed, Marked
<1> QED BY <1>1, <1>2, <1>3, Refused DEF RefuseFailed, pool

(* A call that runs finds its connection clean, or in its own transaction.   *)
LEMMA RunsOn ==
  ASSUME PoolInv, NEW u \in Clients,
         NEW op \in {"begin", "commit", "rollback", "read", "write"}, Runs(u, op)
  PROVE  /\ OnConn(u) /\ Of(u) \in Conns /\ conn[Of(u)] \in ConnType
         /\ State(u) \in TransactionStates
         /\ client[u].handle => Opened(Of(u))
         /\ ~client[u].handle => Clean(Of(u))
<1> USE DEF PoolInv
<1>1. OnConn(u) /\ Of(u) \in Conns
  BY HasConn DEF Runs, OnConn
<1>2. OwnMode(u) /\ conn[Of(u)] \in ConnType
  BY <1>1, ModeOfClient DEF Types
<1>3. ~Dropped(Of(u)) /\ ~Broken(Of(u))
  <2>1. Len(<<>>) = 0
    OBVIOUS
  <2> QED BY <2>1 DEF Runs, State, Dropped, Broken
<1> QED BY <1>1, <1>2, <1>3 DEF OwnMode, State, ConnType

LEMMA BeginKeeps ==
  ASSUME PoolInv, NEW u \in Clients, Begin(u)
  PROVE  PoolInv'
<1> USE DEF PoolInv
<1>1. /\ OnConn(u) /\ Of(u) \in Conns /\ conn[Of(u)] \in ConnType
      /\ State(u) \in TransactionStates /\ ~client[u].handle /\ Clean(Of(u))
      /\ client[u].pc = "begin"
  BY RunsOn DEF Begin, Runs, ClientsOK
<1> DEFINE s == IncrementDepth(State(u))
<1>2. s \in TransactionStates /\ s.depth = 1 /\ s.pending = <<>> /\ ~s.failed
  BY <1>1 DEF Clean, State, TransactionStates, IncrementDepth
<1> DEFINE new == [conn[Of(u)] EXCEPT !.tx = TRUE, !.st = s]
<1>3. conn' = [conn EXCEPT ![Of(u)] = new]
  BY <1>1 DEF Begin, State, Types
<1> HIDE DEF s
<1>4. /\ new \in ConnType /\ new.open = conn[Of(u)].open /\ new.tx = TRUE
      /\ new.st = s /\ new.snap = conn[Of(u)].snap
  BY <1>1, <1>2 DEF ConnType
<1> HIDE DEF new
<1>5. /\ conn' \in [Conns -> ConnType] /\ conn'[Of(u)] = new
      /\ \A d \in Conns \ {Of(u)} : conn'[d] = conn[d]
  BY <1>1, <1>3, <1>4 DEF Types
<1>6. /\ client' \in [Clients -> ClientType]
      /\ \A w \in Clients \ {u} : client'[w] = client[w]
      /\ client'[u].pc = "ready" /\ client'[u].has = client[u].has
      /\ client'[u].handle /\ client'[u].tx = client[u].tx
  BY ReadyIs DEF Begin
<1>7. UNCHANGED <<history, lock, idle, queue, lost, kept>>
  BY DEF Begin, pool
<1>8. Served(u)
  BY <1>1, <1>4, <1>5, <1>6, <1>7 DEF Served
<1>9. OwnMode(u)'
  BY <1>1, <1>2, <1>4, <1>5, <1>6 DEF OwnMode, Opened, Of
<1>10. Decides(u) /\ LockOf(Of(u))
  BY <1>1, <1>7 DEF Decides, Undecided, LockOf
<1>11. OwnContent(u)'
  BY <1>1, <1>4, <1>5, <1>6, <1>7 DEF OwnContent, Clean, Of
<1> QED BY <1>1, <1>6, <1>8, <1>9, <1>10, <1>11, ServedInv

(* COMMIT and ROLLBACK succeed. *)
LEMMA HandleEnds ==
  ASSUME PoolInv, NEW u \in Clients, NEW op \in {"commit", "rollback"}, Runs(u, op),
         client' = [client EXCEPT ![u].pc = "ready", ![u].handle = FALSE],
         conn' = [conn EXCEPT ![Of(u)] = [Ended(Of(u)) EXCEPT !.st = DecrementDepth(@)]],
         lock' = Unlocked(Of(u)), UNCHANGED <<idle, queue>>,
         Decides(u)
  PROVE  PoolInv'
<1> USE DEF PoolInv
<1>1. /\ OnConn(u) /\ Of(u) \in Conns /\ State(u) \in TransactionStates
      /\ client[u].handle /\ Opened(Of(u))
  BY RunsOn DEF Runs, ClientsOK
<1> DEFINE s == DecrementDepth(State(u))
<1>2. s \in TransactionStates /\ s.depth = 0 /\ s.pending = <<>> /\ ~s.failed
  BY <1>1 DEF Opened, State, TransactionStates, DecrementDepth
<1>3. conn' = [conn EXCEPT ![Of(u)] = [Ended(Of(u)) EXCEPT !.st = s]]
  BY <1>1 DEF Ended, State, Types, ConnType
<1> HIDE DEF s
<1>4. /\ conn' \in [Conns -> ConnType]
      /\ \A d \in Conns \ {Of(u)} : conn'[d] = conn[d]
      /\ conn'[Of(u)].st = s
      /\ conn'[Of(u)].open = conn[Of(u)].open /\ ~conn'[Of(u)].tx /\ ~conn'[Of(u)].snap
  BY <1>1, <1>2, <1>3, EndedIs
<1>5. /\ client' \in [Clients -> ClientType]
      /\ \A w \in Clients \ {u} : client'[w] = client[w]
      /\ client'[u].pc = "ready" /\ client'[u].has = client[u].has
      /\ ~client'[u].handle /\ client'[u].tx = client[u].tx
  BY ReadyIs
<1>6. lock' # Of(u) /\ LockOf(Of(u))
  BY <1>1, UnlockedIs
<1>7. Served(u)
  BY <1>1, <1>4, <1>5 DEF Served
<1>8. OwnMode(u)'
  BY <1>2, <1>4, <1>5, <1>6 DEF OwnMode, Clean, Of
<1>9. OwnContent(u)'
  BY <1>5 DEF OwnContent
<1> QED BY <1>1, <1>5, <1>6, <1>7, <1>8, <1>9, ServedInv

LEMMA CommitKeeps ==
  ASSUME PoolInv, NEW u \in Clients, Commit(u)
  PROVE  PoolInv'
<1> USE DEF PoolInv
<1>1. client[u].handle /\ Id(u) \notin kept \cup lost /\ Id(u) \in Writes /\ Of(u) \in Conns
  BY RunsOn, IdIs DEF Commit, Runs, ClientsOK, Contents, Undecided
<1>2. client'[u].pc = "ready" /\ ~client'[u].handle
  BY ReadyIs DEF Commit
<1>3. Undecided(u) /\ ~Undecided(u)'
  BY <1>1, <1>2 DEF Undecided
<1>4. Decides(u)
  <2>1. CASE lock = Of(u)
    <3>1. history' = Append(history, Id(u))
      BY <1>1, <2>1 DEF Commit, Contents, OwnContent
    <3>2. Id(u) \in ToSet(history')
      BY <1>1, <3>1, ToSetAppend DEF Types
    <3> QED BY <1>3, <2>1, <3>1, <3>2 DEF Commit, Decides
  <2>2. CASE lock # Of(u)
    <3>1. history' = history /\ Id(u) \notin ToSet(history)
      BY <1>1, <2>2 DEF Commit, Contents
    <3> QED BY <1>3, <3>1 DEF Commit, Decides
  <2> QED BY <2>1, <2>2
<1> QED BY <1>4, HandleEnds DEF Commit, pool

LEMMA RollbackKeeps ==
  ASSUME PoolInv, NEW u \in Clients, Rollback(u)
  PROVE  PoolInv'
<1>1. client[u].handle
  BY DEF Rollback, Runs, ClientsOK, PoolInv
<1>2. client'[u].pc = "ready" /\ ~client'[u].handle
  BY ReadyIs DEF Rollback, PoolInv
<1>3. Decides(u)
  BY <1>1, <1>2 DEF Rollback, Decides, Undecided
<1> QED BY <1>3, HandleEnds DEF Rollback, pool

(* A call that ends and leaves the transaction of its connection alone. *)
LEMMA Returns ==
  ASSUME PoolInv, NEW u \in Clients, OnConn(u), Of(u) \in Conns, Back(u),
         NEW new \in ConnType, conn' = [conn EXCEPT ![Of(u)] = new],
         new.open = conn[Of(u)].open, new.st = conn[Of(u)].st, new.tx = conn[Of(u)].tx,
         UNCHANGED <<idle, queue>>, LockOf(Of(u)),
         ~client[u].handle => new.snap = conn[Of(u)].snap /\ ((lock' = Of(u)) <=> (lock = Of(u))),
         Decides(u), OwnContent(u)'
  PROVE  PoolInv'
<1> USE DEF PoolInv
<1>1. /\ client' \in [Clients -> ClientType]
      /\ \A w \in Clients \ {u} : client'[w] = client[w]
      /\ client'[u].pc = "ready" /\ client'[u].has = client[u].has
      /\ client'[u].handle = client[u].handle /\ client'[u].tx = client[u].tx
  BY BackIs
<1>2. /\ conn' \in [Conns -> ConnType] /\ conn'[Of(u)] = new
      /\ \A d \in Conns \ {Of(u)} : conn'[d] = conn[d]
  BY DEF Types
<1>3. Served(u)
  BY <1>1, <1>2 DEF Served
<1>4. OwnMode(u)'
  <2>1. OwnMode(u)
    BY ModeOfClient
  <2>2. /\ Of(u)' = Of(u) /\ conn'[Of(u)] = new /\ client'[u].handle = client[u].handle
        /\ new.st = conn[Of(u)].st /\ new.tx = conn[Of(u)].tx
    BY <1>1, <1>2 DEF Of
  <2>3. CASE client[u].handle
    <3>1. Opened(Of(u))
      BY <2>1, <2>3 DEF OwnMode
    <3>2. Opened(Of(u))'
      BY <2>2, <3>1 DEF Opened
    <3> QED BY <2>2, <2>3, <3>2 DEF OwnMode
  <2>4. CASE ~client[u].handle
    <3>1. Clean(Of(u)) \/ Dropped(Of(u)) \/ Broken(Of(u))
      BY <2>1, <2>4 DEF OwnMode
    <3>2. Clean(Of(u)) => Clean(Of(u))'
      BY <2>2, <2>4 DEF Clean
    <3>3. Dropped(Of(u)) => Dropped(Of(u))'
      BY <2>2 DEF Dropped
    <3>4. Broken(Of(u)) => Broken(Of(u))'
      BY <2>2 DEF Broken
    <3> QED BY <2>2, <2>4, <3>1, <3>2, <3>3, <3>4 DEF OwnMode
  <2> QED BY <2>3, <2>4
<1> QED BY <1>1, <1>3, <1>4, ServedInv

LEMMA ReturnsIs ==
  ASSUME PoolInv, NEW u \in Clients, Back(u)
  PROVE  /\ client'[u].handle = client[u].handle /\ Of(u)' = Of(u) /\ Id(u)' = Id(u)
         /\ Undecided(u)' => client[u].handle
<1>1. /\ client'[u].pc = "ready" /\ client'[u].has = client[u].has
      /\ client'[u].handle = client[u].handle /\ client'[u].tx = client[u].tx
  BY BackIs DEF PoolInv
<1> QED BY <1>1 DEF Of, Id, Undecided

LEMMA CachedIs ==
  ASSUME PoolInv, NEW c \in Conns
  PROVE  /\ Cached(c) \in ConnType
         /\ Cached(c).open = conn[c].open /\ Cached(c).st = conn[c].st
         /\ Cached(c).tx = conn[c].tx /\ Cached(c).snap = conn[c].snap
         /\ Cached(c).view = conn[c].view
<1>1. conn[c] \in ConnType /\ Columns(c) \in Seq(Writes)
  BY ContentType DEF PoolInv, Types, Columns, ConnType
<1> QED BY <1>1 DEF Cached, ConnType

LEMMA PrepareKeeps ==
  ASSUME PoolInv, NEW u \in Clients, Prepare(u)
  PROVE  PoolInv'
<1> USE DEF PoolInv
<1>1. OnConn(u) /\ Of(u) \in Conns
  BY HasConn DEF Prepare, OnConn
<1>2. Back(u) /\ conn' = [conn EXCEPT ![Of(u)] = Cached(Of(u))]
      /\ UNCHANGED <<history, lock, idle, queue, lost, kept>>
  BY DEF Prepare, pool
<1>3. Decides(u) /\ LockOf(Of(u))
  BY <1>2, ReturnsIs DEF Decides, Undecided, LockOf
<1>4. conn'[Of(u)] = Cached(Of(u))
  BY <1>1, <1>2 DEF Types
<1>5. OwnContent(u)'
  BY <1>1, <1>2, <1>4, ReturnsIs, CachedIs DEF OwnContent, Contents
<1> QED BY <1>1, <1>2, <1>3, <1>5, CachedIs, Returns

LEMMA QueryFailsKeeps ==
  ASSUME PoolInv, NEW u \in Clients, QueryFails(u)
  PROVE  PoolInv'
<1> USE DEF PoolInv
<1>1. OnConn(u) /\ Of(u) \in Conns /\ conn[Of(u)] \in ConnType
  BY RunsOn DEF QueryFails
<1>2. Back(u) /\ UNCHANGED <<history, lock, idle, queue, lost, kept, conn>>
  BY DEF QueryFails, pool
<1>3. conn' = [conn EXCEPT ![Of(u)] = conn[Of(u)]]
  BY <1>2 DEF Types
<1>4. Decides(u) /\ LockOf(Of(u))
  BY <1>2, ReturnsIs DEF Decides, Undecided, LockOf
<1>5. OwnContent(u)'
  BY <1>1, <1>2, ReturnsIs DEF OwnContent, Contents
<1> QED BY <1>1, <1>2, <1>3, <1>4, <1>5, Returns

(* What a transaction that has read sees is what it saw before, or what is   *)
(* committed.                                                                *)
LEMMA ContentIs ==
  ASSUME PoolInv, NEW u \in Clients, client[u].handle
  PROVE  /\ Content(Of(u)) \in Seq(Writes)
         /\ \A i \in 1 .. Len(Content(Of(u))) : Content(Of(u))[i] \in kept \cup {Id(u)}
         /\ lock = Of(u) => Content(Of(u)) = Append(history, Id(u))
<1> USE DEF PoolInv
<1>1. Of(u) \in Conns
  BY DEF ClientsOK, Types, ClientType, Of
<1>2. \A i \in 1 .. Len(history) : history[i] \in kept
  <2>1. DOMAIN history = 1 .. Len(history)
    BY LenProperties DEF Types
  <2> QED BY <2>1 DEF Contents, ToSet
<1>3. OwnContent(u)
  BY DEF Contents
<1>4. CASE conn[Of(u)].snap
  BY <1>1, <1>3, <1>4, ContentType DEF OwnContent, Content
<1>5. CASE ~conn[Of(u)].snap
  BY <1>1, <1>2, <1>3, <1>5, ContentType DEF OwnContent, Content
<1> QED BY <1>4, <1>5

LEMMA ReadKeeps ==
  ASSUME PoolInv, NEW u \in Clients, Read(u)
  PROVE  PoolInv'
<1> USE DEF PoolInv
<1>1. /\ OnConn(u) /\ Of(u) \in Conns /\ conn[Of(u)] \in ConnType
      /\ client[u].handle => Opened(Of(u))
      /\ ~client[u].handle => Clean(Of(u))
  BY RunsOn DEF Read
<1>2. Back(u) /\ UNCHANGED <<history, lock, idle, queue, lost, kept>>
  BY DEF Read, pool
<1>3. PICK after \in {conn[Of(u)], Cached(Of(u))} :
        conn' = [conn EXCEPT ![Of(u)] =
          IF after.tx THEN [after EXCEPT !.snap = TRUE, !.view = Content(Of(u))] ELSE after]
  BY DEF Read
<1>4. /\ after \in ConnType /\ after.open = conn[Of(u)].open /\ after.st = conn[Of(u)].st
      /\ after.tx = conn[Of(u)].tx /\ after.snap = conn[Of(u)].snap
  BY <1>1, <1>3, CachedIs
<1>5. Decides(u) /\ LockOf(Of(u))
  BY <1>2, ReturnsIs DEF Decides, Undecided, LockOf
<1>6. CASE client[u].handle
  <2> DEFINE new == [after EXCEPT !.snap = TRUE, !.view = Content(Of(u))]
  <2>1. after.tx
    BY <1>1, <1>4, <1>6 DEF Opened
  <2>2. /\ new \in ConnType /\ new.open = conn[Of(u)].open /\ new.st = conn[Of(u)].st
        /\ new.tx = conn[Of(u)].tx /\ new.snap = TRUE /\ new.view = Content(Of(u))
    BY <1>4, <1>6, ContentIs DEF ConnType
  <2>3. conn' = [conn EXCEPT ![Of(u)] = new]
    BY <1>3, <2>1
  <2> HIDE DEF new
  <2>4. conn'[Of(u)] = new
    BY <1>1, <2>3 DEF Types
  <2>5. OwnContent(u)'
    BY <1>2, <1>6, <2>2, <2>4, ReturnsIs, ContentIs DEF OwnContent
  <2> QED BY <1>1, <1>2, <1>5, <1>6, <2>2, <2>3, <2>5, Returns
<1>7. CASE ~client[u].handle
  <2>1. conn' = [conn EXCEPT ![Of(u)] = after]
    BY <1>1, <1>3, <1>4, <1>7 DEF Clean
  <2>2. OwnContent(u)'
    BY <1>2, <1>7, ReturnsIs DEF OwnContent
  <2>3. (lock' = Of(u)) <=> (lock = Of(u))
    BY <1>2
  <2> QED BY <1>1, <1>2, <1>4, <1>5, <2>1, <2>2, <2>3, Returns
<1> QED BY <1>6, <1>7

LEMMA WriteInTransactionKeeps ==
  ASSUME PoolInv, NEW u \in Clients, WriteInTransaction(u)
  PROVE  PoolInv'
<1> USE DEF PoolInv
<1>1. /\ OnConn(u) /\ Of(u) \in Conns /\ conn[Of(u)] \in ConnType /\ client[u].handle
  <2>1. Runs(u, "write") /\ conn[Of(u)].tx
    BY DEF WriteInTransaction
  <2> QED BY <2>1, RunsOn DEF Clean
<1>2. Back(u) /\ UNCHANGED <<history, idle, queue, lost, kept>> /\ lock' = Of(u)
  BY DEF WriteInTransaction, pool
<1>3. Content(Of(u)) \in Seq(Writes) /\ Id(u) \in Writes /\ history \in Seq(Writes)
  BY <1>1, ContentIs, IdIs DEF Types
<1>4. Id(u) \notin ToSet(Content(Of(u))) /\ MayWrite(Of(u))
  BY DEF WriteInTransaction
<1>5. lock # Of(u)
  <2>1. SUFFICES ASSUME lock = Of(u) PROVE FALSE
    OBVIOUS
  <2>2. Content(Of(u)) = Append(history, Id(u))
    BY <1>1, <2>1, ContentIs
  <2>3. ToSet(Append(history, Id(u))) = ToSet(history) \cup {Id(u)}
    BY <1>3, ToSetAppend
  <2> QED BY <1>4, <2>2, <2>3
<1>6. lock = NoConn /\ Content(Of(u)) = history
  BY <1>4, <1>5 DEF MayWrite
<1> DEFINE new == [conn[Of(u)] EXCEPT !.snap = TRUE, !.view = Append(Content(Of(u)), Id(u))]
<1>7. conn' = [conn EXCEPT ![Of(u)] = new]
  BY <1>1 DEF WriteInTransaction, Types
<1>8. Append(history, Id(u)) \in Seq(Writes)
      /\ \A i \in 1 .. Len(Append(history, Id(u))) :
           Append(history, Id(u))[i] \in kept \cup {Id(u)}
  BY <1>3, ToSetAppend DEF Contents
<1>9. /\ new \in ConnType /\ new.open = conn[Of(u)].open /\ new.st = conn[Of(u)].st
      /\ new.tx = conn[Of(u)].tx /\ new.snap = TRUE /\ new.view = Append(history, Id(u))
  BY <1>1, <1>6, <1>8 DEF ConnType
<1> HIDE DEF new
<1>10. conn'[Of(u)] = new
  BY <1>1, <1>7 DEF Types
<1>11. OwnContent(u)'
  BY <1>2, <1>8, <1>9, <1>10, ReturnsIs DEF OwnContent
<1>12. Decides(u)
  BY <1>1, <1>2, ReturnsIs DEF Decides, Undecided
<1>13. LockOf(Of(u))
  BY <1>2, <1>6 DEF LockOf
<1> QED BY <1>1, <1>2, <1>7, <1>9, <1>11, <1>12, <1>13, Returns

LEMMA WriteAloneKeeps ==
  ASSUME PoolInv, NEW u \in Clients, WriteAlone(u)
  PROVE  PoolInv'
<1> USE DEF PoolInv
<1>1. /\ OnConn(u) /\ Of(u) \in Conns /\ conn[Of(u)] \in ConnType
      /\ ~client[u].handle /\ Clean(Of(u))
  <2>1. Runs(u, "write") /\ ~conn[Of(u)].tx
    BY DEF WriteAlone
  <2> QED BY <2>1, RunsOn DEF Opened
<1>2. /\ Back(u) /\ UNCHANGED <<conn, lock, idle, queue, lost>>
      /\ kept' = kept \cup {Id(u)} /\ history' = Append(history, Id(u))
      /\ client[u].pc = "write"
  BY DEF WriteAlone, Runs, pool
<1>3. lock = NoConn
  BY <1>1 DEF WriteAlone, MayWrite, Clean
<1>4. ~client'[u].handle /\ (Undecided(u)' => client[u].handle)
  BY <1>1, <1>2, ReturnsIs
<1>5. Decides(u)
  BY <1>1, <1>2, <1>3, <1>4 DEF Decides, Undecided
<1>6. OwnContent(u)' /\ LockOf(Of(u)) /\ ((lock' = Of(u)) <=> (lock = Of(u)))
  BY <1>2, <1>4 DEF OwnContent, LockOf
<1>7. conn' = [conn EXCEPT ![Of(u)] = conn[Of(u)]]
  BY <1>2 DEF Types
<1> QED BY <1>1, <1>2, <1>5, <1>6, <1>7, Returns

-----------------------------------------------------------------------------
(* The pool moves connections between itself and its clients.                *)

LEMMA ReadyOrNot ==
  ASSUME PoolInv, NEW u \in Clients, ~client[u].handle, NEW new \in ClientType,
         client' = [client EXCEPT ![u] = new],
         new.pc \in {"away", "waiting", "ready"}, ~new.handle, new.tx = client[u].tx,
         UNCHANGED <<history, lost, kept, lock>>,
         \A c \in Conns :
           /\ conn'[c].st = conn[c].st /\ conn'[c].tx = conn[c].tx
           /\ conn'[c].snap = conn[c].snap /\ conn'[c].view = conn[c].view
           /\ conn[c].open => conn'[c].open
  PROVE  /\ client' \in [Clients -> ClientType]
         /\ \A w \in Clients \ {u} : client'[w] = client[w]
         /\ client'[u] = new
         /\ Modes' /\ Contents'
<1> USE DEF PoolInv
<1>1. /\ client' \in [Clients -> ClientType]
      /\ \A w \in Clients \ {u} : client'[w] = client[w]
      /\ client'[u] = new
  BY DEF Types
<1>2. ASSUME NEW c \in Conns
      PROVE  /\ Clean(c)' <=> Clean(c)
             /\ Dropped(c)' <=> Dropped(c)
             /\ Broken(c)' <=> Broken(c)
             /\ Opened(c)' <=> Opened(c)
  BY DEF Clean, Dropped, Broken, Opened
<1>3. \A w \in Clients :
        /\ client'[w].handle <=> client[w].handle
        /\ client[w].handle => Of(w)' = Of(w) /\ Of(w) \in Conns
  BY <1>1 DEF Of, ClientsOK, Types, ClientType
<1>4. Modes'
  <2>1. \A w \in Clients : client'[w].handle => Opened(Of(w))'
    <3> SUFFICES ASSUME NEW w \in Clients, client'[w].handle PROVE Opened(Of(w))'
      OBVIOUS
    <3>1. Of(w)' = Of(w) /\ Of(w) \in Conns /\ Opened(Of(w))
      BY <1>3 DEF Modes
    <3> QED BY <3>1 DEF Opened
  <2>2. ASSUME NEW c \in Conns
        PROVE  \/ Clean(c)' \/ Dropped(c)' \/ Broken(c)'
               \/ Opened(c)' /\ \E w \in Clients : Of(w)' = c /\ client'[w].handle
    <3>1. CASE Clean(c) \/ Dropped(c) \/ Broken(c)
      BY <1>2, <3>1
    <3>2. CASE Opened(c) /\ \E w \in Clients : Of(w) = c /\ client[w].handle
      BY <1>2, <1>3, <3>2
    <3> QED BY <3>1, <3>2 DEF Modes
  <2>3. \A c \in Conns : ~conn'[c].open => Clean(c)'
    BY <1>2 DEF Modes
  <2> QED BY <2>1, <2>2, <2>3 DEF Modes
<1>5. \A w \in Clients : client'[w].tx = client[w].tx /\ Id(w)' = Id(w) /\ (Undecided(w)' => Undecided(w))
  BY <1>1 DEF Id, Undecided
<1>6. \A w \in kept \cup lost : w.tx <= client'[w.by].tx
  <2>1. \A w \in kept \cup lost : w.by \in Clients
    BY DEF Types, Writes
  <2> QED BY <1>5, <2>1 DEF Contents
<1>7. ASSUME NEW w \in Clients PROVE OwnContent(w)'
  <2>1. CASE client[w].handle
    BY <1>3, <1>5, <2>1 DEF Contents, OwnContent
  <2>2. CASE ~client[w].handle
    BY <1>3, <2>2 DEF OwnContent
  <2> QED BY <2>1, <2>2
<1>8. Contents'
  BY <1>5, <1>6, <1>7 DEF Contents
<1> QED BY <1>1, <1>4, <1>8

LEMMA AwayKeeps ==
  ASSUME PoolInv, NEW u \in Clients, NEW p \in {"away", "waiting"},
         client[u].pc \in {"away", "waiting"},
         client' = [client EXCEPT ![u].pc = p],
         UNCHANGED <<conn, history, lock, idle, lost, kept>>,
         queue' \in Seq(Clients),
         \A i, j \in 1 .. Len(queue') : queue'[i] = queue'[j] => i = j,
         \A i \in 1 .. Len(queue') : client'[queue'[i]].pc = "waiting"
  PROVE  PoolInv'
<1> USE DEF PoolInv
<1>1. ~client[u].handle /\ client[u].has = NoConn
  BY DEF ClientsOK, Of
<1> DEFINE new == [client[u] EXCEPT !.pc = p]
<1>2. /\ new \in ClientType /\ new.pc = p /\ new.has = NoConn
      /\ ~new.handle /\ new.tx = client[u].tx
  BY <1>1 DEF Types, ClientType, Steps
<1>3. client' = [client EXCEPT ![u] = new]
  BY DEF Types
<1> HIDE DEF new
<1>4. /\ client' \in [Clients -> ClientType]
      /\ \A w \in Clients \ {u} : client'[w] = client[w]
      /\ client'[u] = new
      /\ Modes' /\ Contents'
  BY <1>1, <1>2, <1>3, ReadyOrNot
<1>5. \A w \in Clients : Of(w)' = Of(w)
  BY <1>1, <1>2, <1>4 DEF Of
<1>6. ClientsOK'
  BY <1>2, <1>4, <1>5 DEF ClientsOK, Of
<1>7. Places'
  BY <1>5 DEF Places
<1>8. Types'
  BY <1>4 DEF Types
<1> QED BY <1>4, <1>6, <1>7, <1>8

LEMMA AcquireKeeps ==
  ASSUME PoolInv, NEW u \in Clients, Acquire(u)
  PROVE  PoolInv'
<1> USE DEF PoolInv
<1>1. /\ queue' = Append(queue, u) /\ queue \in Seq(Clients)
      /\ Append(queue, u) \in Seq(Clients) /\ Len(queue') = Len(queue) + 1 /\ Len(queue) \in Nat
      /\ \A i \in 1 .. Len(queue) : queue'[i] = queue[i] /\ queue[i] \in Clients
      /\ queue'[Len(queue) + 1] = u
  BY AppendProperties, LenProperties DEF Acquire, Types
<1>2. \A i \in 1 .. Len(queue) : queue[i] # u
  BY DEF Places, Acquire
<1>3. \A w \in Clients : client'[w].pc = IF w = u THEN "waiting" ELSE client[w].pc
  BY DEF Acquire, Types, ClientType
<1>4. \A i \in 1 .. Len(queue') : i \in 1 .. Len(queue) \/ i = Len(queue) + 1
  BY <1>1
<1>5. \A i \in 1 .. Len(queue) : i # Len(queue) + 1
  BY <1>1
<1>6. \A i, j \in 1 .. Len(queue') : queue'[i] = queue'[j] => i = j
  BY <1>1, <1>2, <1>4 DEF Places
<1>7. \A i \in 1 .. Len(queue') : client'[queue'[i]].pc = "waiting"
  <2> SUFFICES ASSUME NEW i \in 1 .. Len(queue') PROVE client'[queue'[i]].pc = "waiting"
    OBVIOUS
  <2>1. CASE i = Len(queue) + 1
    BY <1>1, <1>3, <2>1
  <2>2. CASE i \in 1 .. Len(queue)
    BY <1>1, <1>3, <2>2 DEF Places
  <2> QED BY <1>4, <2>1, <2>2
<1> QED BY <1>1, <1>6, <1>7, AwayKeeps DEF Acquire

LEMMA RemoveAtIs ==
  ASSUME NEW S, NEW s \in Seq(S), NEW i \in 1 .. Len(s)
  PROVE  /\ RemoveAt(s, i) \in Seq(S)
         /\ \A j \in 1 .. Len(RemoveAt(s, i)) :
              \E k \in 1 .. Len(s) : k # i /\ k = (IF j < i THEN j ELSE j + 1)
                                     /\ RemoveAt(s, i)[j] = s[k]
<1>1. Len(s) \in Nat
  BY LenProperties
<1> DEFINE a == SubSeq(s, 1, i - 1)
           b == SubSeq(s, i + 1, Len(s))
<1>2. /\ a \in Seq(S) /\ Len(a) = i - 1
      /\ \A j \in 1 .. i - 1 : a[j] = s[j]
  BY <1>1, SubSeqProperties
<1>3. /\ b \in Seq(S) /\ Len(b) = Len(s) - i
      /\ \A j \in 1 .. Len(s) - i : b[j] = s[i + j]
  BY <1>1, SubSeqProperties
<1>4. RemoveAt(s, i) = a \o b
  BY DEF RemoveAt
<1> HIDE DEF a, b
<1>5. /\ a \o b \in Seq(S) /\ Len(a \o b) = Len(s) - 1
      /\ \A j \in 1 .. Len(s) - 1 : (a \o b)[j] = IF j <= i - 1 THEN a[j] ELSE b[j - (i - 1)]
  <2>1. /\ a \o b \in Seq(S) /\ Len(a \o b) = Len(a) + Len(b)
        /\ \A j \in 1 .. Len(a) + Len(b) :
             (a \o b)[j] = IF j <= Len(a) THEN a[j] ELSE b[j - Len(a)]
    BY <1>2, <1>3, ConcatProperties
  <2>2. Len(a) + Len(b) = Len(s) - 1
    BY <1>1, <1>2, <1>3
  <2> QED BY <1>2, <2>1, <2>2
<1>6. ASSUME NEW j \in 1 .. Len(s) - 1
      PROVE  \E k \in 1 .. Len(s) : k # i /\ k = (IF j < i THEN j ELSE j + 1) /\ (a \o b)[j] = s[k]
  <2>1. CASE j < i
    BY <1>1, <1>2, <1>5, <2>1
  <2>2. CASE ~(j < i)
    <3>1. j - (i - 1) \in 1 .. Len(s) - i /\ i + (j - (i - 1)) = j + 1 /\ j + 1 \in 1 .. Len(s)
      BY <1>1, <2>2
    <3>2. (a \o b)[j] = b[j - (i - 1)]
      BY <1>1, <1>5, <2>2
    <3> QED BY <1>3, <2>2, <3>1, <3>2
  <2> QED BY <2>1, <2>2
<1> QED BY <1>4, <1>5, <1>6

LEMMA AcquireTimesOutKeeps ==
  ASSUME PoolInv, NEW u \in Clients, AcquireTimesOut(u)
  PROVE  PoolInv'
<1> USE DEF PoolInv
<1>1. PICK i \in 1 .. Len(queue) : queue[i] = u /\ queue' = RemoveAt(queue, i)
  BY DEF AcquireTimesOut
<1>2. queue \in Seq(Clients) /\ Len(queue) \in Nat
  BY LenProperties DEF Types
<1>3. /\ queue' \in Seq(Clients)
      /\ \A j \in 1 .. Len(queue') :
           \E k \in 1 .. Len(queue) : k # i /\ k = (IF j < i THEN j ELSE j + 1) /\ queue'[j] = queue[k]
  BY <1>1, <1>2, RemoveAtIs
<1>4. Len(queue') \in Nat
  BY <1>3, LenProperties
<1>5. \A j, l \in 1 .. Len(queue') : queue'[j] = queue'[l] => j = l
  <2> SUFFICES ASSUME NEW j \in 1 .. Len(queue'), NEW l \in 1 .. Len(queue'), queue'[j] = queue'[l]
               PROVE  j = l
    OBVIOUS
  <2>1. PICK k \in 1 .. Len(queue) : k # i /\ k = (IF j < i THEN j ELSE j + 1) /\ queue'[j] = queue[k]
    BY <1>3
  <2>2. PICK m \in 1 .. Len(queue) : m # i /\ m = (IF l < i THEN l ELSE l + 1) /\ queue'[l] = queue[m]
    BY <1>3
  <2>3. k = m
    BY <2>1, <2>2 DEF Places
  <2> QED BY <1>2, <1>4, <2>1, <2>2, <2>3
<1>6. \A w \in Clients \ {u} : client'[w].pc = client[w].pc
  BY DEF AcquireTimesOut, Types, ClientType
<1>7. \A j \in 1 .. Len(queue') : client'[queue'[j]].pc = "waiting"
  <2> SUFFICES ASSUME NEW j \in 1 .. Len(queue') PROVE client'[queue'[j]].pc = "waiting"
    OBVIOUS
  <2>1. PICK k \in 1 .. Len(queue) : k # i /\ queue'[j] = queue[k]
    BY <1>3
  <2>2. queue[k] # u /\ client[queue[k]].pc = "waiting"
    BY <1>1, <2>1 DEF Places
  <2>3. queue[k] \in Clients
    BY <1>2
  <2> QED BY <1>6, <2>1, <2>2, <2>3
<1> QED BY <1>3, <1>5, <1>7, AwayKeeps DEF AcquireTimesOut

LEMMA TailIs ==
  ASSUME NEW S, NEW s \in Seq(S), s # <<>>
  PROVE  /\ Head(s) \in S /\ Head(s) = s[1] /\ 1 \in 1 .. Len(s)
         /\ Tail(s) \in Seq(S)
         /\ \A i \in 1 .. Len(Tail(s)) : i + 1 \in 1 .. Len(s) /\ i + 1 # 1 /\ Tail(s)[i] = s[i + 1]
         /\ \A i, j \in 1 .. Len(Tail(s)) : i + 1 = j + 1 => i = j
<1>1. Len(s) \in Nat \ {0}
  BY EmptySeq
<1>2. /\ Head(s) \in S /\ Tail(s) \in Seq(S) /\ Len(Tail(s)) = Len(s) - 1
      /\ \A i \in 1 .. Len(Tail(s)) : Tail(s)[i] = s[i + 1]
  BY HeadTailProperties
<1>3. Head(s) = s[1]
  OBVIOUS
<1>4. \A i \in 1 .. Len(s) - 1 : i + 1 \in 1 .. Len(s) /\ i + 1 # 1
  BY <1>1
<1>5. \A i, j \in 1 .. Len(s) - 1 : i + 1 = j + 1 => i = j
  BY <1>1
<1> QED BY <1>1, <1>2, <1>3, <1>4, <1>5

(* The head of the queue gets c, which no client and nobody in the pool has. *)
LEMMA HandKeeps ==
  ASSUME PoolInv, NEW u \in Clients, NEW c \in Conns, Hand(c, u),
         \A w \in Clients : Of(w) # c,
         conn' \in [Conns -> ConnType], conn'[c].open,
         \A d \in Conns \ {c} : conn'[d] = conn[d],
         conn'[c].st = conn[c].st /\ conn'[c].tx = conn[c].tx,
         conn'[c].snap = conn[c].snap /\ conn'[c].view = conn[c].view,
         idle' \in Seq(Conns),
         \A i, j \in 1 .. Len(idle') : idle'[i] = idle'[j] => i = j,
         \A i \in 1 .. Len(idle') : idle'[i] # c /\ \E j \in 1 .. Len(idle) : idle'[i] = idle[j]
  PROVE  PoolInv'
<1> USE DEF PoolInv
<1>1. /\ u = queue[1] /\ 1 \in 1 .. Len(queue) /\ queue' = Tail(queue) /\ queue' \in Seq(Clients)
      /\ \A i \in 1 .. Len(queue') :
           i + 1 \in 1 .. Len(queue) /\ i + 1 # 1 /\ queue'[i] = queue[i + 1]
      /\ \A i, j \in 1 .. Len(queue') : i + 1 = j + 1 => i = j
  BY TailIs DEF Hand, Types
<1>2. client[u].pc = "waiting" /\ ~client[u].handle /\ client[u].has = NoConn
  BY <1>1 DEF Places, ClientsOK, Of
<1> DEFINE new == [client[u] EXCEPT !.pc = "ready", !.has = c]
<1>3. /\ new \in ClientType /\ new.pc = "ready" /\ new.has = c
      /\ ~new.handle /\ new.tx = client[u].tx
  BY <1>2 DEF Types, ClientType, Steps
<1>4. client' = [client EXCEPT ![u] = new]
  BY DEF Hand, Types
<1> HIDE DEF new
<1>5. \A d \in Conns :
        /\ conn'[d].st = conn[d].st /\ conn'[d].tx = conn[d].tx
        /\ conn'[d].snap = conn[d].snap /\ conn'[d].view = conn[d].view
        /\ conn[d].open => conn'[d].open
        /\ ~conn'[d].open => d # c /\ ~conn[d].open
  OBVIOUS
<1>6. UNCHANGED <<history, lock, lost, kept>>
  BY DEF Hand
<1>7. /\ client' \in [Clients -> ClientType]
      /\ \A w \in Clients \ {u} : client'[w] = client[w]
      /\ client'[u] = new
      /\ Modes' /\ Contents'
  <2>1. \A d \in Conns :
          /\ conn'[d].st = conn[d].st /\ conn'[d].tx = conn[d].tx
          /\ conn'[d].snap = conn[d].snap /\ conn'[d].view = conn[d].view
          /\ conn[d].open => conn'[d].open
    BY <1>5, Zenon
  <2> HIDE DEF PoolInv
  <2> QED BY <1>2, <1>3, <1>4, <1>6, <2>1, ReadyOrNot
<1>8. \A w \in Clients : Of(w)' = IF w = u THEN c ELSE Of(w)
  BY <1>3, <1>7 DEF Of
<1>9. ClientsOK'
  BY <1>3, <1>7, <1>8 DEF ClientsOK, Of
<1>10. \A w, x \in Clients : Of(w)' = Of(x)' /\ Of(w)' # NoConn => w = x
  BY <1>8 DEF Places
<1>11. \A i \in 1 .. Len(idle'), w \in Clients : Of(w)' # idle'[i]
  BY <1>8 DEF Places
<1>12. ASSUME NEW d \in Conns, ~conn'[d].open
       PROVE  (\A w \in Clients : Of(w)' # d) /\ (\A i \in 1 .. Len(idle') : idle'[i] # d)
  <2>1. d # c /\ ~conn[d].open
    BY <1>5, <1>12, Zenon
  <2> QED BY <1>8, <2>1 DEF Places
<1>13. \A i, j \in 1 .. Len(queue') : queue'[i] = queue'[j] => i = j
  BY <1>1 DEF Places
<1>14. \A i \in 1 .. Len(queue') : client'[queue'[i]].pc = "waiting"
  <2> SUFFICES ASSUME NEW i \in 1 .. Len(queue') PROVE client'[queue'[i]].pc = "waiting"
    OBVIOUS
  <2>1. queue'[i] # u /\ client[queue'[i]].pc = "waiting"
    BY <1>1 DEF Places
  <2>2. queue'[i] \in Clients
    BY <1>1, LenProperties
  <2> QED BY <1>7, <2>1, <2>2
<1>15. Places'
  BY <1>10, <1>11, <1>12, <1>13, <1>14 DEF Places
<1>16. Types'
  BY <1>1, <1>5, <1>6, <1>7 DEF Types
<1> QED BY <1>7, <1>9, <1>15, <1>16

LEMMA HandIdleKeeps ==
  ASSUME PoolInv, NEW u \in Clients, HandIdle(u)
  PROVE  PoolInv'
<1> USE DEF PoolInv
<1> DEFINE c == Head(idle)
<1>1. /\ c \in Conns /\ c = idle[1] /\ 1 \in 1 .. Len(idle)
      /\ idle' = Tail(idle) /\ idle' \in Seq(Conns)
      /\ \A i \in 1 .. Len(idle') :
           i + 1 \in 1 .. Len(idle) /\ i + 1 # 1 /\ idle'[i] = idle[i + 1]
      /\ \A i, j \in 1 .. Len(idle') : i + 1 = j + 1 => i = j
  BY TailIs DEF HandIdle, Types
<1>2. Hand(c, u) /\ conn' = conn
  BY DEF HandIdle
<1> HIDE DEF c
<1>3. \A w \in Clients : Of(w) # c
  BY <1>1 DEF Places
<1>4. conn[c].open
  <2> SUFFICES ASSUME ~conn[c].open PROVE FALSE
    OBVIOUS
  <2> QED BY <1>1 DEF Places
<1>5. conn' \in [Conns -> ConnType] /\ conn'[c].open
  BY <1>2, <1>4 DEF Types
<1>6. \A i, j \in 1 .. Len(idle') : idle'[i] = idle'[j] => i = j
  BY <1>1 DEF Places
<1>7. \A i \in 1 .. Len(idle') : idle'[i] # c /\ \E j \in 1 .. Len(idle) : idle'[i] = idle[j]
  BY <1>1 DEF Places
<1> QED BY <1>1, <1>2, <1>3, <1>5, <1>6, <1>7, HandKeeps

LEMMA HandNewKeeps ==
  ASSUME PoolInv, NEW u \in Clients, HandNew(u)
  PROVE  PoolInv'
<1> USE DEF PoolInv
<1>1. PICK c \in Conns :
        ~conn[c].open /\ Hand(c, u) /\ conn' = [conn EXCEPT ![c].open = TRUE]
  BY DEF HandNew
<1>2. idle' = idle /\ idle \in Seq(Conns)
  BY DEF HandNew, Types
<1>3. (\A w \in Clients : Of(w) # c) /\ (\A i \in 1 .. Len(idle) : idle[i] # c)
  BY <1>1 DEF Places
<1>4. \A i, j \in 1 .. Len(idle') : idle'[i] = idle'[j] => i = j
  BY <1>2 DEF Places
<1>5. \A i \in 1 .. Len(idle') : idle'[i] # c /\ \E j \in 1 .. Len(idle) : idle'[i] = idle[j]
  BY <1>2, <1>3
<1>6. /\ conn' \in [Conns -> ConnType] /\ conn'[c].open
      /\ \A d \in Conns \ {c} : conn'[d] = conn[d]
      /\ conn'[c].st = conn[c].st /\ conn'[c].tx = conn[c].tx
      /\ conn'[c].snap = conn[c].snap /\ conn'[c].view = conn[c].view
  <2>1. conn \in [Conns -> ConnType] /\ conn[c] \in ConnType
    BY DEF Types
  <2>2. PICK new : new = [conn[c] EXCEPT !.open = TRUE]
    OBVIOUS
  <2>3. /\ new \in ConnType /\ new.open /\ new.st = conn[c].st /\ new.tx = conn[c].tx
        /\ new.snap = conn[c].snap /\ new.view = conn[c].view
    BY <2>1, <2>2 DEF ConnType
  <2>4. conn' = [conn EXCEPT ![c] = new]
    BY <1>1, <2>2
  <2> QED BY <2>1, <2>3, <2>4
<1>7. Hand(c, u) /\ idle' \in Seq(Conns) /\ \A w \in Clients : Of(w) # c
  BY <1>1, <1>2, <1>3
<1> HIDE DEF PoolInv
<1> QED BY <1>4, <1>5, <1>6, <1>7, HandKeeps

LEMMA GiveBackKeeps ==
  ASSUME PoolInv, NEW u \in Clients, GiveBack(u)
  PROVE  PoolInv'
<1> USE DEF PoolInv
<1>1. Of(u) \in Conns /\ ~client[u].handle /\ client[u].pc = "ready"
  BY HasConn DEF GiveBack, OnConn
<1>2. /\ idle' = Append(idle, Of(u)) /\ idle \in Seq(Conns)
      /\ idle' \in Seq(Conns) /\ Len(idle') = Len(idle) + 1 /\ Len(idle) \in Nat
      /\ \A i \in 1 .. Len(idle) : idle'[i] = idle[i]
      /\ idle'[Len(idle) + 1] = Of(u)
  BY <1>1, AppendProperties, LenProperties DEF GiveBack, Types
<1>3. \A i \in 1 .. Len(idle') : i \in 1 .. Len(idle) \/ i = Len(idle) + 1
  BY <1>2
<1> DEFINE new == [client[u] EXCEPT !.pc = "away", !.has = NoConn]
<1>4. /\ new \in ClientType /\ new.pc = "away" /\ new.has = NoConn
      /\ ~new.handle /\ new.tx = client[u].tx
  BY <1>1 DEF Types, ClientType, Steps
<1>5. client' = [client EXCEPT ![u] = new]
  BY DEF GiveBack, Types
<1> HIDE DEF new
<1>6. UNCHANGED <<conn, history, lock, queue, lost, kept>>
  BY DEF GiveBack
<1>7. \A c \in Conns :
        /\ conn'[c].st = conn[c].st /\ conn'[c].tx = conn[c].tx
        /\ conn'[c].snap = conn[c].snap /\ conn'[c].view = conn[c].view
        /\ conn[c].open => conn'[c].open
  BY <1>6
<1>8. /\ client' \in [Clients -> ClientType]
      /\ \A w \in Clients \ {u} : client'[w] = client[w]
      /\ client'[u] = new
      /\ Modes' /\ Contents'
  BY <1>1, <1>4, <1>5, <1>6, <1>7, ReadyOrNot
<1>9. \A w \in Clients : Of(w)' = IF w = u THEN NoConn ELSE Of(w)
  BY <1>4, <1>8 DEF Of
<1>10. ClientsOK'
  BY <1>4, <1>8, <1>9 DEF ClientsOK, Of
<1>11. \A w, x \in Clients : Of(w)' = Of(x)' /\ Of(w)' # NoConn => w = x
  BY <1>9 DEF Places
<1>12. \A i, j \in 1 .. Len(idle') : idle'[i] = idle'[j] => i = j
  BY <1>2, <1>3 DEF Places
<1>13. \A i \in 1 .. Len(idle'), w \in Clients : Of(w)' # idle'[i]
  <2> SUFFICES ASSUME NEW i \in 1 .. Len(idle'), NEW w \in Clients PROVE Of(w)' # idle'[i]
    OBVIOUS
  <2>1. idle'[i] # NoConn
    BY <1>2, LenProperties
  <2>2. CASE w = u
    BY <1>9, <2>1, <2>2
  <2>3. CASE w # u /\ i = Len(idle) + 1
    BY <1>1, <1>2, <1>9, <2>3 DEF Places
  <2>4. CASE w # u /\ i \in 1 .. Len(idle)
    BY <1>2, <1>9, <2>4 DEF Places
  <2> QED BY <1>3, <2>2, <2>3, <2>4
<1>14. ASSUME NEW d \in Conns, ~conn'[d].open
       PROVE  (\A w \in Clients : Of(w)' # d) /\ (\A i \in 1 .. Len(idle') : idle'[i] # d)
  <2>1. ~conn[d].open
    BY <1>6, <1>14
  <2>2. (\A w \in Clients : Of(w) # d) /\ (\A i \in 1 .. Len(idle) : idle[i] # d)
    BY <2>1 DEF Places
  <2> QED BY <1>2, <1>3, <1>9, <2>2
<1>15. \A i \in 1 .. Len(queue) : client'[queue[i]].pc = "waiting"
  <2> SUFFICES ASSUME NEW i \in 1 .. Len(queue) PROVE client'[queue[i]].pc = "waiting"
    OBVIOUS
  <2>1. queue[i] # u /\ client[queue[i]].pc = "waiting"
    BY <1>1 DEF Places
  <2>2. queue[i] \in Clients
    BY LenProperties DEF Types
  <2> QED BY <1>8, <2>1, <2>2
<1>16. Places'
  BY <1>6, <1>11, <1>12, <1>13, <1>14, <1>15 DEF Places
<1>17. Types'
  BY <1>2, <1>6, <1>8 DEF Types
<1> QED BY <1>8, <1>10, <1>16, <1>17

LEMMA ExpireKeeps ==
  ASSUME PoolInv, Expire
  PROVE  PoolInv'
<1> USE DEF PoolInv
<1>1. PICK c \in Conns :
      /\ c = Head(idle) /\ c = idle[1] /\ 1 \in 1 .. Len(idle)
      /\ idle' = Tail(idle) /\ idle' \in Seq(Conns)
      /\ \A i \in 1 .. Len(idle') :
           i + 1 \in 1 .. Len(idle) /\ i + 1 # 1 /\ idle'[i] = idle[i + 1]
      /\ \A i, j \in 1 .. Len(idle') : i + 1 = j + 1 => i = j
  BY TailIs DEF Expire, Types
<1>2. /\ conn' = [conn EXCEPT ![c] = Closed]
      /\ lock' = IF lock = c THEN NoConn ELSE lock
      /\ UNCHANGED <<history, queue, client, lost, kept>>
  BY <1>1 DEF Expire
<1>3. /\ conn' \in [Conns -> ConnType] /\ conn'[c] = Closed
      /\ \A d \in Conns \ {c} : conn'[d] = conn[d]
  BY <1>1, <1>2, ClosedType DEF Types
<1>4. \A w \in Clients : Of(w) # c /\ Of(w)' = Of(w)
  BY <1>1, <1>2 DEF Places, Of
<1>5. \A d \in Conns \ {c} : (lock' = d) <=> (lock = d)
  BY <1>2
<1>6. ClientsOK'
  BY <1>2, <1>4 DEF ClientsOK
<1>7. Places'
  <2>1. ASSUME NEW d \in Conns, ~conn'[d].open
        PROVE  (\A w \in Clients : Of(w) # d) /\ (\A i \in 1 .. Len(idle') : idle'[i] # d)
    <3>1. CASE d = c
      BY <1>1, <1>4, <3>1 DEF Places
    <3>2. CASE d # c
      <4>1. ~conn[d].open
        BY <1>3, <2>1, <3>2
      <4> QED BY <1>1, <4>1 DEF Places
    <3> QED BY <3>1, <3>2
  <2>2. \A i, j \in 1 .. Len(idle') : idle'[i] = idle'[j] => i = j
    BY <1>1 DEF Places
  <2>3. \A i \in 1 .. Len(idle'), w \in Clients : Of(w) # idle'[i]
    BY <1>1 DEF Places
  <2> QED BY <1>2, <1>4, <2>1, <2>2, <2>3 DEF Places
<1>8. Clean(c)'
  <2>1. lock' # c
    BY <1>1, <1>2
  <2> QED BY <1>3, <2>1 DEF Clean, Closed, DefaultState
<1>9. ASSUME NEW d \in Conns \ {c}
      PROVE  /\ Clean(d)' <=> Clean(d)
             /\ Dropped(d)' <=> Dropped(d)
             /\ Broken(d)' <=> Broken(d)
             /\ Opened(d)' <=> Opened(d)
  BY <1>3, <1>5 DEF Clean, Dropped, Broken, Opened
<1>10. Modes'
  <2>1. \A w \in Clients : client'[w].handle => Opened(Of(w))'
    <3> SUFFICES ASSUME NEW w \in Clients, client'[w].handle PROVE Opened(Of(w))'
      OBVIOUS
    <3>1. client[w].handle /\ Opened(Of(w)) /\ Of(w) \in Conns \ {c}
      BY <1>2, <1>4 DEF Modes, ClientsOK, Types, ClientType, Of
    <3>2. conn'[Of(w)] = conn[Of(w)] /\ Of(w)' = Of(w)
      BY <1>3, <1>4, <3>1
    <3> QED BY <3>1, <3>2 DEF Opened
  <2>2. ASSUME NEW d \in Conns
        PROVE  \/ Clean(d)' \/ Dropped(d)' \/ Broken(d)'
               \/ Opened(d)' /\ \E w \in Clients : Of(w)' = d /\ client'[w].handle
    <3>1. CASE d = c
      BY <1>8, <3>1
    <3>2. CASE d # c /\ (Clean(d) \/ Dropped(d) \/ Broken(d))
      BY <1>9, <3>2
    <3>3. CASE d # c /\ Opened(d) /\ \E w \in Clients : Of(w) = d /\ client[w].handle
      BY <1>2, <1>4, <1>9, <3>3
    <3> QED BY <3>1, <3>2, <3>3 DEF Modes
  <2>3. ASSUME NEW d \in Conns, ~conn'[d].open PROVE Clean(d)'
    <3>1. CASE d = c
      BY <1>8, <3>1
    <3>2. CASE d # c
      BY <1>3, <1>9, <2>3, <3>2 DEF Modes
    <3> QED BY <3>1, <3>2
  <2> QED BY <2>1, <2>2, <2>3 DEF Modes
<1>11. ASSUME NEW w \in Clients PROVE OwnContent(w)'
  <2>1. CASE client[w].handle
    <3>1. Of(w) \in Conns \ {c}
      BY <1>4, <2>1 DEF ClientsOK, Types, ClientType, Of
    <3>2. conn'[Of(w)] = conn[Of(w)] /\ Of(w)' = Of(w) /\ Id(w)' = Id(w)
      BY <1>2, <1>3, <1>4, <3>1 DEF Id
    <3>3. (lock' = Of(w)) <=> (lock = Of(w))
      BY <1>5, <3>1
    <3> QED BY <1>2, <2>1, <3>2, <3>3 DEF Contents, OwnContent
  <2>2. CASE ~client[w].handle
    BY <1>2, <2>2 DEF OwnContent
  <2> QED BY <2>1, <2>2
<1>12. Contents'
  BY <1>2, <1>11 DEF Contents, Undecided, Id
<1>13. Types'
  BY <1>1, <1>2, <1>3 DEF Types
<1> QED BY <1>6, <1>7, <1>10, <1>12, <1>13

-----------------------------------------------------------------------------
(* The invariant is inductive.                                               *)

LEMMA InitInv ==
  ASSUME Init
  PROVE  PoolInv
<1>1. Types
  <2>1. Away \in ClientType
    BY DEF Away, ClientType, Steps
  <2>2. <<>> \in Seq(Writes) /\ <<>> \in Seq(Conns) /\ <<>> \in Seq(Clients)
    BY EmptySeq
  <2> QED BY <2>1, <2>2, ClosedType DEF Init, Types
<1>2. Len(<<>>) = 0
  OBVIOUS
<1>3. \A u \in Clients : client[u].pc = "away" /\ ~client[u].handle /\ Of(u) = NoConn
  BY DEF Init, Away, Of
<1>4. ClientsOK
  BY <1>3 DEF ClientsOK
<1>5. Places
  BY <1>2, <1>3 DEF Init, Places
<1>6. \A c \in Conns : Clean(c)
  BY DEF Init, Clean, Closed, DefaultState
<1>7. Modes
  BY <1>3, <1>6 DEF Modes
<1>8. Contents
  <2>1. ToSet(<<>>) = {}
    BY <1>2 DEF ToSet
  <2> QED BY <1>3, <2>1 DEF Init, Contents, Undecided, OwnContent
<1> QED BY <1>1, <1>4, <1>5, <1>7, <1>8 DEF PoolInv

LEMMA StepKeeps ==
  ASSUME PoolInv, NEW u \in Clients, Step(u)
  PROVE  PoolInv'
  BY RollBackPendingKeeps, FailPendingKeeps, RefuseFailedKeeps, BeginKeeps, CommitKeeps,
     RollbackKeeps, TransactionFailsKeeps, PrepareKeeps, ReadKeeps, WriteInTransactionKeeps,
     WriteAloneKeeps, QueryFailsKeeps
  DEF Step

LEMMA NextKeeps ==
  ASSUME PoolInv, [Next]_vars
  PROVE  PoolInv'
<1>1. CASE UNCHANGED vars
  <2>1. UNCHANGED <<conn, history, lock, idle, queue, client, lost, kept>>
    BY <1>1 DEF vars, pool
  <2>2. Types' /\ ClientsOK'
    BY <2>1 DEF PoolInv, Types, ClientsOK, Of
  <2>3. Places'
    BY <2>1 DEF PoolInv, Places, Of
  <2>4. Modes'
    BY <2>1 DEF PoolInv, Modes, Of, Clean, Opened, Dropped, Broken
  <2>5. Contents'
    BY <2>1 DEF PoolInv, Contents, Of, Undecided, OwnContent, Id
  <2> QED BY <2>2, <2>3, <2>4, <2>5 DEF PoolInv
<1>2. CASE Expire
  BY <1>2, ExpireKeeps
<1>3. ASSUME NEW u \in Clients,
             \/ Acquire(u) \/ AcquireTimesOut(u) \/ HandIdle(u) \/ HandNew(u) \/ GiveBack(u)
             \/ DropHandle(u) \/ Step(u)
      PROVE  PoolInv'
  BY <1>3, AcquireKeeps, AcquireTimesOutKeeps, HandIdleKeeps, HandNewKeeps, GiveBackKeeps,
     DropHandleKeeps, StepKeeps
<1>4. ASSUME NEW u \in Clients, CallQuery(u) \/ CallEnd(u) \/ Call(u, "prepare")
      PROVE  PoolInv'
  <2>1. \E op \in Steps \ {"away", "waiting", "ready"} : Call(u, op)
    BY <1>4 DEF CallQuery, CallEnd, Queries, Steps
  <2> QED BY <2>1, CallKeeps
<1> QED BY <1>1, <1>2, <1>3, <1>4 DEF Next

(* Every connection has one place, is clean, in its client's transaction,    *)
(* with one rollback queued, or broken, and its content is the committed one *)
(* and its client's write (transaction.rs, connection.rs).                   *)
THEOREM PoolInvAlways == Spec => []PoolInv
<1>1. Init => PoolInv
  BY InitInv
<1>2. PoolInv /\ [Next]_vars => PoolInv'
  BY NextKeeps
<1> QED BY <1>1, <1>2, PTL DEF Spec

-----------------------------------------------------------------------------
(* What follows from it.                                                     *)

(* A client never works on the content of another's unfinished transaction,  *)
(* whatever the connection it was given went through (the drain in           *)
(* clear_pending_rollback).                                                  *)
THEOREM OnlyOwnWorkAlways == Spec => []OnlyOwnWork
<1>1. ASSUME PoolInv PROVE OnlyOwnWork
  <2> USE DEF PoolInv
  <2> SUFFICES ASSUME NEW u \in Clients, NEW op \in Queries \cup {"begin"}, Runs(u, op),
                      NEW i \in DOMAIN Content(Of(u)), Content(Of(u))[i].by # u
               PROVE  Content(Of(u))[i] \in kept
    BY DEF OnlyOwnWork
  <2>1. op \in {"begin", "commit", "rollback", "read", "write"}
    BY DEF Queries
  <2>2. /\ Of(u) \in Conns /\ (~client[u].handle => Clean(Of(u)))
    BY <1>1, <2>1, RunsOn
  <2>3. CASE client[u].handle
    <3>1. /\ Content(Of(u)) \in Seq(Writes)
          /\ \A j \in 1 .. Len(Content(Of(u))) : Content(Of(u))[j] \in kept \cup {Id(u)}
      BY <1>1, <2>3, ContentIs
    <3>2. i \in 1 .. Len(Content(Of(u)))
      BY <3>1, LenProperties
    <3>3. Content(Of(u))[i] # Id(u)
      BY <1>1, IdIs
    <3> QED BY <3>1, <3>2, <3>3
  <2>4. CASE ~client[u].handle
    <3>1. Content(Of(u)) = history
      BY <2>2, <2>4 DEF Content, Clean
    <3>2. Content(Of(u))[i] \in ToSet(history)
      BY <3>1 DEF ToSet
    <3> QED BY <1>1, <3>2 DEF Contents
  <2> QED BY <2>3, <2>4
<1> QED BY <1>1, PoolInvAlways, PTL

(* What was committed stays, and nothing of a handle that was dropped,       *)
(* rolled back or failed to commit becomes content.                          *)
THEOREM FateKeptAlways == Spec => []FateKept
<1>1. ASSUME PoolInv PROVE FateKept
  BY <1>1 DEF PoolInv, Contents, FateKept
<1> QED BY <1>1, PoolInvAlways, PTL

(* Whoever holds the engine's write lock has a handle, a queued rollback or  *)
(* a failed one: no call forgets to give it back.                            *)
THEOREM LockHasReasonAlways == Spec => []LockHasReason
<1>1. ASSUME PoolInv PROVE LockHasReason
  <2> SUFFICES ASSUME NEW c \in Conns, lock = c
               PROVE  \/ conn[c].st.failed
                      \/ conn[c].st.pending # <<>>
                      \/ conn[c].st.depth > 0 /\ \E u \in Clients : Of(u) = c /\ client[u].handle
    BY DEF LockHasReason
  <2>1. \/ Dropped(c) \/ Broken(c)
        \/ Opened(c) /\ \E u \in Clients : Of(u) = c /\ client[u].handle
    BY <1>1 DEF PoolInv, Modes, Clean
  <2>2. Dropped(c) => conn[c].st.pending # <<>>
    <3>1. Len(<<>>) = 0
      OBVIOUS
    <3> QED BY <3>1 DEF Dropped
  <2>3. Opened(c) => conn[c].st.depth > 0
    <3>1. 1 > 0
      OBVIOUS
    <3>2. Opened(c) => conn[c].st.depth = 1
      BY DEF Opened
    <3> QED BY <3>1, <3>2
  <2>4. Broken(c) => conn[c].st.failed
    BY Zenon DEF Broken
  <2> QED BY <2>1, <2>2, <2>3, <2>4, Zenon
<1> QED BY <1>1, PoolInvAlways, PTL

(* prepare and describe see the committed schema on every connection that    *)
(* has no transaction open, no rollback queued and none that failed.         *)
THEOREM PreparedIsCommittedAlways == Spec => []PreparedIsCommitted
<1>1. ASSUME PoolInv PROVE PreparedIsCommitted
  <2> SUFFICES ASSUME NEW u \in Clients, client[u].pc = "prepare", ~conn[Of(u)].cached,
                      State(u).depth = 0, State(u).pending = <<>>, ~State(u).failed
               PROVE  Columns(Of(u)) = history
    BY DEF PreparedIsCommitted
  <2>1. OwnMode(u)
    BY <1>1, ModeOfClient DEF PoolInv, OnConn
  <2>2. ~Opened(Of(u)) /\ ~Dropped(Of(u)) /\ ~Broken(Of(u))
    <3>1. Len(<<>>) = 0 /\ 0 # 1
      OBVIOUS
    <3> QED BY <3>1 DEF Opened, Dropped, Broken, State
  <2>3. Clean(Of(u))
    BY <2>1, <2>2 DEF OwnMode
  <2> QED BY <2>3 DEF Columns, Content, Clean
<1> QED BY <1>1, PoolInvAlways, PTL
=============================================================================
