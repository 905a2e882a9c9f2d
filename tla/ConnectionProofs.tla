-------------------------- MODULE ConnectionProofs --------------------------
(* Machine-checked proofs about Connection, for every set of contents, every *)
(* bound and every set of faults: what holds of the adapter's own state; that*)
(* its scopes and the engine's transaction and savepoints stay in step, as   *)
(* long as only the adapter and commit conflicts end transactions; what a    *)
(* failed rollback does to a connection; and that the connection then        *)
(* implements NestedTransactions.                                            *)
EXTENDS Connection, SequenceTheorems, TLAPS

-----------------------------------------------------------------------------
(* What the methods of TransactionState do to each field of a state.         *)

LEMMA IncrementFields ==
  ASSUME NEW s \in TransactionStates
  PROVE  /\ IncrementDepth(s) \in TransactionStates
         /\ IncrementDepth(s).depth = s.depth + 1
         /\ IncrementDepth(s).pending = s.pending
         /\ IncrementDepth(s).failed = s.failed
BY DEF TransactionStates, IncrementDepth

LEMMA DecrementFields ==
  ASSUME NEW s \in TransactionStates
  PROVE  /\ DecrementDepth(s) \in TransactionStates
         /\ DecrementDepth(s).depth = IF s.depth > 0 THEN s.depth - 1 ELSE 0
         /\ DecrementDepth(s).pending = s.pending
         /\ DecrementDepth(s).failed = s.failed
BY DEF TransactionStates, DecrementDepth

LEMMA MarkFields ==
  ASSUME NEW s \in TransactionStates
  PROVE  /\ MarkRollbackNeeded(s) \in TransactionStates
         /\ s.depth = 0 => MarkRollbackNeeded(s) = s
         /\ s.depth > 0 =>
              /\ MarkRollbackNeeded(s).depth = s.depth - 1
              /\ MarkRollbackNeeded(s).pending = Append(s.pending, s.depth)
         /\ MarkRollbackNeeded(s).failed = s.failed
<1> DEFINE t == [s EXCEPT !.pending = Append(@, s.depth)]
<1>1. CASE s.depth = 0
  BY <1>1 DEF MarkRollbackNeeded
<1>2. CASE s.depth > 0
  <2>1. s.depth \in Nat \ {0} /\ s.pending \in Seq(Nat \ {0})
    BY <1>2 DEF TransactionStates
  <2>2. Append(s.pending, s.depth) \in Seq(Nat \ {0})
    BY <2>1
  <2>3. /\ t \in TransactionStates
        /\ t.depth = s.depth
        /\ t.pending = Append(s.pending, s.depth)
        /\ t.failed = s.failed
    BY <2>2 DEF TransactionStates
  <2>4. MarkRollbackNeeded(s) = DecrementDepth(t)
    BY <1>2 DEF MarkRollbackNeeded
  <2> HIDE DEF t
  <2> QED
    BY <1>2, <2>3, <2>4, DecrementFields
<1> QED
  BY <1>1, <1>2 DEF TransactionStates

LEMMA PopFields ==
  ASSUME NEW s \in TransactionStates, s.pending # <<>>
  PROVE  /\ PopPendingRollback(s) \in TransactionStates
         /\ PopPendingRollback(s).depth = s.depth
         /\ PopPendingRollback(s).pending = Tail(s.pending)
         /\ PopPendingRollback(s).failed = s.failed
<1>1. s.pending \in Seq(Nat \ {0})
  BY DEF TransactionStates
<1>2. Tail(s.pending) \in Seq(Nat \ {0})
  BY <1>1
<1> QED
  BY <1>2 DEF TransactionStates, PopPendingRollback

LEMMA FailFields ==
  ASSUME NEW s \in TransactionStates
  PROVE  /\ MarkRollbackFailed(s) \in TransactionStates
         /\ MarkRollbackFailed(s).depth = s.depth
         /\ MarkRollbackFailed(s).pending = <<>>
         /\ MarkRollbackFailed(s).failed = TRUE
<1>1. <<>> \in Seq(Nat \ {0})
  BY EmptySeq
<1> QED
  BY <1>1 DEF TransactionStates, MarkRollbackFailed

-----------------------------------------------------------------------------
(* The engine.                                                               *)

LEMMA Prefix ==
  ASSUME NEW S, NEW s \in Seq(S), NEW k \in 0 .. Len(s)
  PROVE  /\ SubSeq(s, 1, k) \in Seq(S)
         /\ Len(SubSeq(s, 1, k)) = k
         /\ \A i \in 1 .. k : SubSeq(s, 1, k)[i] = s[i]
<1>1. /\ k \in Int
      /\ \A i \in 1 .. k : i \in 1 .. Len(s) /\ s[i] \in S
  BY ElementOfSeq
<1>2. /\ SubSeq(s, 1, k) \in Seq(S)
      /\ Len(SubSeq(s, 1, k)) = IF 1 <= k THEN k - 1 + 1 ELSE 0
      /\ \A i \in 1 .. k - 1 + 1 : SubSeq(s, 1, k)[i] = s[1 + i - 1]
  BY <1>1, SubSeqProperties
<1> QED
  BY <1>1, <1>2

(* Innermost picks the last position with the name, if there is one. *)
LEMMA InnermostPosition ==
  ASSUME NEW S, NEW stack \in Seq(S), NEW n, HasSavepoint(stack, n)
  PROVE  /\ Innermost(stack, n) \in 1 .. Len(stack)
         /\ stack[Innermost(stack, n)].name = n
         /\ \A j \in 1 .. Len(stack) : stack[j].name = n => j <= Innermost(stack, n)
<1>1. IsInnermost(stack, n, Innermost(stack, n))
  BY Zenon DEF HasSavepoint, Innermost
<1> QED
  BY <1>1, LenProperties DEF IsInnermost

LEMMA InnermostUnique ==
  ASSUME NEW S, NEW stack \in Seq(S), NEW n, NEW i \in 1 .. Len(stack),
         stack[i].name = n,
         \A j \in 1 .. Len(stack) : stack[j].name = n => j <= i
  PROVE  HasSavepoint(stack, n) /\ Innermost(stack, n) = i
<1>1. HasSavepoint(stack, n)
  BY LenProperties DEF HasSavepoint, IsInnermost
<1> QED
  BY <1>1, InnermostPosition

LEMMA StackPrefix ==
  ASSUME NEW V, NEW e \in EngineStates(V), NEW k \in 1 .. Len(e.stack)
  PROVE  /\ SubSeq(e.stack, 1, k - 1) \in Seq([name : Nat, data : V])
         /\ SubSeq(e.stack, 1, k) \in Seq([name : Nat, data : V])
         /\ e.stack[k].data \in V
<1>1. e.stack \in Seq([name : Nat, data : V])
  BY DEF EngineStates
<1>2. Len(e.stack) \in Nat
  BY <1>1, LenProperties
<1>3. k - 1 \in 0 .. Len(e.stack) /\ k \in 0 .. Len(e.stack)
  BY <1>2
<1>4. e.stack[k] \in [name : Nat, data : V]
  BY <1>1, ElementOfSeq
<1> QED
  BY <1>1, <1>3, <1>4, Prefix

LEMMA RunType ==
  ASSUME NEW V, NEW e \in EngineStates(V), NEW sql,
         sql.name \in Nat,
         sql.verb \in {"BEGIN", "COMMIT", "ROLLBACK", "SAVEPOINT", "RELEASE", "ROLLBACK TO"},
         Accepts(e, sql)
  PROVE  Run(e, sql) \in EngineStates(V)
<1> DEFINE Entry == [name : Nat, data : V]
<1>0. e.stack \in Seq(Entry) /\ e.data \in V /\ e.base \in V
  BY DEF EngineStates
<1>1. \A v \in V : Close(e, v) \in EngineStates(V)
  <2>1. <<>> \in Seq(Entry)
    BY EmptySeq
  <2> QED
    BY <2>1 DEF EngineStates, Close
<1>2. \A b \in BOOLEAN : Open(e, b) \in EngineStates(V) /\ Open(e, b).stack = e.stack
  BY DEF EngineStates, Open
<1>3. CASE sql.verb \in {"BEGIN", "COMMIT", "ROLLBACK"}
  BY <1>0, <1>1, <1>2, <1>3 DEF Run
<1>4. CASE sql.verb = "SAVEPOINT"
  <2>1. [name |-> sql.name, data |-> e.data] \in Entry
    BY <1>0
  <2>2. Append(e.stack, [name |-> sql.name, data |-> e.data]) \in Seq(Entry)
    BY <1>0, <2>1, AppendProperties
  <2>3. Run(e, sql) = [Open(e, TRUE) EXCEPT
            !.stack = Append(e.stack, [name |-> sql.name, data |-> e.data])]
    BY <1>2, <1>4 DEF Run, EngineStates
  <2> QED
    BY <1>2, <2>2, <2>3 DEF EngineStates
<1>5. CASE sql.verb \in {"RELEASE", "ROLLBACK TO"}
  <2>1. HasSavepoint(e.stack, sql.name)
    BY <1>5 DEF Accepts
  <2> DEFINE i == Innermost(e.stack, sql.name)
  <2>2. i \in 1 .. Len(e.stack)
    BY <1>0, <2>1, InnermostPosition
  <2> HIDE DEF i
  <2>3. /\ SubSeq(e.stack, 1, i - 1) \in Seq(Entry)
        /\ SubSeq(e.stack, 1, i) \in Seq(Entry)
        /\ e.stack[i].data \in V
    BY <2>2, StackPrefix
  <2>4. Release(e, sql.name) \in EngineStates(V)
    BY <1>0, <1>1, <2>3 DEF Release, EngineStates, i
  <2>5. RollbackTo(e, sql.name) \in EngineStates(V)
    BY <1>0, <2>3 DEF RollbackTo, EngineStates, i
  <2> QED
    BY <1>5, <2>4, <2>5 DEF Run
<1> QED
  BY <1>3, <1>4, <1>5

-----------------------------------------------------------------------------
(* Type correctness.                                                         *)

(* commit and rollback are called on a handle. *)
CallOwnsHandle == op \in {"commit", "rollback"} => handles > 0

TypeInv == TypeOK /\ CallOwnsHandle

(* Every statement the adapter sends is one the engine knows. *)
Verbs == {"BEGIN", "COMMIT", "ROLLBACK", "SAVEPOINT", "RELEASE", "ROLLBACK TO"}
Statements == [verb : Verbs, name : Nat]

LEMMA StatementTypes ==
  /\ \A d \in Nat : BeginSql(d) \in Statements
  /\ \A d \in Nat \ {0} : CommitSql(d) \in Statements /\ RollbackSql(d) \in Statements
  /\ \A v \in Verbs : Plain(v) \in Statements
BY DEF BeginSql, CommitSql, RollbackSql, Plain, Named, Statements, Verbs

LEMMA PendingSqlType ==
  ASSUME TypeOK, st.pending # <<>>
  PROVE  PendingSql \in Statements
<1>1. st.pending \in Seq(Nat \ {0})
  BY DEF TypeOK, TransactionStates
<1>2. Head(st.pending) \in Nat \ {0}
  BY <1>1, HeadTailProperties
<1> QED
  BY <1>2, StatementTypes DEF PendingSql, NextPendingRollback

LEMMA OwnSqlType ==
  ASSUME TypeOK, op \in {"begin", "begin_with", "commit", "rollback"} \cup RawOps,
         op \in {"commit", "rollback"} => st.depth > 0
  PROVE  OwnSql \in Statements
<1>1. st.depth \in Nat
  BY DEF TypeOK, TransactionStates
<1>2. CASE op = "begin"
  BY <1>1, <1>2, StatementTypes DEF OwnSql, RawOps
<1>3. CASE op = "begin_with"
  BY <1>3, StatementTypes DEF OwnSql, RawOps, Verbs
<1>4. CASE op = "commit"
  BY <1>1, <1>4, StatementTypes DEF OwnSql, RawOps
<1>5. CASE op = "rollback"
  BY <1>1, <1>5, StatementTypes DEF OwnSql, RawOps
<1>6. CASE op \in RawOps
  BY <1>6, StatementTypes DEF OwnSql, RawOps, Verbs
<1> QED
  BY <1>2, <1>3, <1>4, <1>5, <1>6

LEMMA GiveUpType ==
  ASSUME TypeInv, NEW s \in TransactionStates, GiveUp(s)
  PROVE  /\ st' \in TransactionStates /\ handles' \in Nat
         /\ op' = "idle" /\ result' \in {"ok", "err"}
BY MarkFields DEF TypeInv, TypeOK, CallOwnsHandle, GiveUp

LEMMA EngineSteps ==
  ASSUME NEW e \in EngineStates(Value)
  PROVE  /\ Abort(e) \in EngineStates(Value)
         /\ \A v \in Value : Write(e, v) \in EngineStates(Value)
         /\ \A sql \in Statements : Accepts(e, sql) => Run(e, sql) \in EngineStates(Value)
<1>1. <<>> \in Seq([name : Nat, data : Value])
  BY EmptySeq
<1>2. Abort(e) \in EngineStates(Value)
  BY <1>1 DEF Abort, Close, EngineStates
<1>3. \A v \in Value : Write(e, v) \in EngineStates(Value)
  BY DEF Write, EngineStates
<1> QED
  BY <1>2, <1>3, RunType DEF Statements, Verbs

LEMMA TypeInit == Init => TypeInv
<1>1. DefaultState \in TransactionStates
  BY EmptySeq DEF DefaultState, TransactionStates
<1>2. \A v \in Value : FreshEngine(v) \in EngineStates(Value)
  BY EmptySeq DEF FreshEngine, EngineStates
<1> QED
  BY <1>1, <1>2 DEF Init, TypeInv, TypeOK, CallOwnsHandle

LEMMA TypeStep == TypeInv /\ [Next]_vars => TypeInv'
<1> SUFFICES ASSUME TypeInv, [Next]_vars PROVE TypeInv'
  OBVIOUS
<1> USE DEF TypeInv
<1>0. /\ st \in TransactionStates
      /\ engine \in EngineStates(Value)
      /\ handles \in Nat
      /\ st.depth \in Nat
      /\ st.pending \in Seq(Nat \ {0})
  BY DEF TypeOK, TransactionStates
<1>1. CASE CallBegin \/ CallEnd \/ CallQuery \/ CallRaw
  BY <1>1 DEF CallBegin, CallEnd, CallQuery, CallRaw, Call, RawOps, Ops, TypeOK,
              CallOwnsHandle
<1>2. CASE DropHandle
  BY <1>0, <1>2, MarkFields DEF DropHandle, TypeOK, CallOwnsHandle
<1>3. CASE RefuseFailed
  BY <1>0, <1>3, GiveUpType DEF RefuseFailed, TypeOK, CallOwnsHandle
<1>4. CASE RollBackPending
  <2>1. st.pending # <<>> /\ PendingSql \in Statements
    BY <1>4, PendingSqlType DEF RollBackPending, Draining
  <2> QED
    BY <1>0, <1>4, <2>1, PopFields, EngineSteps DEF RollBackPending, TypeOK, CallOwnsHandle
<1>5. CASE SkipPending
  BY <1>0, <1>5, PopFields DEF SkipPending, Draining, TypeOK, CallOwnsHandle
<1>6. CASE FailPending
  <2>1. MarkRollbackFailed(PopPendingRollback(st)) \in TransactionStates
    BY <1>0, <1>6, PopFields, FailFields DEF FailPending, Draining
  <2> QED
    BY <1>6, <2>1, GiveUpType DEF FailPending, TypeOK, CallOwnsHandle
<1>7. CASE Begin
  <2>1. OwnSql \in Statements
    BY <1>7, OwnSqlType DEF Begin
  <2>2. engine' \in EngineStates(Value)
    BY <1>0, <1>7, <2>1, EngineSteps DEF Begin
  <2>3. st' \in TransactionStates
    BY <1>0, <1>7, IncrementFields DEF Begin
  <2> QED
    BY <1>0, <1>7, <2>2, <2>3 DEF Begin, ReturnOk, TypeOK, CallOwnsHandle
<1>8. CASE End
  <2>1. OwnSql \in Statements
    BY <1>8, OwnSqlType DEF End
  <2>2. engine' \in EngineStates(Value)
    BY <1>0, <1>8, <2>1, EngineSteps DEF End
  <2>3. st' \in TransactionStates
    BY <1>0, <1>8, DecrementFields DEF End
  <2> QED
    BY <1>0, <1>8, <2>2, <2>3 DEF End, ReturnOk, TypeOK, CallOwnsHandle
<1>9. CASE EndAtZero
  BY <1>9 DEF EndAtZero, ReturnOk, TypeOK, CallOwnsHandle
<1>10. CASE OwnFails
  <2>1. engine' \in EngineStates(Value)
    BY <1>0, <1>10, EngineSteps DEF OwnFails
  <2> QED
    BY <1>0, <1>10, <2>1, GiveUpType DEF OwnFails, TypeOK, CallOwnsHandle
<1>11. CASE WriteQuery \/ ReadQuery
  <2>1. engine' \in EngineStates(Value) /\ seen' \in Value
    BY <1>0, <1>11, EngineSteps DEF WriteQuery, ReadQuery, TypeOK, EngineStates
  <2> QED
    BY <1>11, <2>1 DEF WriteQuery, ReadQuery, ReturnOk, TypeOK, CallOwnsHandle
<1>12. CASE RawQuery
  <2>1. OwnSql \in Statements
    BY <1>12, OwnSqlType DEF RawQuery, RawOps
  <2> QED
    BY <1>0, <1>12, <2>1, EngineSteps DEF RawQuery, ReturnOk, TypeOK, CallOwnsHandle
<1>13. CASE QueryFails
  <2>1. engine' \in EngineStates(Value)
    BY <1>0, <1>13, EngineSteps DEF QueryFails
  <2> QED
    BY <1>0, <1>13, <2>1, GiveUpType DEF QueryFails, TypeOK, CallOwnsHandle
<1>14. CASE CancelPending
  <2>1. st.pending # <<>> /\ PendingSql \in Statements
    BY <1>14, PendingSqlType DEF CancelPending, Draining
  <2>2. engine' \in EngineStates(Value)
    BY <1>0, <1>14, <2>1, EngineSteps DEF CancelPending
  <2> QED
    BY <1>0, <1>14, <2>1, <2>2, PopFields, GiveUpType DEF CancelPending, TypeOK, CallOwnsHandle
<1>15. CASE CancelOwn
  <2>1. CASE op \in {"write", "read"}
    <3>1. engine' \in EngineStates(Value)
      BY <1>0, <1>15, <2>1, EngineSteps DEF CancelOwn
    <3> QED
      BY <1>0, <1>15, <3>1, GiveUpType DEF CancelOwn, TypeOK, CallOwnsHandle
  <2>2. CASE op \notin {"write", "read"}
    <3>1. OwnSql \in Statements
      BY <1>15, <2>2, OwnSqlType DEF CancelOwn, Ready, TypeOK, Ops
    <3>2. engine' \in EngineStates(Value)
      BY <1>0, <1>15, <2>2, <3>1, EngineSteps DEF CancelOwn
    <3> QED
      BY <1>0, <1>15, <3>2, GiveUpType DEF CancelOwn, TypeOK, CallOwnsHandle
  <2> QED
    BY <2>1, <2>2
<1>16. CASE UNCHANGED vars
  BY <1>16 DEF vars, TypeOK, CallOwnsHandle
<1> QED
  BY <1>1, <1>2, <1>3, <1>4, <1>5, <1>6, <1>7, <1>8, <1>9, <1>10, <1>11, <1>12,
     <1>13, <1>14, <1>15, <1>16 DEF Next, Progress, Cancel

(* Type correctness, whatever fails, is cancelled or dropped. *)
THEOREM TypeCorrect == Spec => []TypeOK
<1>1. TypeInv => TypeOK
  BY DEF TypeInv
<1> QED
  BY <1>1, TypeInit, TypeStep, PTL DEF Spec

-----------------------------------------------------------------------------
(* The queue of rollbacks.                                                   *)

(* What a step may leave as the TransactionState before the handle that the  *)
(* call owns is dropped: the state itself, one rollback less on the queue,   *)
(* or the mark of a rollback that failed.                                    *)
Drained(s) ==
  \/ s = st
  \/ st.pending # <<>> /\ s = PopPendingRollback(st)
  \/ st.pending # <<>> /\ s = MarkRollbackFailed(PopPendingRollback(st))

(* Every step leaves a drained state, marks one handle of it as dropped, or  *)
(* counts a handle in or out while nothing is queued.                        *)
LEMMA StateSteps ==
  ASSUME TypeInv, Next
  PROVE  \/ Drained(st') /\ handles' = handles
         \/ /\ handles > 0 /\ handles' = handles - 1
            /\ \E s : Drained(s) /\ st' = MarkRollbackNeeded(s)
         \/ \E s : Drained(s) /\ st' = MarkRollbackNeeded(s) /\ handles' = handles
         \/ st.pending = <<>> /\ st' = IncrementDepth(st) /\ handles' = handles + 1
         \/ /\ st.pending = <<>> /\ st.depth > 0
            /\ st' = DecrementDepth(st) /\ handles' = handles - 1
         \/ st' = st /\ st.depth = 0 /\ handles > 0 /\ handles' = handles - 1
<1> DEFINE Goal ==
      \/ Drained(st') /\ handles' = handles
      \/ /\ handles > 0 /\ handles' = handles - 1
         /\ \E s : Drained(s) /\ st' = MarkRollbackNeeded(s)
      \/ \E s : Drained(s) /\ st' = MarkRollbackNeeded(s) /\ handles' = handles
<1>1. ASSUME NEW s, Drained(s), GiveUp(s) PROVE Goal
  BY <1>1 DEF GiveUp, OwnsOpenHandle, TypeInv, CallOwnsHandle
<1>2. CASE CallBegin \/ CallEnd \/ CallQuery \/ CallRaw
  BY <1>2 DEF CallBegin, CallEnd, CallQuery, CallRaw, Call, Drained
<1>3. CASE DropHandle
  BY <1>3 DEF DropHandle, Drained
<1>4. CASE RefuseFailed \/ OwnFails \/ QueryFails \/ CancelOwn
  <2>1. Drained(st) /\ GiveUp(st)
    BY <1>4 DEF RefuseFailed, OwnFails, QueryFails, CancelOwn, Drained
  <2> QED
    BY <1>1, <2>1
<1>5. CASE RollBackPending \/ SkipPending
  BY <1>5 DEF RollBackPending, SkipPending, Draining, Drained
<1>6. CASE FailPending
  <2> DEFINE t == MarkRollbackFailed(PopPendingRollback(st))
  <2>1. Drained(t) /\ GiveUp(t)
    BY <1>6 DEF FailPending, Draining, Drained
  <2> QED
    BY <1>1, <2>1
<1>7. CASE CancelPending
  <2> DEFINE t == PopPendingRollback(st)
  <2>1. Drained(t) /\ GiveUp(t)
    BY <1>7 DEF CancelPending, Draining, Drained
  <2> QED
    BY <1>1, <2>1
<1>8. CASE Begin
  BY <1>8 DEF Begin, Ready
<1>9. CASE End
  BY <1>9 DEF End, Ready
<1>10. CASE EndAtZero
  BY <1>10 DEF EndAtZero, TypeInv, CallOwnsHandle
<1>11. CASE WriteQuery \/ ReadQuery \/ RawQuery
  BY <1>11 DEF WriteQuery, ReadQuery, RawQuery, Drained
<1> QED
  BY <1>2, <1>3, <1>4, <1>5, <1>6, <1>7, <1>8, <1>9, <1>10, <1>11
     DEF Next, Progress, Cancel

LEMMA MarkCountsDown ==
  ASSUME NEW s \in TransactionStates, CountsDown(s)
  PROVE  CountsDown(MarkRollbackNeeded(s))
<1>1. CASE s.depth = 0
  BY <1>1, MarkFields
<1>2. CASE s.depth > 0
  <2> DEFINE t == MarkRollbackNeeded(s)
  <2>1. s.depth \in Nat \ {0} /\ s.pending \in Seq(Nat \ {0}) /\ Len(s.pending) \in Nat
    BY <1>2, LenProperties DEF TransactionStates
  <2>2. t.depth = s.depth - 1 /\ t.pending = Append(s.pending, s.depth)
    BY <1>2, MarkFields
  <2>3. /\ Len(t.pending) = Len(s.pending) + 1
        /\ \A i \in 1 .. Len(s.pending) : t.pending[i] = s.pending[i]
        /\ t.pending[Len(s.pending) + 1] = s.depth
    BY <2>1, <2>2, AppendProperties
  <2> HIDE DEF t
  <2>4. \A i \in 1 .. Len(t.pending) : t.pending[i] = t.depth + Len(t.pending) + 1 - i
    <3> TAKE i \in 1 .. Len(t.pending)
    <3>1. CASE i = Len(s.pending) + 1
      <4>1. t.pending[i] = s.depth
        BY <2>3, <3>1, Zenon
      <4>2. Len(t.pending) = i /\ i \in Nat /\ t.depth + 1 = s.depth /\ t.depth \in Nat
        BY <2>1, <2>2, <2>3, <3>1
      <4>3. t.depth + i + 1 - i = s.depth
        BY <4>2
      <4> QED
        BY <4>1, <4>2, <4>3
    <3>2. CASE i \in 1 .. Len(s.pending)
      BY <2>1, <2>2, <2>3, <3>2 DEF CountsDown
    <3> QED
      BY <2>1, <2>3, <3>1, <3>2
  <2> QED
    BY <2>4 DEF CountsDown, t
<1> QED
  BY <1>1, <1>2 DEF TransactionStates

LEMMA DrainedCountsDown ==
  ASSUME st \in TransactionStates, CountsDown(st), NEW s, Drained(s)
  PROVE  s \in TransactionStates /\ CountsDown(s)
<1>1. CASE s = st
  BY <1>1
<1>2. CASE st.pending # <<>> /\ s = PopPendingRollback(st)
  <2>1. st.pending \in Seq(Nat \ {0}) /\ st.depth \in Nat /\ Len(st.pending) \in Nat
    BY LenProperties DEF TransactionStates
  <2>2. /\ Len(Tail(st.pending)) = Len(st.pending) - 1
        /\ \A i \in 1 .. Len(st.pending) - 1 : Tail(st.pending)[i] = st.pending[i + 1]
    BY <1>2, <2>1, HeadTailProperties
  <2>3. \A i \in 1 .. Len(st.pending) - 1 :
           Tail(st.pending)[i] = st.depth + Len(st.pending) + 1 - (i + 1)
    BY <2>1, <2>2 DEF CountsDown
  <2>4. s \in TransactionStates /\ s.depth = st.depth /\ s.pending = Tail(st.pending)
    BY <1>2, PopFields
  <2>5. Len(s.pending) = Len(st.pending) - 1
    BY <2>2, <2>4
  <2>6. ASSUME NEW i \in 1 .. Len(s.pending)
        PROVE  s.pending[i] = s.depth + Len(s.pending) + 1 - i
    <3>1. i \in 1 .. Len(st.pending) - 1 /\ i \in Int
      BY <2>1, <2>5
    <3>2. s.pending[i] = st.depth + Len(st.pending) + 1 - (i + 1)
      BY <2>3, <2>4, <3>1
    <3>3. \A d, n \in Nat, j \in Int : d + n + 1 - (j + 1) = d + (n - 1) + 1 - j
      OBVIOUS
    <3>4. st.depth + Len(st.pending) + 1 - (i + 1)
            = st.depth + (Len(st.pending) - 1) + 1 - i
      BY <2>1, <3>1, <3>3, Zenon
    <3> QED
      BY <2>4, <2>5, <3>2, <3>4, Zenon
  <2> QED
    BY <2>4, <2>6 DEF CountsDown
<1>3. CASE st.pending # <<>> /\ s = MarkRollbackFailed(PopPendingRollback(st))
  <2>1. s \in TransactionStates /\ s.pending = <<>>
    BY <1>3, PopFields, FailFields
  <2> QED
    BY <2>1 DEF CountsDown
<1> QED
  BY <1>1, <1>2, <1>3 DEF Drained

LEMMA CountsDownStep == TypeInv /\ PendingCountsDown /\ [Next]_vars => PendingCountsDown'
<1> SUFFICES ASSUME TypeInv, PendingCountsDown, [Next]_vars PROVE CountsDown(st')
  BY DEF PendingCountsDown
<1>0. st \in TransactionStates /\ CountsDown(st)
  BY DEF TypeInv, TypeOK, PendingCountsDown
<1>1. CASE UNCHANGED vars
  BY <1>0, <1>1 DEF vars
<1>2. CASE Next
  <2>1. CASE \E s : Drained(s) /\ (st' = s \/ st' = MarkRollbackNeeded(s))
    BY <1>0, <2>1, DrainedCountsDown, MarkCountsDown
  <2>2. CASE st.pending = <<>> /\ st' = IncrementDepth(st)
    BY <1>0, <2>2, IncrementFields DEF CountsDown
  <2>3. CASE st.pending = <<>> /\ st' = DecrementDepth(st)
    BY <1>0, <2>3, DecrementFields DEF CountsDown
  <2> QED
    BY <1>0, <1>2, <2>1, <2>2, <2>3, StateSteps
<1> QED
  BY <1>1, <1>2

(* Queued rollbacks undo scopes inside out, for every set of faults. *)
THEOREM RollbacksInsideOut == Spec => []PendingCountsDown
<1>1. Init => PendingCountsDown
  BY DEF Init, DefaultState, PendingCountsDown, CountsDown
<1> QED
  BY <1>1, TypeInit, TypeStep, CountsDownStep, PTL DEF Spec

(* No scope outlives its handle, for every set of faults: the adapter never  *)
(* counts more scopes than the application holds handles.                    *)
THEOREM ScopesOwned == Spec => []ScopesHaveHandles
<1>1. Init => ScopesHaveHandles
  BY DEF Init, DefaultState, ScopesHaveHandles
<1>2. TypeInv /\ ScopesHaveHandles /\ [Next]_vars => ScopesHaveHandles'
  <2> SUFFICES ASSUME TypeInv, ScopesHaveHandles, [Next]_vars
               PROVE  st'.depth <= handles'
    BY DEF ScopesHaveHandles
  <2>0. /\ st \in TransactionStates /\ st.depth \in Nat
        /\ st.depth <= handles /\ handles \in Nat
    BY DEF TypeInv, TypeOK, TransactionStates, ScopesHaveHandles
  <2>1. ASSUME NEW s, Drained(s)
        PROVE  s \in TransactionStates /\ s.depth = st.depth
    <3>1. CASE s = st
      BY <2>0, <3>1
    <3>2. CASE st.pending # <<>> /\ s = PopPendingRollback(st)
      BY <2>0, <3>2, PopFields
    <3>3. CASE st.pending # <<>> /\ s = MarkRollbackFailed(PopPendingRollback(st))
      <4>1. PopPendingRollback(st) \in TransactionStates /\ PopPendingRollback(st).depth = st.depth
        BY <2>0, <3>3, PopFields
      <4> QED BY <3>3, <4>1, FailFields
    <3> QED BY <2>1, <3>1, <3>2, <3>3 DEF Drained
  <2>2. CASE UNCHANGED vars
    BY <2>0, <2>2 DEF vars
  <2>3. CASE Drained(st') /\ handles' = handles
    BY <2>0, <2>1, <2>3
  <2>4. CASE /\ handles' = handles \/ (handles > 0 /\ handles' = handles - 1)
             /\ \E s : Drained(s) /\ st' = MarkRollbackNeeded(s)
    <3>1. PICK s : Drained(s) /\ st' = MarkRollbackNeeded(s)
      BY <2>4
    <3>2. s \in TransactionStates /\ s.depth = st.depth
      BY <2>1, <3>1
    <3>3. st'.depth = IF st.depth > 0 THEN st.depth - 1 ELSE 0
      BY <2>0, <3>1, <3>2, MarkFields
    <3> QED BY <2>0, <2>4, <3>3
  <2>5. CASE st' = IncrementDepth(st) /\ handles' = handles + 1
    BY <2>0, <2>5, IncrementFields
  <2>6. CASE st.depth > 0 /\ st' = DecrementDepth(st) /\ handles' = handles - 1
    BY <2>0, <2>6, DecrementFields
  <2>7. CASE st' = st /\ st.depth = 0 /\ handles > 0 /\ handles' = handles - 1
    BY <2>0, <2>7
  <2>8. CASE Next
    <3>1. \/ Drained(st') /\ handles' = handles
          \/ /\ handles' = handles \/ (handles > 0 /\ handles' = handles - 1)
             /\ \E s : Drained(s) /\ st' = MarkRollbackNeeded(s)
          \/ st' = IncrementDepth(st) /\ handles' = handles + 1
          \/ st.depth > 0 /\ st' = DecrementDepth(st) /\ handles' = handles - 1
          \/ st' = st /\ st.depth = 0 /\ handles > 0 /\ handles' = handles - 1
      BY <2>8, StateSteps, Zenon
    <3> QED BY <2>3, <2>4, <2>5, <2>6, <2>7, <3>1, Zenon
  <2> QED BY <2>2, <2>8
<1> QED
  BY <1>1, <1>2, TypeInit, TypeStep, PTL DEF Spec

-----------------------------------------------------------------------------
(* Savepoints of n scopes: the innermost ones named 1 to n - 1 are nested.   *)

NestedIn(stack, n) ==
  \A k \in 1 .. n - 1 :
    /\ HasSavepoint(stack, k)
    /\ \A j \in 1 .. k - 1 : Innermost(stack, j) < Innermost(stack, k)

(* The engine carries n scopes of the adapter. *)
Scoped(e, n) ==
  /\ e.implicit = FALSE
  /\ e.active => n > 0
  /\ NestedIn(e.stack, n)

(* A prefix that reaches the innermost savepoint named m keeps it. *)
LEMMA PrefixInnermost ==
  ASSUME NEW S, NEW stack \in Seq(S), NEW m, HasSavepoint(stack, m),
         NEW p \in 0 .. Len(stack), Innermost(stack, m) <= p
  PROVE  /\ HasSavepoint(SubSeq(stack, 1, p), m)
         /\ Innermost(SubSeq(stack, 1, p), m) = Innermost(stack, m)
<1> DEFINE t == SubSeq(stack, 1, p)
           i == Innermost(stack, m)
<1>1. /\ i \in 1 .. Len(stack)
      /\ stack[i].name = m
      /\ \A j \in 1 .. Len(stack) : stack[j].name = m => j <= i
  BY InnermostPosition
<1>2. /\ t \in Seq(S)
      /\ Len(t) = p
      /\ \A j \in 1 .. p : t[j] = stack[j]
  BY Prefix
<1>3. Len(stack) \in Nat /\ i <= p
  BY LenProperties
<1> HIDE DEF t, i
<1>4. i \in 1 .. Len(t) /\ t[i].name = m
  BY <1>1, <1>2, <1>3
<1>5. \A j \in 1 .. Len(t) : t[j].name = m => j <= i
  BY <1>1, <1>2, <1>3
<1>6. HasSavepoint(t, m) /\ Innermost(t, m) = i
  BY <1>2, <1>4, <1>5, InnermostUnique
<1> QED
  BY <1>6 DEF t, i

(* Cutting the stack at or above the innermost savepoint m keeps the scopes  *)
(* up to the one that owns m.                                                *)
LEMMA CutInnermost ==
  ASSUME NEW S, NEW stack \in Seq(S), NEW n \in Nat, NestedIn(stack, n),
         NEW m \in Nat, m <= n, NEW p \in 0 .. Len(stack),
         \A k \in 1 .. m - 1 : Innermost(stack, k) <= p
  PROVE  \A k \in 1 .. m - 1 :
           /\ HasSavepoint(SubSeq(stack, 1, p), k)
           /\ Innermost(SubSeq(stack, 1, p), k) = Innermost(stack, k)
<1> TAKE k \in 1 .. m - 1
<1>1. HasSavepoint(stack, k) /\ Innermost(stack, k) <= p
  BY DEF NestedIn
<1> QED
  BY <1>1, PrefixInnermost

LEMMA CutNested ==
  ASSUME NEW S, NEW stack \in Seq(S), NEW n \in Nat, NestedIn(stack, n),
         NEW m \in Nat, m <= n, NEW p \in 0 .. Len(stack),
         \A k \in 1 .. m - 1 : Innermost(stack, k) <= p
  PROVE  NestedIn(SubSeq(stack, 1, p), m)
<1>1. \A k \in 1 .. m - 1 :
        /\ HasSavepoint(SubSeq(stack, 1, p), k)
        /\ Innermost(SubSeq(stack, 1, p), k) = Innermost(stack, k)
  BY CutInnermost
<1>2. \A k \in 1 .. m - 1 : \A j \in 1 .. k - 1 :
        j \in 1 .. m - 1 /\ Innermost(stack, j) < Innermost(stack, k)
  BY DEF NestedIn
<1> QED
  BY <1>1, <1>2 DEF NestedIn

(* A new savepoint n is the innermost one of its name and hides no other. *)
LEMMA PushInnermost ==
  ASSUME NEW S, NEW stack \in Seq(S), NEW n \in Nat \ {0}, NestedIn(stack, n),
         NEW x \in S, x.name = n
  PROVE  /\ HasSavepoint(Append(stack, x), n)
         /\ Innermost(Append(stack, x), n) = Len(stack) + 1
         /\ \A k \in 1 .. n - 1 :
              /\ HasSavepoint(Append(stack, x), k)
              /\ Innermost(Append(stack, x), k) = Innermost(stack, k)
              /\ Innermost(stack, k) \in 1 .. Len(stack)
<1> DEFINE t == Append(stack, x)
<1>1. /\ t \in Seq(S)
      /\ Len(t) = Len(stack) + 1
      /\ \A j \in 1 .. Len(stack) : t[j] = stack[j]
      /\ t[Len(stack) + 1] = x
  BY AppendProperties
<1>2. Len(stack) \in Nat
  BY LenProperties
<1> HIDE DEF t
<1>3. HasSavepoint(t, n) /\ Innermost(t, n) = Len(stack) + 1
  <2>1. Len(stack) + 1 \in 1 .. Len(t)
    BY <1>1, <1>2
  <2>2. t[Len(stack) + 1].name = n
    BY <1>1
  <2>3. \A j \in 1 .. Len(t) : t[j].name = n => j <= Len(stack) + 1
    BY <1>1, <1>2
  <2> QED
    BY <1>1, <2>1, <2>2, <2>3, InnermostUnique
<1>4. \A k \in 1 .. n - 1 :
        /\ HasSavepoint(t, k)
        /\ Innermost(t, k) = Innermost(stack, k)
        /\ Innermost(stack, k) \in 1 .. Len(stack)
  <2> TAKE k \in 1 .. n - 1
  <2>1. HasSavepoint(stack, k)
    BY DEF NestedIn
  <2> DEFINE i == Innermost(stack, k)
  <2>2. /\ i \in 1 .. Len(stack)
        /\ stack[i].name = k
        /\ \A j \in 1 .. Len(stack) : stack[j].name = k => j <= i
    BY <2>1, InnermostPosition
  <2> HIDE DEF i
  <2>3. i \in 1 .. Len(t) /\ t[i].name = k
    BY <1>1, <1>2, <2>2
  <2>4. \A j \in 1 .. Len(t) : t[j].name = k => j <= i
    <3> TAKE j \in 1 .. Len(t)
    <3>1. CASE j = Len(stack) + 1
      <4>1. t[j].name = n /\ n # k
        BY <1>1, <3>1
      <4> QED
        BY <4>1
    <3>2. CASE j \in 1 .. Len(stack)
      BY <1>1, <2>2, <3>2
    <3> QED
      BY <1>1, <1>2, <3>1, <3>2
  <2>5. HasSavepoint(t, k) /\ Innermost(t, k) = i
    BY <1>1, <2>3, <2>4, InnermostUnique
  <2> QED
    BY <2>2, <2>5 DEF i
<1> QED
  BY <1>3, <1>4 DEF t

(* It makes the n scopes on the stack n + 1. *)
LEMMA PushNested ==
  ASSUME NEW S, NEW stack \in Seq(S), NEW n \in Nat \ {0}, NestedIn(stack, n),
         NEW x \in S, x.name = n
  PROVE  NestedIn(Append(stack, x), n + 1)
<1> DEFINE t == Append(stack, x)
<1>1. /\ HasSavepoint(t, n) /\ Innermost(t, n) = Len(stack) + 1
      /\ \A k \in 1 .. n - 1 :
           /\ HasSavepoint(t, k)
           /\ Innermost(t, k) = Innermost(stack, k)
           /\ Innermost(stack, k) \in 1 .. Len(stack)
  BY PushInnermost
<1>2. Len(stack) \in Nat
  BY LenProperties
<1> HIDE DEF t
<1>3. \A k \in 1 .. (n + 1) - 1 :
        /\ HasSavepoint(t, k)
        /\ \A j \in 1 .. k - 1 : Innermost(t, j) < Innermost(t, k)
  <2> TAKE k \in 1 .. (n + 1) - 1
  <2>1. CASE k = n
    BY <1>1, <1>2, <2>1
  <2>2. CASE k \in 1 .. n - 1
    <3>1. \A j \in 1 .. k - 1 : j \in 1 .. n - 1 /\ Innermost(stack, j) < Innermost(stack, k)
      BY <2>2 DEF NestedIn
    <3> QED
      BY <1>1, <2>2, <3>1
  <2> QED
    BY <2>1, <2>2
<1> QED
  BY <1>3 DEF NestedIn, t

-----------------------------------------------------------------------------
(* What each statement does to the engine's scopes.                          *)

LEMMA ClosedScoped ==
  ASSUME NEW e, NEW v, NEW n \in {0, 1}
  PROVE  Scoped(Close(e, v), n) /\ ~Close(e, v).active
BY DEF Scoped, Close, NestedIn

LEMMA BeginScoped ==
  ASSUME NEW V, NEW e \in EngineStates(V), ~e.active
  PROVE  Scoped(Run(e, Plain("BEGIN")), 1) /\ Run(e, Plain("BEGIN")).active
<1> DEFINE r == Run(e, Plain("BEGIN"))
<1>1. r = Open(e, FALSE)
  BY DEF Run, Plain
<1>2. r.active /\ r.implicit = FALSE
  BY <1>1 DEF Open, EngineStates
<1>3. NestedIn(r.stack, 1)
  BY DEF NestedIn
<1> HIDE DEF r
<1>4. Scoped(r, 1) /\ r.active
  BY <1>2, <1>3 DEF Scoped
<1> QED
  BY <1>4 DEF r

LEMMA SavepointScoped ==
  ASSUME NEW V, NEW e \in EngineStates(V), NEW n \in Nat \ {0},
         e.active, Scoped(e, n)
  PROVE  LET r == Run(e, Named("SAVEPOINT", n))
         IN  Scoped(r, n + 1) /\ r.active
<1> DEFINE x == [name |-> n, data |-> e.data]
           r == Run(e, Named("SAVEPOINT", n))
           Entry == [name : Nat, data : V]
<1>1. e.stack \in Seq(Entry) /\ x \in Entry /\ x.name = n
  BY DEF EngineStates
<1>2. r.stack = Append(e.stack, x) /\ r.active = e.active /\ r.implicit = e.implicit
  BY DEF Run, Named, Open, EngineStates
<1>3. NestedIn(e.stack, n)
  BY DEF Scoped
<1> HIDE DEF x, r, Entry
<1>4. NestedIn(Append(e.stack, x), n + 1)
  BY <1>1, <1>3, PushNested
<1>5. Scoped(r, n + 1) /\ r.active
  BY <1>2, <1>4 DEF Scoped
<1> QED
  BY <1>5 DEF r

(* RELEASE and ROLLBACK TO of the innermost scope cut the stack below and    *)
(* above its savepoint; neither ends the transaction.                        *)
LEMMA InnerEndScoped ==
  ASSUME NEW V, NEW e \in EngineStates(V), NEW n \in Nat \ {0},
         e.active, Scoped(e, n + 1)
  PROVE  /\ Scoped(Release(e, n), n) /\ Release(e, n).active
         /\ Scoped(RollbackTo(e, n), n) /\ RollbackTo(e, n).active
<1> DEFINE i == Innermost(e.stack, n)
           Entry == [name : Nat, data : V]
<1>1. e.stack \in Seq(Entry)
  BY DEF EngineStates
<1>2. NestedIn(e.stack, n + 1) /\ n + 1 \in Nat
  BY DEF Scoped
<1>3. /\ HasSavepoint(e.stack, n)
      /\ \A j \in 1 .. n - 1 : Innermost(e.stack, j) < i
  BY <1>2 DEF NestedIn
<1>4. i \in 1 .. Len(e.stack) /\ Len(e.stack) \in Nat
  BY <1>1, <1>3, InnermostPosition, LenProperties
<1>5. \A j \in 1 .. n - 1 : Innermost(e.stack, j) \in Int
  <2> TAKE j \in 1 .. n - 1
  <2>1. HasSavepoint(e.stack, j)
    BY <1>2 DEF NestedIn
  <2> QED
    BY <1>1, <2>1, InnermostPosition, LenProperties
<1>6. /\ Release(e, n) = [e EXCEPT !.stack = SubSeq(e.stack, 1, i - 1)]
      /\ RollbackTo(e, n) = [e EXCEPT !.data = e.stack[i].data,
                                      !.stack = SubSeq(e.stack, 1, i)]
  BY DEF Release, RollbackTo, Scoped, EngineStates
<1> HIDE DEF i, Entry
<1>7. \A j \in 1 .. n - 1 : Innermost(e.stack, j) <= i - 1 /\ Innermost(e.stack, j) <= i
  BY <1>3, <1>4, <1>5
<1>8. i - 1 \in 0 .. Len(e.stack) /\ i \in 0 .. Len(e.stack)
  BY <1>4
<1>9. NestedIn(SubSeq(e.stack, 1, i - 1), n) /\ NestedIn(SubSeq(e.stack, 1, i), n)
  BY <1>1, <1>2, <1>7, <1>8, CutNested
<1>10. /\ Release(e, n).active /\ Release(e, n).implicit = FALSE
       /\ Release(e, n).stack = SubSeq(e.stack, 1, i - 1)
       /\ RollbackTo(e, n).active /\ RollbackTo(e, n).implicit = FALSE
       /\ RollbackTo(e, n).stack = SubSeq(e.stack, 1, i)
  BY <1>6 DEF EngineStates, Scoped
<1> QED
  BY <1>9, <1>10 DEF Scoped

-----------------------------------------------------------------------------
(* The adapter and the engine in step.                                       *)

LevelsOf(s) == s.depth + Len(s.pending)

(* A transaction that the engine ended on its own had one scope, whose       *)
(* handle is gone.                                                           *)
InStep(s, e) ==
  /\ Scoped(e, LevelsOf(s))
  /\ ~e.active => s.depth = 0 /\ LevelsOf(s) <= 1

ScopeInv ==
  /\ op \notin RawOps
  /\ ~st.failed => InStep(st, engine)

LEMMA MarkInStep ==
  ASSUME NEW s \in TransactionStates, NEW e, InStep(s, e)
  PROVE  InStep(MarkRollbackNeeded(s), e)
<1> DEFINE t == MarkRollbackNeeded(s)
<1>1. CASE s.depth = 0
  BY <1>1, MarkFields
<1>2. CASE s.depth > 0
  <2>1. /\ s.depth \in Nat /\ s.pending \in Seq(Nat \ {0}) /\ s.depth \in Nat \ {0}
        /\ Len(s.pending) \in Nat
    BY <1>2, LenProperties DEF TransactionStates
  <2>2. t.depth = s.depth - 1 /\ t.pending = Append(s.pending, s.depth)
    BY <1>2, MarkFields
  <2>3. Len(t.pending) = Len(s.pending) + 1
    BY <2>1, <2>2, AppendProperties
  <2> HIDE DEF t
  <2>4. LevelsOf(t) = LevelsOf(s)
    <3>1. \A d \in Nat \ {0}, n \in Nat : (d - 1) + (n + 1) = d + n
      OBVIOUS
    <3> QED
      BY <2>1, <2>2, <2>3, <3>1, Zenon DEF LevelsOf
  <2>5. Scoped(e, LevelsOf(t))
    BY <2>4, Zenon DEF InStep
  <2>6. e.active
    BY <1>2 DEF InStep
  <2>7. InStep(t, e)
    BY <2>5, <2>6, Zenon DEF InStep
  <2> QED
    BY <2>7 DEF t
<1> QED
  BY <1>1, <1>2 DEF TransactionStates

LEMMA GiveUpInStep ==
  ASSUME TypeInv, NEW s \in TransactionStates, GiveUp(s),
         ~s.failed => InStep(s, engine')
  PROVE  ScopeInv'
<1>1. op' \notin RawOps
  BY DEF GiveUp, RawOps
<1>2. MarkRollbackNeeded(s).failed = s.failed
  BY MarkFields
<1>3. CASE st' = s
  BY <1>1, <1>3 DEF ScopeInv
<1>4. CASE st' = MarkRollbackNeeded(s)
  BY <1>1, <1>2, <1>4, MarkInStep DEF ScopeInv
<1> QED
  BY <1>3, <1>4 DEF GiveUp

LEMMA ScopeInit == Init => ScopeInv
<1> SUFFICES ASSUME Init PROVE ScopeInv
  OBVIOUS
<1>1. st.depth = 0 /\ st.pending = <<>> /\ op = "idle"
  BY DEF Init, DefaultState
<1>2. LevelsOf(st) = 0
  BY <1>1 DEF LevelsOf
<1>3. engine.active = FALSE /\ engine.implicit = FALSE
  BY DEF Init, FreshEngine
<1>4. Scoped(engine, 0)
  BY <1>3 DEF Scoped, NestedIn
<1> QED
  BY <1>1, <1>2, <1>3, <1>4 DEF ScopeInv, InStep, RawOps

LEMMA InnerSql ==
  ASSUME NEW n \in Nat, n > 1
  PROVE  /\ CommitSql(n) = Named("RELEASE", n - 1)
         /\ RollbackSql(n) = Named("ROLLBACK TO", n - 1)
<1>1. n # 1
  OBVIOUS
<1> QED
  BY <1>1, Zenon DEF CommitSql, RollbackSql

(* commit and rollback send the statement of the current depth. *)
LEMMA EndSql ==
  /\ op = "commit" => OwnSql = CommitSql(st.depth)
  /\ op = "rollback" => OwnSql = RollbackSql(st.depth)
BY DEF OwnSql, RawOps

(* The rollback at the head of the queue ends the innermost scope.           *)
LEMMA PendingEndsInnermost ==
  ASSUME TypeInv, PendingCountsDown, InStep(st, engine), st.pending # <<>>,
         \/ Accepts(engine, PendingSql) /\ engine' = Run(engine, PendingSql)
         \/ Tolerable(NextPendingRollback(st)) /\ engine' = engine
  PROVE  InStep(PopPendingRollback(st), engine')
<1> DEFINE t == PopPendingRollback(st)
           n == LevelsOf(st)
<1>1. /\ st \in TransactionStates /\ engine \in EngineStates(Value)
      /\ st.depth \in Nat /\ st.pending \in Seq(Nat \ {0})
      /\ Len(st.pending) \in Nat \ {0}
  <2>1. st.pending \in Seq(Nat \ {0})
    BY DEF TypeInv, TypeOK, TransactionStates
  <2>2. Len(st.pending) \in Nat \ {0}
    BY <2>1, EmptySeq, LenProperties
  <2> QED
    BY <2>1, <2>2 DEF TypeInv, TypeOK, TransactionStates
<1>2. n \in Nat \ {0}
  BY <1>1 DEF LevelsOf
<1>3. NextPendingRollback(st) = n
  <2>1. 1 \in 1 .. Len(st.pending)
    BY <1>1
  <2>2. st.pending[1] = st.depth + Len(st.pending) + 1 - 1
    BY <2>1 DEF PendingCountsDown, CountsDown
  <2>3. Head(st.pending) = st.pending[1]
    BY <1>1, HeadTailProperties
  <2> QED
    BY <1>1, <2>2, <2>3 DEF NextPendingRollback, LevelsOf
<1>4. t.depth = st.depth /\ LevelsOf(t) = n - 1
  <2>1. t.depth = st.depth /\ t.pending = Tail(st.pending)
    BY <1>1, PopFields
  <2>2. Len(t.pending) = Len(st.pending) - 1
    BY <1>1, <2>1, HeadTailProperties
  <2>3. \A d \in Nat, l \in Nat : d + (l - 1) = (d + l) - 1
    OBVIOUS
  <2> QED
    BY <1>1, <2>1, <2>2, <2>3, Zenon DEF LevelsOf
<1> HIDE DEF t, n
<1>5. CASE n = 1
  <2>1. st.depth = 0
    BY <1>1, <1>5 DEF n, LevelsOf
  <2>2. PendingSql = Plain("ROLLBACK")
    BY <1>3, <1>5 DEF PendingSql, RollbackSql
  <2>3. Scoped(engine', 0) /\ ~engine'.active
    <3>1. CASE engine' = Run(engine, PendingSql)
      <4>1. engine' = Close(engine, engine.base)
        BY <2>2, <3>1 DEF Run, Plain
      <4> QED
        BY <4>1, ClosedScoped
    <3>2. CASE Tolerable(NextPendingRollback(st)) /\ engine' = engine
      <4>1. ~engine.active /\ engine.implicit = FALSE
        BY <3>2 DEF Tolerable, InStep, Scoped
      <4> QED
        BY <3>2, <4>1 DEF Scoped, NestedIn
    <3> QED
      BY <3>1, <3>2
  <2>4. LevelsOf(t) = 0
    BY <1>4, <1>5
  <2> QED
    BY <1>4, <2>1, <2>3, <2>4 DEF InStep, t
<1>6. CASE n > 1
  <2>1. engine.active /\ Scoped(engine, n)
    BY <1>2, <1>6 DEF InStep, n
  <2>2. n - 1 \in Nat \ {0} /\ (n - 1) + 1 = n
    BY <1>2, <1>6
  <2>3. PendingSql = Named("ROLLBACK TO", n - 1)
    <3>1. RollbackSql(n) = Named("ROLLBACK TO", n - 1)
      BY <1>2, <1>6, InnerSql
    <3> QED
      BY <1>3, <3>1, Zenon DEF PendingSql
  <2>4. ~Tolerable(NextPendingRollback(st))
    BY <1>2, <1>3, <1>6 DEF Tolerable
  <2>5. engine' = RollbackTo(engine, n - 1)
    BY <2>3, <2>4 DEF Run, Named
  <2>6. Scoped(engine, (n - 1) + 1)
    BY <2>1, <2>2
  <2>7. Scoped(engine', n - 1) /\ engine'.active
    BY <1>1, <2>1, <2>2, <2>5, <2>6, InnerEndScoped
  <2>8. InStep(t, engine')
    BY <1>4, <2>7 DEF InStep
  <2> QED
    BY <2>8 DEF t
<1> QED
  BY <1>2, <1>5, <1>6

(* begin opens one scope more, commit and rollback end the innermost one.    *)
LEMMA BeginInStep ==
  ASSUME TypeInv, ScopeInv, Begin
  PROVE  InStep(st', engine')
<1> DEFINE n == st.depth
           t == IncrementDepth(st)
<1>1. /\ st \in TransactionStates /\ engine \in EngineStates(Value)
      /\ n \in Nat /\ st.pending = <<>> /\ InStep(st, engine)
  BY DEF TypeInv, TypeOK, TransactionStates, ScopeInv, Begin, Ready
<1>2. LevelsOf(st) = n
  BY <1>1 DEF LevelsOf
<1>3. st' = t /\ engine' = Run(engine, OwnSql)
  BY DEF Begin
<1>4. t.depth = n + 1 /\ LevelsOf(t) = n + 1
  <2>1. t.depth = n + 1 /\ t.pending = <<>>
    BY <1>1, IncrementFields
  <2> QED
    BY <1>1, <2>1 DEF LevelsOf
<1> HIDE DEF t
<1>5. CASE n = 0
  <2>1. ~engine.active
    BY <1>1, <1>2, <1>5 DEF InStep, Scoped
  <2>2. OwnSql = Plain("BEGIN")
    BY <1>5 DEF Begin, OwnSql, BeginSql, RawOps
  <2>3. Scoped(engine', 1) /\ engine'.active
    BY <1>1, <1>3, <2>1, <2>2, BeginScoped
  <2> QED
    BY <1>3, <1>4, <1>5, <2>3 DEF InStep
<1>6. CASE n > 0
  <2>1. n \in Nat \ {0} /\ engine.active /\ Scoped(engine, n)
    BY <1>1, <1>2, <1>6 DEF InStep
  <2>2. OwnSql = Named("SAVEPOINT", n)
    BY <1>1, <1>6 DEF Begin, CustomInScope, OwnSql, BeginSql, RawOps
  <2>3. Scoped(engine', n + 1) /\ engine'.active
    BY <1>1, <1>3, <2>1, <2>2, SavepointScoped
  <2> QED
    BY <1>3, <1>4, <2>3 DEF InStep
<1> QED
  BY <1>1, <1>5, <1>6

LEMMA EndInStep ==
  ASSUME TypeInv, ScopeInv, End
  PROVE  InStep(st', engine')
<1> DEFINE n == st.depth
           t == DecrementDepth(st)
<1>1. /\ st \in TransactionStates /\ engine \in EngineStates(Value)
      /\ n \in Nat \ {0} /\ st.pending = <<>> /\ InStep(st, engine)
  BY DEF TypeInv, TypeOK, TransactionStates, ScopeInv, End, Ready
<1>2. LevelsOf(st) = n
  BY <1>1 DEF LevelsOf
<1>3. st' = t /\ engine' = Run(engine, OwnSql) /\ op \in {"commit", "rollback"}
  BY DEF End
<1>4. t.depth = n - 1 /\ LevelsOf(t) = n - 1
  <2>1. t.depth = n - 1 /\ t.pending = <<>>
    BY <1>1, DecrementFields
  <2> QED
    BY <1>1, <2>1 DEF LevelsOf
<1>5. engine.active /\ Scoped(engine, n)
  BY <1>1, <1>2 DEF InStep
<1> HIDE DEF t
<1>6. CASE n = 1
  <2>1. OwnSql = Plain("COMMIT") \/ OwnSql = Plain("ROLLBACK")
    BY <1>3, <1>6, EndSql DEF CommitSql, RollbackSql
  <2>2. engine' = Close(engine, engine.data) \/ engine' = Close(engine, engine.base)
    <3>1. /\ Run(engine, Plain("COMMIT")) = Close(engine, engine.data)
          /\ Run(engine, Plain("ROLLBACK")) = Close(engine, engine.base)
      BY DEF Run, Plain
    <3> QED
      BY <1>3, <2>1, <3>1
  <2>3. Scoped(engine', 0)
    BY <2>2, ClosedScoped
  <2>4. t.depth = 0 /\ LevelsOf(t) = 0
    BY <1>4, <1>6
  <2> QED
    BY <1>3, <2>3, <2>4 DEF InStep
<1>7. CASE n > 1
  <2>1. n - 1 \in Nat \ {0} /\ (n - 1) + 1 = n
    BY <1>1, <1>7
  <2>2. OwnSql = Named("RELEASE", n - 1) \/ OwnSql = Named("ROLLBACK TO", n - 1)
    <3>1. /\ CommitSql(n) = Named("RELEASE", n - 1)
          /\ RollbackSql(n) = Named("ROLLBACK TO", n - 1)
      BY <1>1, <1>7, InnerSql
    <3> QED
      BY <1>3, <3>1, EndSql, Zenon
  <2>3. engine' = Release(engine, n - 1) \/ engine' = RollbackTo(engine, n - 1)
    <3>1. /\ Run(engine, Named("RELEASE", n - 1)) = Release(engine, n - 1)
          /\ Run(engine, Named("ROLLBACK TO", n - 1)) = RollbackTo(engine, n - 1)
      BY DEF Run, Named
    <3> QED
      BY <1>3, <2>2, <3>1
  <2>4. Scoped(engine, (n - 1) + 1)
    BY <1>5, <2>1
  <2>5. Scoped(engine', n - 1) /\ engine'.active
    BY <1>1, <1>5, <2>1, <2>3, <2>4, InnerEndScoped
  <2> QED
    BY <1>3, <1>4, <2>5 DEF InStep
<1> QED
  BY <1>1, <1>6, <1>7

(* Only the adapter and commit conflicts end transactions. *)
AdapterInControl == Faults \subseteq {"busy", "conflict"}

(* A COMMIT that fails with a conflict leaves the dropped handle's rollback  *)
(* on the queue and no transaction for it.                                   *)
LEMMA ConflictInStep ==
  ASSUME TypeInv, ScopeInv, Ready, GiveUp(st),
         op \in {"begin", "begin_with", "commit", "rollback"},
         op \in {"commit", "rollback"} => st.depth > 0,
         OwnSql = Plain("COMMIT"), engine' = Abort(engine)
  PROVE  InStep(st', engine')
<1> DEFINE t == MarkRollbackNeeded(st)
<1>1. /\ st \in TransactionStates /\ st.depth \in Nat /\ st.pending = <<>>
      /\ InStep(st, engine)
  BY DEF TypeInv, TypeOK, TransactionStates, ScopeInv, Ready
<1>2. op = "commit"
  BY DEF OwnSql, BeginSql, RollbackSql, Plain, Named
<1>3. st.depth = 1
  BY <1>1, <1>2 DEF OwnSql, CommitSql, Plain, Named
<1>4. st' = t
  BY <1>2 DEF GiveUp, OwnsOpenHandle
<1>5. t.depth = 0 /\ t.pending = Append(<<>>, 1)
  BY <1>1, <1>3, MarkFields
<1>6. LevelsOf(t) = 1
  <2>1. <<>> \in Seq(Nat)
    BY EmptySeq
  <2>2. Len(Append(<<>>, 1)) = Len(<<>>) + 1
    BY <2>1, AppendProperties
  <2> QED
    BY <1>5, <2>2 DEF LevelsOf
<1> HIDE DEF t
<1>7. engine.active
  BY <1>1, <1>3 DEF InStep
<1>8. Scoped(engine', 1)
  BY <1>7, ClosedScoped DEF Abort
<1> QED
  BY <1>4, <1>5, <1>6, <1>8 DEF InStep

LEMMA ScopeStep ==
  ASSUME AdapterInControl
  PROVE  TypeInv /\ PendingCountsDown /\ ScopeInv /\ [Next]_vars => ScopeInv'
<1> SUFFICES ASSUME TypeInv, PendingCountsDown, ScopeInv, [Next]_vars
             PROVE  ScopeInv'
  OBVIOUS
<1>0. /\ st \in TransactionStates
      /\ op \notin RawOps
      /\ ~st.failed => InStep(st, engine)
      /\ \A f \in {"raw", "abort", "cancel"} : f \notin Faults
  BY DEF TypeInv, TypeOK, ScopeInv, AdapterInControl
<1>1. CASE CallBegin \/ CallEnd \/ CallQuery \/ CallRaw
  BY <1>0, <1>1 DEF CallBegin, CallEnd, CallQuery, CallRaw, Call, RawOps, ScopeInv
<1>2. CASE DropHandle
  <2>1. op' \notin RawOps /\ st' = MarkRollbackNeeded(st) /\ engine' = engine
    BY <1>0, <1>2 DEF DropHandle
  <2>2. st'.failed = st.failed
    BY <1>0, <2>1, MarkFields
  <2> QED
    BY <1>0, <2>1, <2>2, MarkInStep DEF ScopeInv
<1>3. CASE RefuseFailed
  BY <1>0, <1>3, GiveUpInStep DEF RefuseFailed
<1>4. CASE RollBackPending \/ SkipPending
  <2>1. /\ ~st.failed /\ st.pending # <<>>
        /\ st' = PopPendingRollback(st) /\ op' = op
        /\ \/ Accepts(engine, PendingSql) /\ engine' = Run(engine, PendingSql)
           \/ Tolerable(NextPendingRollback(st)) /\ engine' = engine
    BY <1>4 DEF RollBackPending, SkipPending, Draining
  <2>2. InStep(PopPendingRollback(st), engine')
    BY <1>0, <2>1, PendingEndsInnermost
  <2> QED
    BY <1>0, <2>1, <2>2 DEF ScopeInv
<1>5. CASE FailPending
  <2> DEFINE t == MarkRollbackFailed(PopPendingRollback(st))
  <2>1. t \in TransactionStates /\ t.failed = TRUE
    BY <1>0, <1>5, PopFields, FailFields DEF FailPending, Draining
  <2>2. GiveUp(t)
    BY <1>5 DEF FailPending
  <2> QED
    BY <2>1, <2>2, GiveUpInStep
<1>6. CASE Begin
  BY <1>6, BeginInStep DEF Begin, ReturnOk, ScopeInv, RawOps
<1>7. CASE End
  BY <1>7, EndInStep DEF End, ReturnOk, ScopeInv, RawOps
<1>8. CASE EndAtZero
  BY <1>0, <1>8 DEF EndAtZero, ReturnOk, ScopeInv, RawOps
<1>9. CASE OwnFails
  <2>1. /\ Ready /\ GiveUp(st)
        /\ op \in {"begin", "begin_with", "commit", "rollback"}
        /\ op \in {"commit", "rollback"} => st.depth > 0
        /\ \/ engine' = engine
           \/ OwnSql = Plain("COMMIT") /\ engine' = Abort(engine)
    BY <1>0, <1>9 DEF OwnFails
  <2>2. CASE engine' = engine
    BY <1>0, <2>1, <2>2, GiveUpInStep
  <2>3. CASE OwnSql = Plain("COMMIT") /\ engine' = Abort(engine)
    <3>1. InStep(st', engine')
      BY <2>1, <2>3, ConflictInStep
    <3> QED
      BY <2>1, <3>1 DEF ScopeInv, GiveUp, RawOps
  <2> QED
    BY <2>1, <2>2, <2>3
<1>10. CASE WriteQuery
  <2>1. PICK v \in Value : engine' = Write(engine, v)
    BY <1>10 DEF WriteQuery
  <2>2. /\ engine'.active = engine.active /\ engine'.implicit = engine.implicit
        /\ engine'.stack = engine.stack
    BY <2>1 DEF Write, TypeInv, TypeOK, EngineStates
  <2>3. ~st.failed /\ st' = st /\ op' = "idle"
    BY <1>10 DEF WriteQuery, Ready, ReturnOk
  <2>4. InStep(st, engine')
    BY <1>0, <2>2, <2>3 DEF InStep, Scoped
  <2> QED
    BY <2>3, <2>4 DEF ScopeInv, RawOps
<1>11. CASE ReadQuery
  BY <1>0, <1>11 DEF ReadQuery, ReturnOk, ScopeInv, RawOps
<1>12. CASE RawQuery
  BY <1>0, <1>12 DEF RawQuery
<1>13. CASE QueryFails
  BY <1>0, <1>13, GiveUpInStep DEF QueryFails
<1>14. CASE CancelPending \/ CancelOwn
  BY <1>0, <1>14 DEF CancelPending, CancelOwn
<1>15. CASE UNCHANGED vars
  BY <1>0, <1>15 DEF vars, ScopeInv
<1> QED
  BY <1>1, <1>2, <1>3, <1>4, <1>5, <1>6, <1>7, <1>8, <1>9, <1>10, <1>11, <1>12,
     <1>13, <1>14, <1>15 DEF Next, Progress, Cancel

LEMMA ScopesInStep ==
  ASSUME AdapterInControl
  PROVE  Spec => []ScopeInv
<1>1. Init => PendingCountsDown
  BY DEF Init, DefaultState, PendingCountsDown, CountsDown
<1>2. TypeInv /\ PendingCountsDown /\ ScopeInv /\ [Next]_vars => ScopeInv'
  BY ScopeStep
<1> QED
  BY <1>1, <1>2, TypeInit, TypeStep, CountsDownStep, ScopeInit, PTL DEF Spec

(* While the connection is usable and a handle is open, the engine is inside *)
(* a transaction, so that no write of a scope autocommits.                   *)
THEOREM OpenHandlesAreTransactional ==
  ASSUME AdapterInControl
  PROVE  Spec => []OpenHandleMeansOpenTransaction
<1>1. ScopeInv => OpenHandleMeansOpenTransaction
  BY DEF ScopeInv, InStep, OpenHandleMeansOpenTransaction
<1> QED
  BY <1>1, ScopesInStep, PTL

(* The engine is inside a transaction only while a handle is open, its       *)
(* rollback is queued or the connection is marked failed.                    *)
THEOREM TransactionsHaveOwners ==
  ASSUME AdapterInControl
  PROVE  Spec => []NoOrphanTransaction
<1>1. ScopeInv => NoOrphanTransaction
  BY DEF ScopeInv, InStep, Scoped, LevelsOf, Levels, NoOrphanTransaction
<1> QED
  BY <1>1, ScopesInStep, PTL

(* The savepoints of the open and queued scopes exist and are nested like    *)
(* the scopes, whatever savepoints of dead scopes lie between them.          *)
THEOREM SavepointsNested ==
  ASSUME AdapterInControl
  PROVE  Spec => []ScopesNested
<1>1. ScopeInv => ScopesNested
  BY DEF ScopeInv, InStep, Scoped, NestedIn, LevelsOf, Levels, ScopesNested
<1> QED
  BY <1>1, ScopesInStep, PTL

-----------------------------------------------------------------------------
(* A connection whose rollback failed.                                       *)

(* It stays failed and neither reads nor changes the database again, under   *)
(* every fault.                                                              *)
THEOREM FailedConnectionInert == Spec => PoisonedIsInert
<1>1. TypeInv /\ [Next]_vars
        => [st.failed => st'.failed /\ UNCHANGED <<engine, seen>>]_vars
  <2> SUFFICES ASSUME TypeInv, Next, st.failed
               PROVE  st'.failed /\ UNCHANGED <<engine, seen>>
    OBVIOUS
  <2>1. st \in TransactionStates
    BY DEF TypeInv, TypeOK
  <2>2. CASE CallBegin \/ CallEnd \/ CallQuery \/ CallRaw
    BY <2>2 DEF CallBegin, CallEnd, CallQuery, CallRaw, Call
  <2>3. CASE DropHandle \/ RefuseFailed
    <3>1. st' = st \/ st' = MarkRollbackNeeded(st)
      BY <2>3 DEF DropHandle, RefuseFailed, GiveUp
    <3>2. UNCHANGED <<engine, seen>>
      BY <2>3 DEF DropHandle, RefuseFailed
    <3> QED
      BY <2>1, <3>1, <3>2, MarkFields
  <2>4. ~Ready /\ ~Draining
    BY DEF Ready, Draining
  <2> QED
    BY <2>2, <2>3, <2>4 DEF Next, Progress, Cancel, RollBackPending, SkipPending,
       FailPending, CancelPending, Begin, End, EndAtZero, OwnFails, WriteQuery,
       ReadQuery, RawQuery, QueryFails, CancelOwn
<1> QED
  BY <1>1, TypeInit, TypeStep, PTL DEF Spec, PoisonedIsInert

(* Unless the engine refuses a ROLLBACK it could run, the rollback of the    *)
(* outermost scope never makes the connection unusable.                      *)
THEOREM OutermostCleanupSafe ==
  ASSUME "busy" \notin Faults
  PROVE  Spec => OutermostCleanupNeverPoisons
<1>1. TypeInv /\ [Next]_vars
        => [~st.failed /\ st'.failed => NextPendingRollback(st) > 1]_vars
  <2> SUFFICES ASSUME TypeInv, Next, ~st.failed, st'.failed
               PROVE  NextPendingRollback(st) > 1
    OBVIOUS
  <2>1. st \in TransactionStates
    BY DEF TypeInv, TypeOK
  <2>2. FailPending
    <3>1. \A s \in TransactionStates : MarkRollbackNeeded(s).failed = s.failed
      BY MarkFields
    <3>2. st.pending # <<>> =>
             /\ PopPendingRollback(st) \in TransactionStates
             /\ ~PopPendingRollback(st).failed
      BY <2>1, PopFields
    <3>3. ~IncrementDepth(st).failed /\ ~DecrementDepth(st).failed
      BY <2>1, IncrementFields, DecrementFields
    <3>4. st' # st /\ st' # MarkRollbackNeeded(st)
      BY <2>1, <3>1
    <3> QED
      BY <3>1, <3>2, <3>3, <3>4
         DEF Next, Progress, Cancel, CallBegin, CallEnd, CallQuery, CallRaw, Call,
             DropHandle, RefuseFailed, RollBackPending, SkipPending, CancelPending,
             Begin, End, EndAtZero, OwnFails, WriteQuery, ReadQuery, RawQuery,
             QueryFails, CancelOwn, Draining, GiveUp
  <2>3. /\ ~Accepts(engine, PendingSql)
        /\ ~Tolerable(NextPendingRollback(st))
        /\ st.pending # <<>>
    BY <2>2 DEF FailPending, Draining
  <2>4. NextPendingRollback(st) \in Nat \ {0}
    BY <2>1, <2>3, HeadTailProperties DEF TransactionStates, NextPendingRollback
  <2>5. NextPendingRollback(st) # 1
    <3> SUFFICES ASSUME NextPendingRollback(st) = 1 PROVE FALSE
      OBVIOUS
    <3>1. PendingSql = Plain("ROLLBACK")
      BY DEF PendingSql, RollbackSql
    <3>2. Accepts(engine, PendingSql) <=> engine.active
      BY <3>1 DEF Accepts, Plain
    <3> QED
      BY <2>3, <3>2 DEF Tolerable
  <2> QED
    BY <2>4, <2>5
<1> QED
  BY <1>1, TypeInit, TypeStep, PTL DEF Spec, OutermostCleanupNeverPoisons

-----------------------------------------------------------------------------
(* Refinement of NestedTransactions: a dropped handle looks undone at once.  *)

(* What the engine and the queue mean to the application.                    *)
SnapshotOf(e, i) ==
  IF i = 1 THEN Durable(e) ELSE e.stack[Innermost(e.stack, i - 1)].data

Snapshots(e, d) == [i \in 1 .. d |-> SnapshotOf(e, i)]

DataOf(s, e) ==
  IF s.failed THEN Durable(e)
  ELSE IF s.pending = <<>> THEN e.data
  ELSE SnapshotOf(e, s.depth + 1)

ScopesOf(s, e) == IF s.failed THEN <<>> ELSE Snapshots(e, s.depth)

(* The first n snapshots survive a step of the engine. *)
Keeps(e, f, n) == \A i \in 1 .. n : SnapshotOf(f, i) = SnapshotOf(e, i)

LEMMA Views ==
  /\ LogicalData = DataOf(st, engine)
  /\ LogicalScopes = ScopesOf(st, engine)
BY DEF LogicalData, LogicalScopes, DataOf, ScopesOf, Snapshots, Snapshot, SnapshotOf

LEMMA ViewsNext ==
  /\ LogicalData' = DataOf(st', engine')
  /\ LogicalScopes' = ScopesOf(st', engine')
BY DEF LogicalData, LogicalScopes, DataOf, ScopesOf, Snapshots, Snapshot, SnapshotOf

LEMMA SnapshotType ==
  ASSUME NEW V, NEW e \in EngineStates(V), NEW n \in Nat, NestedIn(e.stack, n),
         NEW i \in 1 .. n
  PROVE  SnapshotOf(e, i) \in V
<1>1. e.stack \in Seq([name : Nat, data : V]) /\ Durable(e) \in V
  BY DEF EngineStates, Durable
<1>2. CASE i = 1
  BY <1>1, <1>2 DEF SnapshotOf
<1>3. CASE i # 1
  <2>1. i - 1 \in 1 .. n - 1
    BY <1>3
  <2>2. HasSavepoint(e.stack, i - 1)
    BY <2>1 DEF NestedIn
  <2>3. Innermost(e.stack, i - 1) \in 1 .. Len(e.stack)
    BY <1>1, <2>2, InnermostPosition
  <2>4. e.stack[Innermost(e.stack, i - 1)] \in [name : Nat, data : V]
    BY <1>1, <2>3, ElementOfSeq
  <2> QED BY <1>3, <2>4 DEF SnapshotOf
<1> QED BY <1>2, <1>3

LEMMA SnapshotsSeq ==
  ASSUME NEW V, NEW e, NEW d \in Nat, \A i \in 1 .. d : SnapshotOf(e, i) \in V
  PROVE  /\ Snapshots(e, d) \in Seq(V)
         /\ Len(Snapshots(e, d)) = d
         /\ \A i \in 1 .. d : Snapshots(e, d)[i] = SnapshotOf(e, i)
<1>1. Snapshots(e, d) \in [1 .. d -> V]
  BY DEF Snapshots
<1>2. Snapshots(e, d) \in Seq(V)
  BY <1>1, SeqDef
<1>3. Len(Snapshots(e, d)) = d
  <2>1. DOMAIN Snapshots(e, d) = 1 .. Len(Snapshots(e, d)) /\ Len(Snapshots(e, d)) \in Nat
    BY <1>2, LenProperties
  <2>2. DOMAIN Snapshots(e, d) = 1 .. d
    BY DEF Snapshots
  <2>3. \A m \in Nat : 1 .. m = 1 .. d => m = d
    OBVIOUS
  <2> QED BY <2>1, <2>2, <2>3, Zenon
<1> QED BY <1>2, <1>3 DEF Snapshots

LEMMA NoSnapshots ==
  ASSUME NEW e
  PROVE  Snapshots(e, 0) = <<>>
<1>1. Snapshots(e, 0) \in Seq(Value) /\ Len(Snapshots(e, 0)) = 0
  BY SnapshotsSeq
<1> QED BY <1>1, EmptySeq

(* Ending the innermost of d scopes leaves the scopes around it.             *)
LEMMA InnerSnapshots ==
  ASSUME NEW V, NEW e, NEW f, NEW d \in Nat \ {0},
         \A i \in 1 .. d : SnapshotOf(e, i) \in V,
         Keeps(e, f, d - 1)
  PROVE  /\ Snapshots(e, d) # <<>>
         /\ Len(Snapshots(e, d)) = d
         /\ Snapshots(f, d - 1) = SubSeq(Snapshots(e, d), 1, Len(Snapshots(e, d)) - 1)
         /\ Snapshots(e, d)[Len(Snapshots(e, d))] = SnapshotOf(e, d)
<1> DEFINE s == Snapshots(e, d)
           t == Snapshots(f, d - 1)
<1>1. s \in Seq(V) /\ Len(s) = d /\ \A i \in 1 .. d : s[i] = SnapshotOf(e, i)
  BY SnapshotsSeq
<1>2. \A i \in 1 .. d - 1 : SnapshotOf(f, i) = SnapshotOf(e, i) /\ SnapshotOf(f, i) \in V
  BY DEF Keeps
<1>3. d - 1 \in Nat
  OBVIOUS
<1>4. t \in Seq(V) /\ Len(t) = d - 1 /\ \A i \in 1 .. d - 1 : t[i] = SnapshotOf(f, i)
  BY <1>2, <1>3, SnapshotsSeq
<1> HIDE DEF s, t
<1>5. d - 1 \in 0 .. Len(s)
  BY <1>1
<1>6. /\ SubSeq(s, 1, d - 1) \in Seq(V)
      /\ Len(SubSeq(s, 1, d - 1)) = d - 1
      /\ \A i \in 1 .. d - 1 : SubSeq(s, 1, d - 1)[i] = s[i]
  BY <1>1, <1>5, Prefix
<1>7. \A i \in 1 .. d - 1 : t[i] = SubSeq(s, 1, d - 1)[i]
  BY <1>1, <1>2, <1>4, <1>6
<1>8. t = SubSeq(s, 1, d - 1)
  BY <1>4, <1>6, <1>7, SeqEqual
<1>9. s # <<>>
  BY <1>1, EmptySeq
<1> QED BY <1>1, <1>8, <1>9 DEF s, t

LEMMA OuterSnapshots ==
  ASSUME NEW V, NEW e, NEW f, NEW d \in Nat, NEW v \in V,
         \A i \in 1 .. d : SnapshotOf(e, i) \in V,
         Keeps(e, f, d), SnapshotOf(f, d + 1) = v
  PROVE  Snapshots(f, d + 1) = Append(Snapshots(e, d), v)
<1> DEFINE s == Snapshots(e, d)
           t == Snapshots(f, d + 1)
<1>1. s \in Seq(V) /\ Len(s) = d /\ \A i \in 1 .. d : s[i] = SnapshotOf(e, i)
  BY SnapshotsSeq
<1>2. \A i \in 1 .. d + 1 : SnapshotOf(f, i) \in V
  BY DEF Keeps
<1>3. d + 1 \in Nat
  OBVIOUS
<1>4. t \in Seq(V) /\ Len(t) = d + 1 /\ \A i \in 1 .. d + 1 : t[i] = SnapshotOf(f, i)
  BY <1>2, <1>3, SnapshotsSeq
<1> HIDE DEF s, t
<1>5. /\ Append(s, v) \in Seq(V)
      /\ Len(Append(s, v)) = d + 1
      /\ \A i \in 1 .. d : Append(s, v)[i] = s[i]
      /\ Append(s, v)[d + 1] = v
  BY <1>1, AppendProperties
<1>6. \A i \in 1 .. d + 1 : t[i] = Append(s, v)[i]
  <2> TAKE i \in 1 .. d + 1
  <2>1. CASE i = d + 1
    BY <1>4, <1>5, <2>1
  <2>2. CASE i \in 1 .. d
    BY <1>1, <1>4, <1>5, <2>2 DEF Keeps
  <2>3. i = d + 1 \/ i \in 1 .. d
    OBVIOUS
  <2> QED BY <2>1, <2>2, <2>3, Zenon
<1>7. t = Append(s, v)
  BY <1>4, <1>5, <1>6, SeqEqual
<1> QED BY <1>7 DEF s, t

-----------------------------------------------------------------------------
(* What the statements do to the snapshots of the scopes.                    *)

LEMMA SavepointSnapshots ==
  ASSUME NEW V, NEW e \in EngineStates(V), NEW n \in Nat \ {0},
         e.active, Scoped(e, n)
  PROVE  LET r == Run(e, Named("SAVEPOINT", n))
         IN  /\ Keeps(e, r, n) /\ SnapshotOf(r, n + 1) = e.data
             /\ r.data = e.data /\ Durable(r) = Durable(e)
<1> DEFINE x == [name |-> n, data |-> e.data]
           r == Run(e, Named("SAVEPOINT", n))
           Entry == [name : Nat, data : V]
<1>1. e.stack \in Seq(Entry) /\ x \in Entry /\ x.name = n /\ x.data = e.data
  BY DEF EngineStates
<1>2. r = [e EXCEPT !.stack = Append(@, x)]
  BY DEF Run, Named, Open, EngineStates
<1>3. /\ r.stack = Append(e.stack, x) /\ r.data = e.data
      /\ r.active = e.active /\ r.base = e.base
  BY <1>2 DEF EngineStates
<1>4. NestedIn(e.stack, n)
  BY DEF Scoped
<1> HIDE DEF x, r, Entry
<1>5. /\ Innermost(r.stack, n) = Len(e.stack) + 1
      /\ \A k \in 1 .. n - 1 :
           /\ Innermost(r.stack, k) = Innermost(e.stack, k)
           /\ Innermost(e.stack, k) \in 1 .. Len(e.stack)
  <2>1. /\ Innermost(Append(e.stack, x), n) = Len(e.stack) + 1
        /\ \A k \in 1 .. n - 1 :
             /\ HasSavepoint(Append(e.stack, x), k)
             /\ Innermost(Append(e.stack, x), k) = Innermost(e.stack, k)
             /\ Innermost(e.stack, k) \in 1 .. Len(e.stack)
    BY <1>1, <1>4, PushInnermost
  <2> QED BY <1>3, <2>1
<1>6. /\ \A j \in 1 .. Len(e.stack) : r.stack[j] = e.stack[j]
      /\ r.stack[Len(e.stack) + 1] = x
  BY <1>1, <1>3, AppendProperties
<1>7. Durable(r) = Durable(e)
  BY <1>3 DEF Durable
<1>8. SnapshotOf(r, n + 1) = e.data
  <2>1. n + 1 # 1 /\ (n + 1) - 1 = n
    OBVIOUS
  <2> QED BY <1>1, <1>5, <1>6, <2>1 DEF SnapshotOf
<1>9. Keeps(e, r, n)
  <2>1. ASSUME NEW i \in 1 .. n PROVE SnapshotOf(r, i) = SnapshotOf(e, i)
    <3>1. CASE i = 1
      BY <1>7, <3>1 DEF SnapshotOf
    <3>2. CASE i # 1
      <4>1. i - 1 \in 1 .. n - 1
        BY <3>2
      <4> QED BY <1>5, <1>6, <3>2, <4>1 DEF SnapshotOf
    <3> QED BY <3>1, <3>2
  <2> QED BY <2>1 DEF Keeps
<1> QED BY <1>3, <1>7, <1>8, <1>9 DEF r

(* RELEASE and ROLLBACK TO of the innermost scope touch no other scope; the  *)
(* first keeps the content, the second restores the scope's own snapshot.    *)
LEMMA InnerEndSnapshots ==
  ASSUME NEW V, NEW e \in EngineStates(V), NEW n \in Nat \ {0},
         e.active, Scoped(e, n + 1)
  PROVE  /\ Keeps(e, Release(e, n), n) /\ Release(e, n).data = e.data
         /\ Durable(Release(e, n)) = Durable(e)
         /\ Keeps(e, RollbackTo(e, n), n)
         /\ RollbackTo(e, n).data = SnapshotOf(e, n + 1)
         /\ Durable(RollbackTo(e, n)) = Durable(e)
<1> DEFINE i == Innermost(e.stack, n)
           Entry == [name : Nat, data : V]
<1>1. e.stack \in Seq(Entry) /\ NestedIn(e.stack, n + 1) /\ n + 1 \in Nat /\ n <= n + 1
  BY DEF EngineStates, Scoped
<1>2. /\ HasSavepoint(e.stack, n)
      /\ \A k \in 1 .. n - 1 : HasSavepoint(e.stack, k) /\ Innermost(e.stack, k) < i
  BY <1>1 DEF NestedIn
<1>3. i \in 1 .. Len(e.stack) /\ Len(e.stack) \in Nat
  BY <1>1, <1>2, InnermostPosition, LenProperties
<1>4. \A k \in 1 .. n - 1 : Innermost(e.stack, k) \in 1 .. Len(e.stack)
  BY <1>1, <1>2, InnermostPosition
<1>5. /\ Release(e, n) = [e EXCEPT !.stack = SubSeq(e.stack, 1, i - 1)]
      /\ RollbackTo(e, n) = [e EXCEPT !.data = e.stack[i].data,
                                      !.stack = SubSeq(e.stack, 1, i)]
  BY DEF Release, RollbackTo, Scoped, EngineStates
<1>6. /\ Release(e, n).active = e.active /\ Release(e, n).base = e.base
      /\ Release(e, n).data = e.data /\ Release(e, n).stack = SubSeq(e.stack, 1, i - 1)
      /\ RollbackTo(e, n).active = e.active /\ RollbackTo(e, n).base = e.base
      /\ RollbackTo(e, n).data = e.stack[i].data
      /\ RollbackTo(e, n).stack = SubSeq(e.stack, 1, i)
  BY <1>5 DEF EngineStates
<1>7. e.stack[i].data = SnapshotOf(e, n + 1)
  BY DEF SnapshotOf
<1>8. Durable(Release(e, n)) = Durable(e) /\ Durable(RollbackTo(e, n)) = Durable(e)
  BY <1>6 DEF Durable
<1> HIDE DEF i, Entry
<1>9. ASSUME NEW f, Durable(f) = Durable(e), NEW p \in {i - 1, i},
             f.stack = SubSeq(e.stack, 1, p)
      PROVE  Keeps(e, f, n)
  <2>1. p \in 0 .. Len(e.stack)
    <3>1. CASE p = i - 1
      BY <1>3, <3>1
    <3>2. CASE p = i
      BY <1>3, <3>2
    <3> QED BY <3>1, <3>2
  <2>2. \A k \in 1 .. n - 1 : Innermost(e.stack, k) <= p
    <3> SUFFICES ASSUME NEW k \in 1 .. n - 1 PROVE Innermost(e.stack, k) <= p
      OBVIOUS
    <3>1. Innermost(e.stack, k) < i /\ Innermost(e.stack, k) \in Int
      BY <1>2, <1>4
    <3>2. p >= i - 1 /\ i \in Int /\ p \in Int
      BY <1>3
    <3> QED BY <3>1, <3>2
  <2>3. \A k \in 1 .. n - 1 : Innermost(f.stack, k) = Innermost(e.stack, k)
    <3>1. n \in Nat /\ n + 1 \in Nat /\ n <= n + 1
      OBVIOUS
    <3>2. \A k \in 1 .. n - 1 :
            Innermost(SubSeq(e.stack, 1, p), k) = Innermost(e.stack, k)
      BY <1>1, <2>1, <2>2, <3>1, CutInnermost
    <3> QED BY <1>9, <3>2, Zenon
  <2>4. \A j \in 1 .. p : f.stack[j] = e.stack[j]
    BY <1>1, <1>9, <2>1, Prefix
  <2>5. ASSUME NEW k \in 1 .. n PROVE SnapshotOf(f, k) = SnapshotOf(e, k)
    <3>1. CASE k = 1
      BY <1>9, <3>1 DEF SnapshotOf
    <3>2. CASE k # 1
      <4>1. k - 1 \in 1 .. n - 1
        BY <3>2
      <4>2. Innermost(e.stack, k - 1) \in 1 .. p
        BY <1>4, <2>1, <2>2, <4>1
      <4> QED BY <2>3, <2>4, <3>2, <4>1, <4>2 DEF SnapshotOf
    <3> QED BY <3>1, <3>2
  <2> QED BY <2>5 DEF Keeps
<1> QED BY <1>6, <1>7, <1>8, <1>9

-----------------------------------------------------------------------------
(* A step that ends the innermost scope leaves the scopes around it.         *)
LEMMA ScopeEnds ==
  ASSUME st \in TransactionStates, ~st.failed, ~st'.failed,
         st.depth > 0, st'.depth = st.depth - 1,
         \A i \in 1 .. st.depth : SnapshotOf(engine, i) \in Value,
         Keeps(engine, engine', st.depth - 1)
  PROVE  /\ ScopesOf(st, engine) # <<>>
         /\ Len(ScopesOf(st, engine)) = st.depth
         /\ ScopesOf(st', engine')
              = SubSeq(ScopesOf(st, engine), 1, Len(ScopesOf(st, engine)) - 1)
         /\ ScopesOf(st, engine)[Len(ScopesOf(st, engine))] = SnapshotOf(engine, st.depth)
<1>1. st.depth \in Nat \ {0}
  BY DEF TransactionStates
<1>2. /\ ScopesOf(st, engine) = Snapshots(engine, st.depth)
      /\ ScopesOf(st', engine') = Snapshots(engine', st.depth - 1)
  BY DEF ScopesOf
<1>3. /\ Snapshots(engine, st.depth) # <<>>
      /\ Len(Snapshots(engine, st.depth)) = st.depth
      /\ Snapshots(engine', st.depth - 1)
           = SubSeq(Snapshots(engine, st.depth), 1, Len(Snapshots(engine, st.depth)) - 1)
      /\ Snapshots(engine, st.depth)[Len(Snapshots(engine, st.depth))]
           = SnapshotOf(engine, st.depth)
  <2>1. PICK d \in Nat \ {0} : d = st.depth
    BY <1>1
  <2>2. PICK f : f = engine'
    OBVIOUS
  <2>3. (\A i \in 1 .. d : SnapshotOf(engine, i) \in Value) /\ Keeps(engine, f, d - 1)
    BY <2>1, <2>2
  <2>4. /\ Snapshots(engine, d) # <<>>
        /\ Len(Snapshots(engine, d)) = d
        /\ Snapshots(f, d - 1) = SubSeq(Snapshots(engine, d), 1, Len(Snapshots(engine, d)) - 1)
        /\ Snapshots(engine, d)[Len(Snapshots(engine, d))] = SnapshotOf(engine, d)
    BY <2>3, InnerSnapshots
  <2> QED BY <2>1, <2>2, <2>4, Zenon
<1> QED BY <1>2, <1>3, Zenon

LEMMA ScopeBegins ==
  ASSUME st \in TransactionStates, ~st.failed, ~st'.failed, st'.depth = st.depth + 1,
         \A i \in 1 .. st.depth : SnapshotOf(engine, i) \in Value,
         Keeps(engine, engine', st.depth),
         SnapshotOf(engine', st.depth + 1) = engine.data, engine.data \in Value
  PROVE  ScopesOf(st', engine') = Append(ScopesOf(st, engine), engine.data)
<1>1. st.depth \in Nat
  BY DEF TransactionStates
<1>2. /\ ScopesOf(st, engine) = Snapshots(engine, st.depth)
      /\ ScopesOf(st', engine') = Snapshots(engine', st.depth + 1)
  BY DEF ScopesOf
<1>3. Snapshots(engine', st.depth + 1) = Append(Snapshots(engine, st.depth), engine.data)
  BY <1>1, OuterSnapshots
<1> QED BY <1>2, <1>3

LEMMA ScopesStay ==
  ASSUME ~st.failed, ~st'.failed, st'.depth = st.depth, Keeps(engine, engine', st.depth)
  PROVE  ScopesOf(st', engine') = ScopesOf(st, engine)
BY DEF ScopesOf, Snapshots, Keeps

(* A state of the connection, as the proof of the refinement needs it.       *)
RefinementInv == TypeInv /\ PendingCountsDown /\ ScopeInv

LEMMA RefinementFacts ==
  ASSUME RefinementInv
  PROVE  /\ st \in TransactionStates /\ engine \in EngineStates(Value)
         /\ st.depth \in Nat /\ handles \in Nat /\ st.failed \in BOOLEAN
         /\ st.pending \in Seq(Nat \ {0}) /\ Len(st.pending) \in Nat
         /\ LevelsOf(st) \in Nat /\ LevelsOf(st) = st.depth + Len(st.pending)
         /\ op \in (Ops \ RawOps) \cup {"idle"}
         /\ op \in {"commit", "rollback"} => handles > 0
         /\ ~st.failed =>
              /\ InStep(st, engine) /\ Scoped(engine, LevelsOf(st))
              /\ \A i \in 1 .. LevelsOf(st) : SnapshotOf(engine, i) \in Value
<1>1. /\ st \in TransactionStates /\ engine \in EngineStates(Value)
      /\ op \in (Ops \ RawOps) \cup {"idle"}
      /\ handles \in Nat
      /\ op \in {"commit", "rollback"} => handles > 0
      /\ ~st.failed => InStep(st, engine)
  BY DEF RefinementInv, TypeInv, TypeOK, ScopeInv, CallOwnsHandle
<1>2. /\ st.depth \in Nat /\ st.pending \in Seq(Nat \ {0}) /\ st.failed \in BOOLEAN
  BY <1>1 DEF TransactionStates
<1>3. Len(st.pending) \in Nat
  BY <1>2, LenProperties
<1>4. LevelsOf(st) \in Nat /\ LevelsOf(st) = st.depth + Len(st.pending)
  BY <1>2, <1>3 DEF LevelsOf
<1>5. ~st.failed => \A i \in 1 .. LevelsOf(st) : SnapshotOf(engine, i) \in Value
  BY <1>1, <1>4, SnapshotType DEF InStep, Scoped
<1> QED BY <1>1, <1>2, <1>3, <1>4, <1>5 DEF InStep

-----------------------------------------------------------------------------
(* One step of Nested, or a stutter, for each action.                        *)

(* The views of a step that shows nothing to the application.                *)
LEMMA Stutter ==
  ASSUME DataOf(st', engine') = DataOf(st, engine),
         ScopesOf(st', engine') = ScopesOf(st, engine),
         Durable(engine') = Durable(engine),
         (~st'.failed) = (~st.failed),
         UNCHANGED <<handles, op, result, seen>>
  PROVE  UNCHANGED Nested!vars
<1>1. LogicalData' = LogicalData /\ LogicalScopes' = LogicalScopes
  BY Views, ViewsNext
<1> QED BY <1>1 DEF Nested!vars

LEMMA UndoStep ==
  ASSUME Durable(engine') = Durable(engine), (~st'.failed) = (~st.failed), seen' = seen,
         ScopesOf(st, engine) # <<>>,
         ScopesOf(st', engine')
           = SubSeq(ScopesOf(st, engine), 1, Len(ScopesOf(st, engine)) - 1),
         DataOf(st', engine') = ScopesOf(st, engine)[Len(ScopesOf(st, engine))]
  PROVE  Nested!Undo
<1>1. /\ LogicalScopes # <<>>
      /\ LogicalScopes' = SubSeq(LogicalScopes, 1, Len(LogicalScopes) - 1)
      /\ LogicalData' = LogicalScopes[Len(LogicalScopes)]
  BY Views, ViewsNext
<1> QED BY <1>1 DEF Nested!Undo, Nested!InnerScopes

LEMMA CallRefines ==
  ASSUME RefinementInv, NEW o \in {"begin", "begin_with", "commit", "rollback", "write", "read"},
         o \in {"commit", "rollback"} => handles > 0, Call(o)
  PROVE  Nested!Start
<1>1. op = "idle" /\ op' = o /\ UNCHANGED <<st, engine, handles, result, seen>>
  BY DEF Call
<1>2. LogicalData' = LogicalData /\ LogicalScopes' = LogicalScopes
  BY <1>1, Views, ViewsNext
<1> QED BY <1>1, <1>2 DEF Nested!Start, Nested!Calls, Nested!Begins, Nested!Ends

(* The handle of the innermost scope is dropped: what the queue will restore *)
(* is what the scope began with.                                             *)
LEMMA MarkUndoes ==
  ASSUME RefinementInv, ~st.failed, st.depth > 0,
         st' = MarkRollbackNeeded(st), engine' = engine, seen' = seen
  PROVE  Nested!Undo
<1>1. /\ st \in TransactionStates /\ st.pending \in Seq(Nat \ {0})
      /\ st.depth \in Nat \ {0} /\ st.depth <= LevelsOf(st)
      /\ \A i \in 1 .. st.depth : SnapshotOf(engine, i) \in Value
  BY RefinementFacts
<1>2. /\ st' \in TransactionStates /\ st'.depth = st.depth - 1 /\ ~st'.failed
      /\ st'.pending = Append(st.pending, st.depth)
  BY <1>1, MarkFields
<1>3. Keeps(engine, engine', st.depth - 1)
  BY DEF Keeps
<1>4. /\ ScopesOf(st, engine) # <<>>
      /\ ScopesOf(st', engine')
           = SubSeq(ScopesOf(st, engine), 1, Len(ScopesOf(st, engine)) - 1)
      /\ ScopesOf(st, engine)[Len(ScopesOf(st, engine))] = SnapshotOf(engine, st.depth)
  BY <1>1, <1>2, <1>3, ScopeEnds
<1>5. st'.pending # <<>>
  <2>1. Len(Append(st.pending, st.depth)) = Len(st.pending) + 1 /\ Len(st.pending) \in Nat
    BY <1>1, AppendProperties, LenProperties
  <2>2. Len(<<>>) = 0
    BY EmptySeq
  <2> QED BY <1>2, <2>1, <2>2
<1>6. DataOf(st', engine') = SnapshotOf(engine, st.depth)
  <2>1. st'.depth + 1 = st.depth
    BY <1>1, <1>2
  <2> QED BY <1>2, <1>5, <2>1 DEF DataOf
<1>7. (~st'.failed) = (~st.failed) /\ Durable(engine') = Durable(engine)
  BY <1>2
<1> QED BY <1>4, <1>6, <1>7, UndoStep

(* ... or a handle is dropped whose scope is gone, or when nothing runs any  *)
(* more: that shows nothing.                                                 *)
LEMMA MarkUndoesAny ==
  ASSUME RefinementInv, st' = MarkRollbackNeeded(st), engine' = engine, seen' = seen
  PROVE  Nested!UndoAny
<1>1. st \in TransactionStates /\ st.depth \in Nat /\ st.failed \in BOOLEAN
  BY RefinementFacts
<1>2. CASE ~st.failed /\ st.depth > 0
  <2>1. Nested!Undo
    BY <1>2, MarkUndoes
  <2>2. LogicalScopes # <<>>
    BY <2>1 DEF Nested!Undo
  <2> QED BY <2>1, <2>2 DEF Nested!UndoAny
<1>3. CASE st.failed \/ st.depth = 0
  <2>1. st'.failed = st.failed /\ (st.depth = 0 => st' = st)
    BY <1>1, MarkFields
  <2>2. DataOf(st', engine') = DataOf(st, engine) /\ ScopesOf(st', engine') = ScopesOf(st, engine)
    <3>1. CASE st.failed
      BY <2>1, <3>1 DEF DataOf, ScopesOf
    <3>2. CASE st' = st
      BY <3>2
    <3> QED BY <1>3, <2>1, <3>1, <3>2
  <2>3. ScopesOf(st, engine) = <<>>
    <3>1. CASE st.failed
      BY <3>1 DEF ScopesOf
    <3>2. CASE ~st.failed /\ st.depth = 0
      BY <3>2, NoSnapshots DEF ScopesOf
    <3> QED BY <1>1, <1>3, <3>1, <3>2
  <2>4. /\ LogicalScopes = <<>>
        /\ LogicalData' = LogicalData /\ LogicalScopes' = LogicalScopes
    BY <2>2, <2>3, Views, ViewsNext
  <2> QED BY <2>1, <2>4 DEF Nested!UndoAny
<1> QED BY <1>1, <1>2, <1>3

LEMMA DropRefines ==
  ASSUME RefinementInv, DropHandle
  PROVE  Nested!Drop
<1>1. /\ op = "idle" /\ handles > 0 /\ handles' = handles - 1
      /\ st' = MarkRollbackNeeded(st) /\ UNCHANGED <<engine, op, result, seen>>
  BY DEF DropHandle
<1>2. Nested!UndoAny
  BY <1>1, MarkUndoesAny
<1> QED BY <1>1, <1>2 DEF Nested!Drop

(* A call that gives up with the state as it was fails in Nested; a begin, a *)
(* commit or a rollback undoes the innermost scope with that.                *)
LEMMA GiveUpRefines ==
  ASSUME RefinementInv, op # "idle", GiveUp(st), UNCHANGED <<engine, seen>>
  PROVE  Nested!Fail
<1>1. /\ op' = "idle" /\ result' = "err"
      /\ handles' = IF op \in {"commit", "rollback"} THEN handles - 1 ELSE handles
      /\ st' = IF op \in {"begin", "begin_with", "commit", "rollback"}
               THEN MarkRollbackNeeded(st) ELSE st
  BY DEF GiveUp, OwnsOpenHandle
<1>2. Nested!Answer("err") /\ handles' = Nested!Left
  BY <1>1 DEF Nested!Answer, Nested!Left, Nested!Ends
<1>3. CASE op \in {"begin", "begin_with", "commit", "rollback"}
  <2>1. Nested!UndoAny
    BY <1>1, <1>3, MarkUndoesAny
  <2> QED BY <1>2, <1>3, <2>1 DEF Nested!Fail, Nested!Begins, Nested!Ends
<1>4. CASE op \notin {"begin", "begin_with", "commit", "rollback"}
  <2>1. st' = st
    BY <1>1, <1>4
  <2>2. UNCHANGED <<Durable(engine), LogicalData, LogicalScopes, ~st.failed, seen>>
    BY <2>1, Views, ViewsNext
  <2> QED BY <1>2, <1>4, <2>2 DEF Nested!Fail, Nested!Begins, Nested!Ends
<1> QED BY <1>3, <1>4

(* The rollback at the head of the queue is that of the innermost scope.     *)
LEMMA NextIsInnermost ==
  ASSUME st \in TransactionStates, PendingCountsDown, st.pending # <<>>
  PROVE  NextPendingRollback(st) = LevelsOf(st)
<1>1. st.depth \in Nat /\ st.pending \in Seq(Nat \ {0}) /\ Len(st.pending) \in Nat \ {0}
  BY EmptySeq, LenProperties DEF TransactionStates
<1>2. 1 \in 1 .. Len(st.pending)
  BY <1>1
<1>3. st.pending[1] = st.depth + Len(st.pending) + 1 - 1
  BY <1>2 DEF PendingCountsDown, CountsDown
<1>4. Head(st.pending) = st.pending[1]
  BY <1>1, HeadTailProperties
<1> QED BY <1>1, <1>3, <1>4 DEF NextPendingRollback, LevelsOf

(* The rollbacks of clear_pending_rollback show nothing: what the queue will *)
(* restore is already what the application is taken to see.                  *)
LEMMA PendingRefines ==
  ASSUME RefinementInv, RollBackPending \/ SkipPending
  PROVE  UNCHANGED Nested!vars
<1> DEFINE n == LevelsOf(st)
<1>1. /\ st \in TransactionStates /\ engine \in EngineStates(Value)
      /\ st.depth \in Nat /\ st.pending \in Seq(Nat \ {0})
      /\ Len(st.pending) \in Nat /\ n = st.depth + Len(st.pending)
  BY RefinementFacts
<1> HIDE DEF n
<1>2. /\ ~st.failed /\ st.pending # <<>>
      /\ st' = PopPendingRollback(st)
      /\ UNCHANGED <<handles, op, result, seen>>
      /\ \/ Accepts(engine, PendingSql) /\ engine' = Run(engine, PendingSql)
         \/ Tolerable(NextPendingRollback(st)) /\ engine' = engine
  BY DEF RollBackPending, SkipPending, Draining
<1>3. InStep(st, engine) /\ Scoped(engine, n)
  BY <1>2, RefinementFacts DEF n
<1>4. Len(st.pending) \in Nat \ {0} /\ n \in Nat \ {0} /\ st.depth <= n - 1
  <2>1. Len(st.pending) # 0
    BY <1>1, <1>2, EmptySeq
  <2> QED BY <1>1, <2>1
<1>5. NextPendingRollback(st) = n
  BY <1>1, <1>2, NextIsInnermost DEF RefinementInv, n
<1>6. st'.depth = st.depth /\ st'.pending = Tail(st.pending) /\ ~st'.failed
  BY <1>1, <1>2, PopFields
<1>7. Len(st'.pending) = Len(st.pending) - 1 /\ st'.pending \in Seq(Nat \ {0})
  BY <1>1, <1>2, <1>6, HeadTailProperties
<1>8. /\ st'.pending = <<>> => st.depth = n - 1
      /\ st'.pending # <<>> => st.depth + 1 \in 1 .. n - 1
  <2>1. Len(st'.pending) \in Nat /\ (st'.pending = <<>> <=> Len(st'.pending) = 0)
    BY <1>7, EmptySeq, LenProperties
  <2>2. \A d \in Nat, l \in Nat, m \in Nat :
           m = l - 1 => (m = 0 => d = d + l - 1) /\ (m # 0 => d + 1 \in 1 .. d + l - 1)
    OBVIOUS
  <2>3. /\ Len(st'.pending) = 0 => st.depth = st.depth + Len(st.pending) - 1
        /\ Len(st'.pending) # 0 => st.depth + 1 \in 1 .. st.depth + Len(st.pending) - 1
    BY <1>1, <1>7, <2>1, <2>2, Zenon
  <2> QED BY <1>1, <2>1, <2>3
<1>9. st' \in TransactionStates
  BY <1>1, <1>2, PopFields
<1>10. CASE n = 1
  <2>1. st.depth = 0 /\ st'.depth = 0 /\ st'.pending = <<>>
    BY <1>1, <1>4, <1>6, <1>8, <1>10
  <2>2. Durable(engine') = Durable(engine) /\ engine'.data = Durable(engine)
    <3>1. CASE Accepts(engine, PendingSql) /\ engine' = Run(engine, PendingSql)
      <4>1. PendingSql = Plain("ROLLBACK")
        BY <1>5, <1>10 DEF PendingSql, RollbackSql
      <4>2. engine.active /\ engine' = Close(engine, engine.base)
        BY <3>1, <4>1 DEF Accepts, Run, Plain
      <4> QED BY <4>2 DEF Close, Durable
    <3>2. CASE Tolerable(NextPendingRollback(st)) /\ engine' = engine
      BY <3>2 DEF Tolerable, Durable
    <3> QED BY <1>2, <3>1, <3>2
  <2>3. DataOf(st', engine') = DataOf(st, engine)
    BY <1>2, <1>6, <2>1, <2>2 DEF DataOf, SnapshotOf
  <2>4. ScopesOf(st', engine') = ScopesOf(st, engine)
    <3>1. Keeps(engine, engine', st.depth)
      BY <2>1 DEF Keeps
    <3> QED BY <1>1, <1>2, <1>6, <1>9, <3>1, ScopesStay
  <2> QED BY <1>2, <1>6, <2>2, <2>3, <2>4, Stutter
<1>11. CASE n > 1
  <2>1. n - 1 \in Nat \ {0} /\ (n - 1) + 1 = n /\ n \in Nat
    BY <1>4, <1>11
  <2>2. engine.active /\ Scoped(engine, (n - 1) + 1)
    BY <1>3, <1>11, <2>1 DEF InStep, n
  <2>3. engine' = RollbackTo(engine, n - 1)
    <3>1. PendingSql = Named("ROLLBACK TO", n - 1)
      BY <1>5, <1>11, <2>1, InnerSql DEF PendingSql
    <3>2. ~Tolerable(NextPendingRollback(st))
      BY <1>5, <1>11 DEF Tolerable
    <3> QED BY <1>2, <3>1, <3>2 DEF Run, Named
  <2>4. /\ Keeps(engine, engine', n - 1) /\ engine'.data = SnapshotOf(engine, (n - 1) + 1)
        /\ Durable(engine') = Durable(engine)
    BY <1>1, <2>1, <2>2, <2>3, InnerEndSnapshots
  <2>5. Keeps(engine, engine', st.depth)
    BY <1>1, <1>4, <2>1, <2>4 DEF Keeps
  <2>6. ScopesOf(st', engine') = ScopesOf(st, engine)
    BY <1>1, <1>2, <1>6, <1>9, <2>5, ScopesStay
  <2>7. DataOf(st, engine) = SnapshotOf(engine, st.depth + 1)
    BY <1>2 DEF DataOf
  <2>8. DataOf(st', engine') = SnapshotOf(engine, st.depth + 1)
    <3>1. CASE st'.pending = <<>>
      <4>1. st.depth + 1 = (n - 1) + 1
        BY <1>8, <3>1
      <4> QED BY <1>6, <2>4, <3>1, <4>1 DEF DataOf
    <3>2. CASE st'.pending # <<>>
      <4>1. st.depth + 1 \in 1 .. n - 1
        BY <1>8, <3>2
      <4>2. SnapshotOf(engine', st.depth + 1) = SnapshotOf(engine, st.depth + 1)
        BY <2>4, <4>1 DEF Keeps
      <4>3. DataOf(st', engine') = SnapshotOf(engine', st'.depth + 1)
        BY <1>6, <3>2 DEF DataOf
      <4> QED BY <1>6, <4>2, <4>3
    <3> QED BY <3>1, <3>2
  <2> QED BY <1>2, <1>6, <2>4, <2>6, <2>7, <2>8, Stutter
<1> QED BY <1>4, <1>10, <1>11

LEMMA FailPendingRefines ==
  ASSUME RefinementInv, FailPending
  PROVE  Nested!Poison
<1>1. /\ ~st.failed /\ st.pending # <<>> /\ op # "idle" /\ st \in TransactionStates
      /\ GiveUp(MarkRollbackFailed(PopPendingRollback(st))) /\ UNCHANGED <<engine, seen>>
  BY RefinementFacts DEF FailPending, Draining
<1>2. /\ MarkRollbackFailed(PopPendingRollback(st)) \in TransactionStates
      /\ MarkRollbackFailed(PopPendingRollback(st)).failed
  BY <1>1, PopFields, FailFields
<1>3. st'.failed /\ op' = "idle" /\ result' = "err" /\ handles' = Nested!Left
  BY <1>1, <1>2, MarkFields DEF GiveUp, Nested!Left, Nested!Ends
<1>4. LogicalScopes' = <<>> /\ LogicalData' = Durable(engine)
  BY <1>1, <1>3, ViewsNext DEF DataOf, ScopesOf
<1> QED BY <1>1, <1>3, <1>4 DEF Nested!Poison, Nested!Answer

LEMMA BeginRefines ==
  ASSUME RefinementInv, Begin
  PROVE  Nested!Begin
<1> DEFINE n == st.depth
<1>1. /\ st \in TransactionStates /\ engine \in EngineStates(Value)
      /\ n \in Nat /\ st.pending = <<>> /\ ~st.failed /\ op \in {"begin", "begin_with"}
      /\ op' = "idle" /\ result' = "ok" /\ seen' = seen /\ handles' = handles + 1
      /\ st' = IncrementDepth(st) /\ engine' = Run(engine, OwnSql)
  BY RefinementFacts DEF Begin, Ready, ReturnOk
<1>2. /\ LevelsOf(st) = n /\ InStep(st, engine) /\ Scoped(engine, n)
      /\ \A i \in 1 .. n : SnapshotOf(engine, i) \in Value
  <2>1. LevelsOf(st) = n
    BY <1>1 DEF LevelsOf
  <2> QED BY <1>1, <2>1, RefinementFacts
<1>3. /\ st' \in TransactionStates /\ st'.depth = n + 1
      /\ st'.pending = <<>> /\ ~st'.failed
  BY <1>1, IncrementFields
<1>4. /\ Keeps(engine, engine', n) /\ SnapshotOf(engine', n + 1) = engine.data
      /\ engine'.data = engine.data /\ Durable(engine') = Durable(engine)
  <2>1. CASE n = 0
    <3>1. ~engine.active
      BY <1>2, <2>1 DEF Scoped
    <3>2. engine' = Open(engine, FALSE)
      BY <1>1, <2>1 DEF OwnSql, BeginSql, RawOps, Run, Plain
    <3>3. engine'.active /\ engine'.base = engine.data /\ engine'.data = engine.data
      BY <1>1, <3>1, <3>2 DEF Open, EngineStates
    <3> QED BY <2>1, <3>1, <3>3 DEF Keeps, SnapshotOf, Durable
  <2>2. CASE n > 0
    <3>1. n \in Nat \ {0} /\ engine.active /\ Scoped(engine, n)
      BY <1>1, <1>2, <2>2 DEF InStep
    <3>2. OwnSql = Named("SAVEPOINT", n)
      BY <1>1, <2>2 DEF Begin, CustomInScope, OwnSql, BeginSql, RawOps
    <3> QED BY <1>1, <3>1, <3>2, SavepointSnapshots
  <2> QED BY <1>1, <2>1, <2>2
<1>5. engine.data \in Value
  BY <1>1 DEF EngineStates
<1>6. ScopesOf(st', engine') = Append(ScopesOf(st, engine), engine.data)
  BY <1>1, <1>2, <1>3, <1>4, <1>5, ScopeBegins
<1>7. DataOf(st, engine) = engine.data /\ DataOf(st', engine') = engine.data
  BY <1>1, <1>3, <1>4 DEF DataOf
<1>8. LogicalScopes' = Append(LogicalScopes, LogicalData) /\ LogicalData' = LogicalData
  BY <1>6, <1>7, Views, ViewsNext
<1>9. Durable(engine)' = Durable(engine) /\ (~st.failed)' = (~st.failed)
  BY <1>1, <1>3, <1>4
<1> QED BY <1>1, <1>8, <1>9 DEF Nested!Begin, Nested!Begins, Nested!Answer

LEMMA EndRefines ==
  ASSUME RefinementInv, End
  PROVE  Nested!Commit \/ Nested!Rollback
<1> DEFINE n == st.depth
<1>1. /\ st \in TransactionStates /\ engine \in EngineStates(Value)
      /\ n \in Nat \ {0} /\ st.pending = <<>> /\ ~st.failed /\ op \in {"commit", "rollback"}
      /\ op' = "idle" /\ result' = "ok" /\ seen' = seen /\ handles' = handles - 1
      /\ st' = DecrementDepth(st) /\ engine' = Run(engine, OwnSql)
  BY RefinementFacts DEF End, Ready, ReturnOk
<1>2. /\ LevelsOf(st) = n /\ InStep(st, engine) /\ Scoped(engine, n) /\ engine.active
      /\ \A i \in 1 .. n : SnapshotOf(engine, i) \in Value
  <2>1. LevelsOf(st) = n
    BY <1>1 DEF LevelsOf
  <2> QED BY <1>1, <2>1, RefinementFacts DEF InStep
<1>3. /\ st' \in TransactionStates /\ st'.depth = n - 1
      /\ st'.pending = <<>> /\ ~st'.failed
  BY <1>1, DecrementFields
<1>4. /\ Keeps(engine, engine', n - 1)
      /\ op = "commit" => /\ engine'.data = engine.data
                          /\ Durable(engine') = IF n = 1 THEN engine.data ELSE Durable(engine)
      /\ op = "rollback" => /\ engine'.data = SnapshotOf(engine, n)
                            /\ Durable(engine') = Durable(engine)
  <2>1. CASE n = 1
    <3>1. /\ op = "commit" => engine' = Close(engine, engine.data)
          /\ op = "rollback" => engine' = Close(engine, engine.base)
      <4>1. /\ op = "commit" => OwnSql = Plain("COMMIT")
            /\ op = "rollback" => OwnSql = Plain("ROLLBACK")
        BY <2>1, EndSql DEF CommitSql, RollbackSql
      <4>2. /\ Run(engine, Plain("COMMIT")) = Close(engine, engine.data)
            /\ Run(engine, Plain("ROLLBACK")) = Close(engine, engine.base)
        BY DEF Run, Plain
      <4> QED BY <1>1, <4>1, <4>2
    <3>2. Keeps(engine, engine', n - 1)
      BY <2>1 DEF Keeps
    <3> QED BY <1>2, <2>1, <3>1, <3>2 DEF Close, Durable, SnapshotOf
  <2>2. CASE n > 1
    <3>1. n - 1 \in Nat \ {0} /\ (n - 1) + 1 = n
      BY <1>1, <2>2
    <3>2. Scoped(engine, (n - 1) + 1)
      BY <1>2, <3>1
    <3>3. /\ op = "commit" => engine' = Release(engine, n - 1)
          /\ op = "rollback" => engine' = RollbackTo(engine, n - 1)
      <4>1. /\ op = "commit" => OwnSql = Named("RELEASE", n - 1)
            /\ op = "rollback" => OwnSql = Named("ROLLBACK TO", n - 1)
        BY <1>1, <2>2, EndSql, InnerSql
      <4>2. /\ Run(engine, Named("RELEASE", n - 1)) = Release(engine, n - 1)
            /\ Run(engine, Named("ROLLBACK TO", n - 1)) = RollbackTo(engine, n - 1)
        BY DEF Run, Named
      <4> QED BY <1>1, <4>1, <4>2
    <3>4. /\ Keeps(engine, Release(engine, n - 1), n - 1)
          /\ Release(engine, n - 1).data = engine.data
          /\ Durable(Release(engine, n - 1)) = Durable(engine)
          /\ Keeps(engine, RollbackTo(engine, n - 1), n - 1)
          /\ RollbackTo(engine, n - 1).data = SnapshotOf(engine, n)
          /\ Durable(RollbackTo(engine, n - 1)) = Durable(engine)
      BY <1>1, <1>2, <3>1, <3>2, InnerEndSnapshots
    <3> QED BY <1>1, <2>2, <3>3, <3>4
  <2> QED BY <1>1, <2>1, <2>2
<1>5. /\ ScopesOf(st, engine) # <<>> /\ Len(ScopesOf(st, engine)) = n
      /\ ScopesOf(st', engine')
           = SubSeq(ScopesOf(st, engine), 1, Len(ScopesOf(st, engine)) - 1)
      /\ ScopesOf(st, engine)[Len(ScopesOf(st, engine))] = SnapshotOf(engine, n)
  BY <1>1, <1>2, <1>3, <1>4, ScopeEnds
<1>6. DataOf(st, engine) = engine.data /\ DataOf(st', engine') = engine'.data
  BY <1>1, <1>3 DEF DataOf
<1>7. Nested!Answer("ok") /\ (~st.failed)' = (~st.failed)
  BY <1>1, <1>3 DEF Nested!Answer
<1>8. CASE op = "commit"
  <2>1. /\ LogicalScopes # <<>>
        /\ LogicalScopes' = SubSeq(LogicalScopes, 1, Len(LogicalScopes) - 1)
        /\ LogicalData' = LogicalData
        /\ Durable(engine') = IF Len(LogicalScopes) = 1 THEN LogicalData ELSE Durable(engine)
    BY <1>4, <1>5, <1>6, <1>8, Views, ViewsNext
  <2> QED BY <1>1, <1>7, <1>8, <2>1 DEF Nested!Commit, Nested!InnerScopes
<1>9. CASE op = "rollback"
  <2>1. Nested!Undo
    BY <1>1, <1>3, <1>4, <1>5, <1>6, <1>9, UndoStep
  <2> QED BY <1>1, <1>7, <1>9, <2>1 DEF Nested!Rollback
<1> QED BY <1>1, <1>8, <1>9

(* A COMMIT the engine refuses with a conflict has already undone the scope. *)
LEMMA ConflictRefines ==
  ASSUME RefinementInv, Ready, GiveUp(st), seen' = seen,
         op \in {"begin", "begin_with", "commit", "rollback"},
         op \in {"commit", "rollback"} => st.depth > 0,
         OwnSql = Plain("COMMIT"), engine' = Abort(engine)
  PROVE  Nested!Fail
<1>1. /\ st \in TransactionStates /\ st.depth \in Nat /\ st.pending = <<>> /\ ~st.failed
      /\ InStep(st, engine) /\ op' = "idle" /\ result' = "err"
      /\ \A i \in 1 .. LevelsOf(st) : SnapshotOf(engine, i) \in Value
  BY RefinementFacts DEF Ready, GiveUp
<1>2. op = "commit"
  BY DEF OwnSql, BeginSql, RollbackSql, Plain, Named
<1>3. st.depth = 1
  BY <1>1, <1>2 DEF OwnSql, CommitSql, Plain, Named
<1>4. st' = MarkRollbackNeeded(st)
  BY <1>2 DEF GiveUp, OwnsOpenHandle
<1>5. /\ st' \in TransactionStates /\ st'.depth = st.depth - 1 /\ ~st'.failed
      /\ st'.depth = 0 /\ st'.pending = Append(<<>>, 1)
  BY <1>1, <1>3, <1>4, MarkFields
<1>6. st'.pending # <<>>
  <2>1. <<>> \in Seq(Nat)
    BY EmptySeq
  <2>2. Len(Append(<<>>, 1)) = Len(<<>>) + 1 /\ Len(<<>>) = 0
    BY <2>1, AppendProperties
  <2> QED BY <1>5, <2>2
<1>7. engine.active /\ engine' = Close(engine, engine.base)
  BY <1>1, <1>3 DEF InStep, Abort
<1>8. Durable(engine') = Durable(engine)
  BY <1>7 DEF Close, Durable
<1>9. Keeps(engine, engine', st.depth - 1) /\ \A i \in 1 .. st.depth : SnapshotOf(engine, i) \in Value
  BY <1>1, <1>3 DEF Keeps, LevelsOf
<1>10. /\ ScopesOf(st, engine) # <<>>
       /\ ScopesOf(st', engine')
            = SubSeq(ScopesOf(st, engine), 1, Len(ScopesOf(st, engine)) - 1)
       /\ ScopesOf(st, engine)[Len(ScopesOf(st, engine))] = SnapshotOf(engine, st.depth)
  BY <1>1, <1>3, <1>5, <1>9, ScopeEnds
<1>11. DataOf(st', engine') = SnapshotOf(engine, st.depth)
  BY <1>3, <1>5, <1>6, <1>8 DEF DataOf, SnapshotOf
<1>12. Nested!Undo
  BY <1>1, <1>5, <1>8, <1>10, <1>11, UndoStep
<1>13. LogicalScopes # <<>>
  BY <1>10, Views
<1>14. handles' = Nested!Left
  BY <1>2 DEF GiveUp, Nested!Left, Nested!Ends
<1> QED BY <1>1, <1>2, <1>12, <1>13, <1>14
        DEF Nested!Fail, Nested!Answer, Nested!UndoAny, Nested!Begins, Nested!Ends

(* commit and rollback of a handle whose scope is gone.                      *)
LEMMA EndAtZeroRefines ==
  ASSUME RefinementInv, EndAtZero
  PROVE  Nested!EndNothing
<1>1. /\ op \in {"commit", "rollback"} /\ ~st.failed /\ st.depth = 0
      /\ op' = "idle" /\ result' = "ok" /\ handles' = handles - 1
      /\ UNCHANGED <<st, engine, seen>>
  BY DEF EndAtZero, Ready, ReturnOk
<1>2. LogicalScopes = <<>>
  BY <1>1, Views, NoSnapshots DEF ScopesOf
<1>3. LogicalData' = LogicalData /\ LogicalScopes' = LogicalScopes
  BY <1>1, Views, ViewsNext
<1> QED BY <1>1, <1>2, <1>3 DEF Nested!EndNothing, Nested!Answer, Nested!Ends

LEMMA QueryRefines ==
  ASSUME RefinementInv, WriteQuery \/ ReadQuery
  PROVE  Nested!Write \/ Nested!Read
<1>1. /\ st \in TransactionStates /\ engine \in EngineStates(Value) /\ st.depth \in Nat
      /\ st.pending = <<>> /\ ~st.failed /\ st' = st /\ op # "idle"
      /\ op' = "idle" /\ result' = "ok" /\ handles' = handles
  BY RefinementFacts DEF WriteQuery, ReadQuery, Ready, ReturnOk
<1>2. DataOf(st, engine) = engine.data /\ DataOf(st', engine') = engine'.data
  BY <1>1 DEF DataOf
<1>3. CASE ReadQuery
  <2>1. op = "read" /\ engine' = engine /\ seen' = engine.data
    BY <1>3 DEF ReadQuery
  <2>2. LogicalScopes' = LogicalScopes /\ LogicalData' = LogicalData /\ LogicalData = engine.data
    BY <1>1, <1>2, <2>1, Views, ViewsNext
  <2> QED BY <1>1, <2>1, <2>2 DEF Nested!Read, Nested!Answer
<1>4. CASE WriteQuery
  <2>1. op = "write" /\ seen' = seen
    BY <1>4 DEF WriteQuery
  <2>2. PICK v \in Value : engine' = Write(engine, v)
    BY <1>4 DEF WriteQuery
  <2>3. /\ engine'.data = v /\ engine'.stack = engine.stack
        /\ engine'.active = engine.active /\ engine'.base = engine.base
    BY <1>1, <2>2 DEF Write, EngineStates
  <2>4. engine.active <=> st.depth > 0
    <3>1. LevelsOf(st) = st.depth
      BY <1>1 DEF LevelsOf
    <3>2. InStep(st, engine)
      BY <1>1, RefinementFacts
    <3> QED BY <1>1, <3>1, <3>2 DEF InStep, Scoped
  <2>5. ScopesOf(st', engine') = ScopesOf(st, engine)
    <3>1. st.depth > 0 => Durable(engine') = Durable(engine)
      BY <2>3, <2>4 DEF Durable
    <3>2. Keeps(engine, engine', st.depth)
      BY <1>1, <2>3, <3>1 DEF Keeps, SnapshotOf
    <3> QED BY <1>1, <3>2, ScopesStay
  <2>6. ScopesOf(st, engine) = <<>> <=> st.depth = 0
    <3>1. /\ \A i \in 1 .. st.depth : SnapshotOf(engine, i) \in Value
      <4>1. LevelsOf(st) = st.depth
        BY <1>1 DEF LevelsOf
      <4> QED BY <1>1, <4>1, RefinementFacts
    <3>2. Snapshots(engine, st.depth) \in Seq(Value) /\ Len(Snapshots(engine, st.depth)) = st.depth
      BY <1>1, <3>1, SnapshotsSeq
    <3> QED BY <1>1, <3>2, EmptySeq DEF ScopesOf
  <2>7. Durable(engine') = IF ScopesOf(st, engine) = <<>> THEN v ELSE Durable(engine)
    BY <1>1, <2>3, <2>4, <2>6 DEF Durable
  <2>8. /\ LogicalScopes' = LogicalScopes /\ LogicalData' = v
        /\ Durable(engine') = IF LogicalScopes = <<>> THEN LogicalData' ELSE Durable(engine)
    BY <1>2, <2>3, <2>5, <2>7, Views, ViewsNext
  <2> QED BY <1>1, <2>1, <2>8 DEF Nested!Write, Nested!Answer
<1> QED BY <1>3, <1>4

LEMMA RefinementInit == Init => Nested!Init
<1> SUFFICES ASSUME Init PROVE Nested!Init
  OBVIOUS
<1>1. /\ st.depth = 0 /\ st.pending = <<>> /\ st.failed = FALSE
      /\ handles = 0 /\ op = "idle" /\ result = "ok"
  BY DEF Init, DefaultState
<1>2. PICK v \in Value : engine = FreshEngine(v) /\ seen = v
  BY DEF Init
<1>3. Durable(engine) = v /\ engine.data = v
  BY <1>2 DEF FreshEngine, Durable
<1>4. LogicalData = v
  BY <1>1, <1>3 DEF LogicalData
<1>5. LogicalScopes = <<>>
  BY <1>1, NoSnapshots, Views DEF ScopesOf
<1> QED BY <1>1, <1>2, <1>3, <1>4, <1>5 DEF Nested!Init

LEMMA RefinementStep ==
  ASSUME AdapterInControl
  PROVE  RefinementInv /\ [Next]_vars => [Nested!Next]_Nested!vars
<1> SUFFICES ASSUME RefinementInv, [Next]_vars PROVE [Nested!Next]_Nested!vars
  OBVIOUS
<1>0. \A f \in {"raw", "abort", "cancel"} : f \notin Faults
  BY DEF AdapterInControl
<1>1. CASE CallBegin \/ CallEnd \/ CallQuery
  <2>1. PICK o \in {"begin", "begin_with", "commit", "rollback", "write", "read"} :
           Call(o) /\ (o \in {"commit", "rollback"} => handles > 0)
    BY <1>1 DEF CallBegin, CallEnd, CallQuery
  <2> QED BY <2>1, CallRefines DEF Nested!Next
<1>2. CASE DropHandle
  BY <1>2, DropRefines DEF Nested!Next
<1>3. CASE RefuseFailed \/ QueryFails
  <2>1. op # "idle" /\ GiveUp(st) /\ UNCHANGED <<engine, seen>>
    BY <1>0, <1>3 DEF RefuseFailed, QueryFails, Ready
  <2> QED BY <2>1, GiveUpRefines DEF Nested!Next
<1>4. CASE RollBackPending \/ SkipPending
  BY <1>4, PendingRefines
<1>5. CASE FailPending
  BY <1>5, FailPendingRefines DEF Nested!Next
<1>6. CASE Begin
  BY <1>6, BeginRefines DEF Nested!Next
<1>7. CASE End
  BY <1>7, EndRefines DEF Nested!Next
<1>8. CASE EndAtZero
  BY <1>8, EndAtZeroRefines DEF Nested!Next
<1>9. CASE OwnFails
  <2>1. /\ Ready /\ GiveUp(st) /\ seen' = seen /\ op # "idle"
        /\ op \in {"begin", "begin_with", "commit", "rollback"}
        /\ op \in {"commit", "rollback"} => st.depth > 0
        /\ \/ engine' = engine
           \/ OwnSql = Plain("COMMIT") /\ engine' = Abort(engine)
    BY <1>9, RefinementFacts DEF OwnFails, Ready
  <2>2. CASE engine' = engine
    BY <2>1, <2>2, GiveUpRefines DEF Nested!Next
  <2>3. CASE OwnSql = Plain("COMMIT") /\ engine' = Abort(engine)
    BY <2>1, <2>3, ConflictRefines DEF Nested!Next
  <2> QED BY <2>1, <2>2, <2>3
<1>10. CASE WriteQuery \/ ReadQuery
  BY <1>10, QueryRefines DEF Nested!Next
<1>11. CASE CallRaw \/ RawQuery \/ CancelPending \/ CancelOwn
  BY <1>0, <1>11 DEF CallRaw, RawQuery, CancelPending, CancelOwn, RefinementInv, ScopeInv
<1>12. CASE UNCHANGED vars
  <2>1. UNCHANGED <<st, engine, handles, op, result, seen>>
    BY <1>12 DEF vars
  <2> QED BY <2>1, Stutter
<1> QED
  BY <1>1, <1>2, <1>3, <1>4, <1>5, <1>6, <1>7, <1>8, <1>9, <1>10, <1>11, <1>12
     DEF Next, Progress, Cancel

(* Lazy rollback is not observable: as long as only the adapter and commit   *)
(* conflicts end transactions, every behaviour of the connection is one of   *)
(* NestedTransactions, where a dropped handle is undone at once, with what   *)
(* the queue will restore standing for what the application sees.            *)
THEOREM LazyRollbackUnobservable ==
  ASSUME AdapterInControl
  PROVE  Spec => ImplementsNested
<1>1. Spec => []RefinementInv
  <2>1. Spec => []TypeInv
    BY TypeInit, TypeStep, PTL DEF Spec
  <2>2. Spec => []PendingCountsDown
    BY RollbacksInsideOut
  <2>3. Spec => []ScopeInv
    BY ScopesInStep
  <2>4. TypeInv /\ PendingCountsDown /\ ScopeInv => RefinementInv
    BY DEF RefinementInv
  <2> QED BY <2>1, <2>2, <2>3, <2>4, PTL
<1>2. RefinementInv /\ [Next]_vars => [Nested!Next]_Nested!vars
  BY RefinementStep
<1> QED
  BY <1>1, <1>2, RefinementInit, PTL DEF Spec, ImplementsNested, Nested!Spec
=============================================================================
