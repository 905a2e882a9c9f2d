-------------------------- MODULE FetchStreamProofs --------------------------
(* Theorems about FetchStream, for every length of a result and every        *)
(* capacity of the statement cache: the stream and the cache keep invariants *)
(* of their own.                                                             *)
EXTENDS FetchStream, SequenceTheorems, TLAPS

USE FetchStreamAssumption

(* The stream's part of the type invariant. *)
CountsOK ==
  total \in Nat /\ stepped \in 0 .. total /\ delivered \in 0 .. stepped

FlagsOK ==
  /\ state \in {"none", "rows", "result", "done", "failed"}
  /\ finished \in BOOLEAN /\ pending \in BOOLEAN
  /\ affected \in {"none", "partial", "final"}

(* While rows are delivered the engine is ahead by the row that was read     *)
(* ahead, and there is one from the first delivery on. *)
Behind ==
  state = "rows" =>
    /\ affected = "none" /\ ~finished
    /\ IF pending THEN stepped = delivered + 1 ELSE stepped = 0 /\ delivered = 0

(* When they are over all were delivered. *)
Complete ==
  /\ state \in {"result", "done"} => finished /\ delivered = total
  /\ state \in {"none", "result", "failed"} => affected = "none"
  /\ state = "done" => affected = "final"

StreamInv == CountsOK /\ FlagsOK /\ Behind /\ Complete /\ ErrorLosesOneRow

LEMMA InitStream ==
  ASSUME Init
  PROVE  StreamInv
<1>1. CountsOK
  BY DEF CountsOK, Init
<1>2. FlagsOK
  BY DEF FlagsOK, Init
<1>3. Behind
  BY DEF Behind, Init
<1>4. Complete
  BY DEF Complete, Init
<1>5. ErrorLosesOneRow
  BY DEF ErrorLosesOneRow, Init
<1> QED BY <1>1, <1>2, <1>3, <1>4, <1>5 DEF StreamInv

(* A new stream, which prepare_query_statement and query have opened. *)
LEMMA FetchKeeps ==
  ASSUME StreamInv, NEW sql, NEW persistent, Fetch(sql, persistent)
  PROVE  StreamInv'
<1>1. CountsOK'
  BY DEF CountsOK, Fetch
<1>2. FlagsOK'
  BY DEF FlagsOK, Fetch
<1>3. Behind'
  BY DEF Behind, Fetch
<1>4. Complete'
  BY DEF Complete, Fetch
<1>5. ErrorLosesOneRow'
  BY DEF ErrorLosesOneRow, Fetch
<1> QED BY <1>1, <1>2, <1>3, <1>4, <1>5 DEF StreamInv

(* FetchState::next, by what it returns. *)
LEMMA NextEmptyKeeps ==
  ASSUME StreamInv, NextEmpty
  PROVE  StreamInv'
  BY DEF StreamInv, CountsOK, FlagsOK, Behind, Complete, ErrorLosesOneRow, NextEmpty

LEMMA NextRowKeeps ==
  ASSUME StreamInv, NextRow
  PROVE  StreamInv'
<1>1. PICK n \in 0 .. total, atEnd \in BOOLEAN :
        /\ Step(InHand, n, atEnd)
        /\ stepped' = n
        /\ finished' = atEnd
        /\ pending' = ~atEnd
        /\ state' = IF atEnd THEN "result" ELSE "rows"
  BY DEF NextRow
<1>2. InHand = delivered + 1 /\ state = "rows" /\ affected = "none"
  BY DEF StreamInv, CountsOK, FlagsOK, Behind, NextRow, InHand
<1>3. delivered' = delivered + 1 /\ total' = total /\ affected' = affected
  BY DEF NextRow
<1>4. CASE atEnd
  <2>1. n = total /\ delivered + 1 = total
    BY <1>1, <1>2, <1>4 DEF Step
  <2> QED
    BY <1>1, <1>2, <1>3, <1>4, <2>1
       DEF StreamInv, CountsOK, FlagsOK, Behind, Complete, ErrorLosesOneRow
<1>5. CASE ~atEnd
  <2>1. n = delivered + 2
    BY <1>1, <1>2, <1>5 DEF Step, StreamInv, CountsOK, FlagsOK
  <2>2. stepped' = delivered' + 1 /\ CountsOK'
    BY <1>1, <1>3, <2>1 DEF StreamInv, CountsOK
  <2>3. state' = "rows" /\ affected' = "none" /\ finished' = FALSE /\ pending' = TRUE
    BY <1>1, <1>2, <1>3, <1>5, Zenon
  <2>4. FlagsOK' /\ Complete'
    BY <2>3 DEF FlagsOK, Complete
  <2>5. Behind' /\ ErrorLosesOneRow'
    BY <2>2, <2>3 DEF Behind, ErrorLosesOneRow
  <2> QED BY <2>2, <2>4, <2>5 DEF StreamInv
<1> QED BY <1>4, <1>5

LEMMA NextResultKeeps ==
  ASSUME StreamInv, NextResult
  PROVE  StreamInv'
  BY DEF StreamInv, CountsOK, FlagsOK, Behind, Complete, ErrorLosesOneRow, NextResult

LEMMA NextErrorKeeps ==
  ASSUME StreamInv, NextError
  PROVE  StreamInv'
<1>1. /\ total \in Nat /\ delivered \in Nat /\ delivered <= total
      /\ stepped \in {delivered, delivered + 1} /\ InHand = delivered + 1
  BY DEF StreamInv, CountsOK, Behind, NextError, InHand
<1>2. /\ stepped' \in {delivered, delivered + 1} /\ stepped' <= total
      /\ total' = total /\ delivered' = delivered
  BY <1>1 DEF NextError
<1>3. CountsOK'
  BY <1>1, <1>2 DEF CountsOK
<1>4. ErrorLosesOneRow'
  <2>1. delivered' \in Nat /\ (stepped' = delivered' \/ stepped' = delivered' + 1)
    BY <1>1, <1>2
  <2> QED BY <2>1 DEF ErrorLosesOneRow
<1>5. /\ state' = "failed" /\ affected' = "none"
      /\ pending' = FALSE /\ finished' \in BOOLEAN
  BY DEF NextError, StreamInv, FlagsOK, Behind
<1>6. FlagsOK'
  BY <1>5 DEF FlagsOK
<1>7. Behind' /\ Complete'
  BY <1>5 DEF Behind, Complete
<1> QED BY <1>3, <1>4, <1>6, <1>7 DEF StreamInv

LEMMA DropStreamKeeps ==
  ASSUME StreamInv, DropStream
  PROVE  StreamInv'
<1>1. CountsOK'
  BY DEF CountsOK, DropStream
<1>2. FlagsOK'
  BY DEF FlagsOK, DropStream
<1>3. Behind'
  BY DEF Behind, DropStream
<1>4. Complete'
  BY DEF Complete, DropStream
<1>5. ErrorLosesOneRow'
  BY DEF ErrorLosesOneRow, DropStream
<1> QED BY <1>1, <1>2, <1>3, <1>4, <1>5 DEF StreamInv

LEMMA StreamInvAlways == Spec => []StreamInv
<1>1. Init => StreamInv
  BY InitStream
<1>2. StreamInv /\ [Next]_vars => StreamInv'
  <2> SUFFICES ASSUME StreamInv, [Next]_vars PROVE StreamInv'
    OBVIOUS
  <2>1. ASSUME NEW sql \in Sql, NEW persistent \in BOOLEAN, Fetch(sql, persistent)
        PROVE  StreamInv'
    BY <2>1, FetchKeeps
  <2>2. CASE NextEmpty
    BY <2>2, NextEmptyKeeps
  <2>3. CASE NextRow
    BY <2>3, NextRowKeeps
  <2>4. CASE NextResult
    BY <2>4, NextResultKeeps
  <2>5. CASE NextError
    BY <2>5, NextErrorKeeps
  <2>6. CASE DropStream
    BY <2>6, DropStreamKeeps
  <2>7. CASE UNCHANGED stream
    BY <2>7 DEF StreamInv, CountsOK, FlagsOK, Behind, Complete, ErrorLosesOneRow, stream
  <2> QED
    BY <2>1, <2>2, <2>3, <2>4, <2>5, <2>6, <2>7
       DEF Next, Poll, Prepare, ClearCachedStatements, vars
<1> QED BY <1>1, <1>2, PTL DEF Spec

-----------------------------------------------------------------------------
(* The result is final: it counts a finished statement, and every row came   *)
(* before it. *)
THEOREM ResultFinal == Spec => []ResultIsFinal
<1>1. StreamInv => ResultIsFinal
  BY DEF StreamInv, CountsOK, FlagsOK, Behind, Complete, ResultIsFinal
<1> QED BY <1>1, StreamInvAlways, PTL

(* Whoever stops after the last row leaves no statement half run: no row     *)
(* that was delivered is the last one without the look-ahead having seen it. *)
THEOREM LastRowFinishes == Spec => []LastRowFinishesStatement
<1>1. StreamInv => LastRowFinishesStatement
  BY DEF StreamInv, CountsOK, FlagsOK, Behind, Complete, LastRowFinishesStatement
<1> QED BY <1>1, StreamInvAlways, PTL

(* An error loses at most the row in hand, wherever it happens. *)
THEOREM ErrorsLoseOneRow == Spec => []ErrorLosesOneRow
<1>1. StreamInv => ErrorLosesOneRow
  BY DEF StreamInv
<1> QED BY <1>1, StreamInvAlways, PTL

-----------------------------------------------------------------------------
(* The statement cache.                                                      *)

Distinct(s) == s \in Seq(Sql) /\ IsInjective(s)

LEMMA RemoveAtIs ==
  ASSUME NEW s \in Seq(Sql), NEW i \in 1 .. Len(s)
  PROVE  /\ RemoveAt(s, i) \in Seq(Sql)
         /\ Len(RemoveAt(s, i)) = Len(s) - 1
         /\ \A j \in 1 .. Len(s) - 1 : RemoveAt(s, i)[j] = s[IF j < i THEN j ELSE j + 1]
<1> DEFINE before == SubSeq(s, 1, i - 1)
           after == SubSeq(s, i + 1, Len(s))
<1>1. /\ before \in Seq(Sql) /\ Len(before) = i - 1
      /\ \A j \in 1 .. i - 1 : before[j] = s[j]
  BY SubSeqProperties
<1>2. /\ after \in Seq(Sql) /\ Len(after) = Len(s) - i
      /\ \A j \in 1 .. Len(s) - i : after[j] = s[i + j]
  BY SubSeqProperties
<1>3. RemoveAt(s, i) = before \o after
  BY DEF RemoveAt
<1> HIDE DEF before, after
<1>4. /\ before \o after \in Seq(Sql) /\ Len(before \o after) = Len(s) - 1
      /\ \A j \in 1 .. Len(s) - 1 :
           (before \o after)[j] = IF j <= i - 1 THEN before[j] ELSE after[j - (i - 1)]
  <2>1. /\ before \o after \in Seq(Sql)
        /\ Len(before \o after) = Len(before) + Len(after)
        /\ \A j \in 1 .. Len(before) + Len(after) :
             (before \o after)[j] = IF j <= Len(before) THEN before[j] ELSE after[j - Len(before)]
    BY <1>1, <1>2, ConcatProperties
  <2>2. Len(s) \in Nat /\ (i - 1) + (Len(s) - i) = Len(s) - 1
    OBVIOUS
  <2> QED BY <1>1, <1>2, <2>1, <2>2
<1>5. ASSUME NEW j \in 1 .. Len(s) - 1
      PROVE  (before \o after)[j] = s[IF j < i THEN j ELSE j + 1]
  <2>1. CASE j < i
    BY <1>1, <1>4, <2>1
  <2>2. CASE ~(j < i)
    <3>1. j - (i - 1) \in 1 .. Len(s) - i /\ i + (j - (i - 1)) = j + 1
      BY <2>2
    <3> QED BY <1>2, <1>4, <2>2, <3>1
  <2> QED BY <2>1, <2>2
<1> QED BY <1>3, <1>4, <1>5

LEMMA AppendDistinct ==
  ASSUME NEW s, Distinct(s), NEW x \in Sql, \A i \in 1 .. Len(s) : s[i] # x
  PROVE  Distinct(Append(s, x)) /\ Len(Append(s, x)) = Len(s) + 1
<1>1. /\ Append(s, x) \in Seq(Sql) /\ Len(Append(s, x)) = Len(s) + 1
      /\ \A i \in 1 .. Len(s) : Append(s, x)[i] = s[i]
      /\ Append(s, x)[Len(s) + 1] = x
  BY AppendProperties DEF Distinct
<1>2. \A a, b \in 1 .. Len(s) : s[a] = s[b] => a = b
  BY DEF Distinct, IsInjective
<1>3. \A a \in 1 .. Len(s) + 1 : a \in 1 .. Len(s) \/ a = Len(s) + 1
  BY DEF Distinct
<1> DEFINE t == Append(s, x)
<1>4. DOMAIN t = 1 .. Len(s) + 1
  BY <1>1
<1> HIDE DEF t
<1>5. \A a, b \in 1 .. Len(s) + 1 : t[a] = t[b] => a = b
  <2> SUFFICES ASSUME NEW a \in 1 .. Len(s) + 1, NEW b \in 1 .. Len(s) + 1, t[a] = t[b]
               PROVE  a = b
    OBVIOUS
  <2>1. \A i \in 1 .. Len(s) : t[i] = s[i] /\ s[i] # x
    BY <1>1 DEF t
  <2>2. t[Len(s) + 1] = x
    BY <1>1 DEF t
  <2> QED BY <1>2, <1>3, <2>1, <2>2, Zenon
<1> QED BY <1>1, <1>4, <1>5 DEF Distinct, IsInjective, t

(* The most recently used statement moves to the end. *)
LEMMA PromoteKeeps ==
  ASSUME Distinct(cache), NEW sql \in Sql, Contains(cache, sql)
  PROVE  LET t == Append(RemoveAt(cache, Position(sql)), sql)
         IN  Distinct(t) /\ Len(t) = Len(cache)
<1> DEFINE i == Position(sql)
           t == RemoveAt(cache, i)
<1>0. cache \in Seq(Sql) /\ Len(cache) \in Nat /\ DOMAIN cache = 1 .. Len(cache)
  BY DEF Distinct
<1>1. i \in 1 .. Len(cache) /\ cache[i] = sql
  BY <1>0 DEF Position, Contains
<1> HIDE DEF i
<1>2. /\ t \in Seq(Sql) /\ Len(t) = Len(cache) - 1
      /\ \A j \in 1 .. Len(cache) - 1 : t[j] = cache[IF j < i THEN j ELSE j + 1]
  BY <1>0, <1>1, RemoveAtIs
<1> HIDE DEF t
<1>3. \A a, b \in 1 .. Len(cache) : cache[a] = cache[b] => a = b
  BY <1>0 DEF Distinct, IsInjective
<1>4. IsInjective(t)
  <2> SUFFICES ASSUME NEW a \in 1 .. Len(cache) - 1, NEW b \in 1 .. Len(cache) - 1, t[a] = t[b]
               PROVE  a = b
    BY <1>2 DEF IsInjective
  <2>1. (IF a < i THEN a ELSE a + 1) = (IF b < i THEN b ELSE b + 1)
    BY <1>0, <1>1, <1>2, <1>3
  <2> QED BY <1>1, <2>1
<1>5. \A j \in 1 .. Len(t) : t[j] # sql
  <2> TAKE j \in 1 .. Len(t)
  <2>1. /\ (IF j < i THEN j ELSE j + 1) \in 1 .. Len(cache)
        /\ (IF j < i THEN j ELSE j + 1) # i
    BY <1>0, <1>1, <1>2
  <2> QED BY <1>1, <1>2, <1>3, <2>1
<1>6. Distinct(t)
  BY <1>2, <1>4 DEF Distinct
<1>7. Distinct(Append(t, sql)) /\ Len(Append(t, sql)) = Len(t) + 1
  BY <1>5, <1>6, AppendDistinct
<1> QED BY <1>0, <1>2, <1>7 DEF t, i

(* The least recently used one makes room. *)
LEMMA EvictKeeps ==
  ASSUME Distinct(cache), NEW sql \in Sql, ~Contains(cache, sql), Len(cache) > 0
  PROVE  LET t == Append(Tail(cache), sql)
         IN  Distinct(t) /\ Len(t) = Len(cache)
<1> DEFINE t == Tail(cache)
<1>0. cache \in Seq(Sql) /\ Len(cache) \in Nat /\ cache # <<>>
  BY DEF Distinct
<1>1. /\ t \in Seq(Sql) /\ Len(t) = Len(cache) - 1
      /\ \A j \in 1 .. Len(cache) - 1 : t[j] = cache[j + 1]
  BY <1>0, HeadTailProperties
<1> HIDE DEF t
<1>2. \A a, b \in 1 .. Len(cache) : cache[a] = cache[b] => a = b
  BY <1>0 DEF Distinct, IsInjective
<1>3. IsInjective(t)
  BY <1>0, <1>1, <1>2 DEF IsInjective
<1>4. \A j \in 1 .. Len(t) : t[j] # sql
  BY <1>0, <1>1 DEF Contains
<1>5. Distinct(Append(t, sql)) /\ Len(Append(t, sql)) = Len(t) + 1
  BY <1>1, <1>3, <1>4, AppendDistinct DEF Distinct
<1> QED BY <1>0, <1>1, <1>5 DEF t

CacheInv == Distinct(cache) /\ Len(cache) <= Capacity

LEMMA TouchKeeps ==
  ASSUME CacheInv, NEW sql \in Sql, cache' = Touch(sql)
  PROVE  CacheInv'
<1>0. Distinct(cache) /\ Len(cache) \in Nat /\ Len(cache) <= Capacity
  BY DEF CacheInv, Distinct
<1>1. CASE Contains(cache, sql)
  BY <1>0, <1>1, PromoteKeeps DEF Touch, CacheInv, Distinct
<1>2. CASE ~Contains(cache, sql) /\ Len(cache) < Capacity
  <2>1. cache' = Append(cache, sql)
    BY <1>0, <1>2 DEF Touch
  <2>2. Distinct(Append(cache, sql)) /\ Len(Append(cache, sql)) = Len(cache) + 1
    BY <1>0, <1>2, AppendDistinct DEF Contains
  <2> QED BY <1>0, <1>2, <2>1, <2>2 DEF CacheInv, Distinct
<1>3. CASE ~Contains(cache, sql) /\ ~(Len(cache) < Capacity) /\ Capacity # 0
  <2>1. cache' = Append(Tail(cache), sql) /\ Len(cache) > 0
    BY <1>0, <1>3 DEF Touch
  <2> QED BY <1>0, <1>3, <2>1, EvictKeeps DEF CacheInv, Distinct
<1>4. CASE ~Contains(cache, sql) /\ Capacity = 0
  <2>1. cache' = cache
    BY <1>4 DEF Touch
  <2> QED BY <2>1 DEF CacheInv, Distinct
<1> QED BY <1>1, <1>2, <1>3, <1>4

LEMMA CacheInvAlways == Spec => []CacheInv
<1>1. IsInjective(<<>>) /\ <<>> \in Seq(Sql) /\ Len(<<>>) = 0
  BY DEF IsInjective
<1>2. Init => CacheInv
  BY <1>1 DEF Init, CacheInv, Distinct
<1>3. CacheInv /\ [Next]_vars => CacheInv'
  <2> SUFFICES ASSUME CacheInv, [Next]_vars PROVE CacheInv'
    OBVIOUS
  <2>1. CASE cache' = cache
    BY <2>1 DEF CacheInv, Distinct
  <2>2. CASE cache' = <<>>
    BY <1>1, <2>2 DEF CacheInv, Distinct
  <2>3. CASE \E sql \in Sql : cache' = Touch(sql)
    BY <2>3, TouchKeeps
  <2> QED
    BY <2>1, <2>2, <2>3
       DEF Next, Poll, Prepare, ClearCachedStatements, Fetch, NextEmpty, NextRow, NextResult,
           NextError, DropStream, vars
<1> QED BY <1>2, <1>3, PTL DEF Spec

(* The cache holds a statement once and never more of them than its capacity *)
(* (TursoConnection::cache_statement), whatever is prepared and fetched.     *)
THEOREM CacheStaysBounded == Spec => []CacheBounded
<1>1. CacheInv => CacheBounded
  BY DEF CacheInv, Distinct, CacheBounded
<1> QED BY <1>1, CacheInvAlways, PTL
=============================================================================
