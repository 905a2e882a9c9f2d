----------------------------- MODULE FetchStream -----------------------------
(* A query on one TursoConnection, from its prepared statement to the end of *)
(* its result stream (executor.rs: prepare_sql, prepare_query_statement,     *)
(* fetch_many_sql and FetchState::next; connection.rs: the statement cache). *)
(* The stream reads one row ahead, so it is one row behind the engine; the   *)
(* application may drop it at any time, and any row of the engine may fail.  *)
EXTENDS Naturals, Sequences, SequencesExt

CONSTANTS
  Sql,           \* texts of single-statement queries
  Capacity,      \* statement_cache_capacity
  MaxRows        \* bound: rows of a result

ASSUME FetchStreamAssumption == Capacity \in Nat /\ MaxRows \in Nat

VARIABLES
  cache,         \* the cached statements, least recently used first
  state,         \* FetchState, "none" without a stream, "failed" after an error
  total,         \* rows the statement will produce
  stepped,       \* rows the engine has produced
  finished,      \* the engine has run the statement to its end
  pending,       \* a row was read ahead
  delivered,     \* rows the application has received
  affected       \* rows_affected as the application received it, or "none"

stream == <<state, total, stepped, finished, pending, delivered, affected>>
vars == <<cache, stream>>

Init ==
  /\ cache = <<>>
  /\ state = "none"
  /\ total = 0
  /\ stepped = 0
  /\ finished = FALSE
  /\ pending = FALSE
  /\ delivered = 0
  /\ affected = "none"

-----------------------------------------------------------------------------
(* prepare_sql: a hit makes the statement the most recently used one, a miss *)
(* inserts it and evicts the least recently used one from a full cache.      *)

Position(sql) == CHOOSE i \in DOMAIN cache : cache[i] = sql

(* Faulty: insertion into a full cache evicts nothing. *)
TouchNoEviction(sql) ==
  IF Contains(cache, sql) THEN Append(RemoveAt(cache, Position(sql)), sql)
  ELSE IF Capacity = 0 THEN cache
  ELSE Append(cache, sql)

Touch(sql) ==
  IF Contains(cache, sql) THEN Append(RemoveAt(cache, Position(sql)), sql)
  ELSE IF Capacity = 0 THEN cache
  ELSE IF Len(cache) < Capacity THEN Append(cache, sql)
  ELSE Append(Tail(cache), sql)

(* prepare_with and describe; fetch_many_sql if it fails after preparing. *)
Prepare(sql) ==
  /\ state = "none"
  /\ cache' = Touch(sql)
  /\ UNCHANGED stream

ClearCachedStatements ==
  /\ state = "none"
  /\ cache' = <<>>
  /\ UNCHANGED stream

(* fetch_many_sql: only persistent queries go through the cache. *)
Fetch(sql, persistent) ==
  /\ state = "none"
  /\ cache' = IF persistent THEN Touch(sql) ELSE cache
  /\ state' = "rows"
  /\ total' \in 0 .. MaxRows
  /\ stepped' = 0
  /\ finished' = FALSE
  /\ pending' = FALSE
  /\ delivered' = 0
  /\ affected' = "none"

-----------------------------------------------------------------------------
(* FetchState::next.                                                         *)

(* rows.next(): one more row, or the end of the statement. *)
Step(from, n, atEnd) ==
  \/ from < total /\ n = from + 1 /\ atEnd = FALSE
  \/ from = total /\ n = from /\ atEnd = TRUE

(* Faulty: the row read ahead is forgotten. *)
InHandForgetsPending == stepped + 1

(* Rows the engine has produced when the row to deliver is in hand. *)
InHand == IF pending THEN stepped ELSE stepped + 1

(* The first read finds no row at all. *)
NextEmpty ==
  /\ state = "rows"
  /\ ~pending
  /\ stepped = total
  /\ finished' = TRUE
  /\ state' = "done"
  /\ affected' = "final"
  /\ UNCHANGED <<cache, total, stepped, pending, delivered>>

(* Faulty: the row is delivered without reading ahead. *)
NextRowNoLookahead ==
  /\ state = "rows"
  /\ pending \/ stepped < total
  /\ stepped' = InHand
  /\ pending' = FALSE
  /\ delivered' = delivered + 1
  /\ UNCHANGED <<cache, state, total, finished, affected>>

(* Faulty: the result is prepared as soon as a row is in hand. *)
NextRowEarlyResult ==
  /\ state = "rows"
  /\ pending \/ stepped < total
  /\ \E n \in 0 .. total, atEnd \in BOOLEAN :
       /\ Step(InHand, n, atEnd)
       /\ stepped' = n
       /\ finished' = atEnd
       /\ pending' = ~atEnd
       /\ state' = "result"
  /\ delivered' = delivered + 1
  /\ UNCHANGED <<cache, total, affected>>

(* A row is delivered, and the one behind it is read ahead. *)
NextRow ==
  /\ state = "rows"
  /\ pending \/ stepped < total
  /\ \E n \in 0 .. total, atEnd \in BOOLEAN :
       /\ Step(InHand, n, atEnd)
       /\ stepped' = n
       /\ finished' = atEnd
       /\ pending' = ~atEnd
       /\ state' = IF atEnd THEN "result" ELSE "rows"
  /\ delivered' = delivered + 1
  /\ UNCHANGED <<cache, total, affected>>

(* n_change() of a statement that is not finished is not the final count. *)
NextResult ==
  /\ state = "result"
  /\ state' = "done"
  /\ affected' = IF finished THEN "final" ELSE "partial"
  /\ UNCHANGED <<cache, total, stepped, finished, pending, delivered>>

(* Reading the row, decoding it or reading ahead fails; a row in hand is     *)
(* gone, and the stream ends after the error.                                *)
NextError ==
  /\ state = "rows"
  /\ state' = "failed"
  /\ stepped' \in {n \in {stepped, InHand} : n <= total}
  /\ pending' = FALSE
  /\ UNCHANGED <<cache, total, finished, delivered, affected>>

(* The application has what it wants, or the stream has ended. *)
DropStream ==
  /\ state # "none"
  /\ state' = "none"
  /\ total' = 0 /\ stepped' = 0 /\ delivered' = 0
  /\ finished' = FALSE /\ pending' = FALSE
  /\ affected' = "none"
  /\ UNCHANGED cache

Poll == NextEmpty \/ NextRow \/ NextResult \/ NextError

Next ==
  \/ \E sql \in Sql : Prepare(sql) \/ \E persistent \in BOOLEAN : Fetch(sql, persistent)
  \/ ClearCachedStatements
  \/ Poll
  \/ DropStream

Spec == Init /\ [][Next]_vars

-----------------------------------------------------------------------------
(* Properties.                                                               *)

(* Type correctness, and the stream is never ahead of the engine. *)
TypeOK ==
  /\ cache \in Seq(Sql)
  /\ state \in {"none", "rows", "result", "done", "failed"}
  /\ stepped \in 0 .. total /\ delivered \in 0 .. stepped
  /\ finished \in BOOLEAN /\ pending \in BOOLEAN
  /\ affected \in {"none", "partial", "final"}

(* The cache holds a statement once and never more than its capacity         *)
(* (executor.rs, test bounds_and_clears_statement_cache).                    *)
CacheBounded == IsInjective(cache) /\ Len(cache) <= Capacity

(* rows_affected is read from a statement that ran to its end, after every   *)
(* row was delivered (fetch_many_sql, FetchState::next).                     *)
ResultIsFinal ==
  affected # "none" => affected = "final" /\ finished /\ delivered = total

(* Whoever stops after the last row leaves no statement half run: the        *)
(* statement is finished when its last row is delivered (the look-ahead of   *)
(* FetchState::next; what fetch_optional relies on when it drops the stream  *)
(* of an INSERT ... RETURNING).                                              *)
LastRowFinishesStatement ==
  state \in {"rows", "result"} /\ delivered > 0 /\ delivered = total => finished

(* An error costs the application at most the one row in hand. *)
ErrorLosesOneRow == state = "failed" => stepped - delivered \in {0, 1}
=============================================================================
