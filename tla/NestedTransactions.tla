------------------------- MODULE NestedTransactions -------------------------
(* What a TursoConnection promises its user about transactions, with no      *)
(* depths, no queue and no savepoints: a stack of scopes, each remembering   *)
(* the content it began with, and the handles the user holds.  A call does   *)
(* its work and answers in one step, and dropping a handle undoes its scope  *)
(* at once.  A begin that fails inside a scope undoes that scope as well; its*)
(* handle then stands for the scope around it, the outermost for none.       *)
(* Connection.tla implements this specification although it sends the        *)
(* ROLLBACK of a dropped handle only on the connection's next use.           *)
EXTENDS Sequences, Naturals

CONSTANT Value          \* database contents

VARIABLES
  durable,              \* the content every other connection sees
  data,                 \* the content this connection sees
  scopes,               \* contents at the start of the open scopes, outermost first
  handles,              \* handles the user holds, one inside the other
  usable,               \* FALSE once a scope could not be undone
  call,                 \* the call in flight, or "idle"
  result,               \* what the last call returned
  seen                  \* the content the last read returned

vars == <<durable, data, scopes, handles, usable, call, result, seen>>

Begins == {"begin", "begin_with"}
Ends == {"commit", "rollback"}
Calls == Begins \cup Ends \cup {"write", "read"}

Init ==
  /\ data \in Value
  /\ durable = data
  /\ seen = data
  /\ scopes = <<>>
  /\ handles = 0
  /\ usable = TRUE
  /\ call = "idle"
  /\ result = "ok"

Start ==
  /\ call = "idle"
  /\ call' \in Calls
  /\ call' \in Ends => handles > 0
  /\ UNCHANGED <<durable, data, scopes, handles, usable, result, seen>>

Answer(r) == call # "idle" /\ call' = "idle" /\ result' = r

Begin ==
  /\ call \in Begins
  /\ usable
  /\ Answer("ok")
  /\ scopes' = Append(scopes, data)
  /\ handles' = handles + 1
  /\ UNCHANGED <<durable, data, usable, seen>>

InnerScopes == SubSeq(scopes, 1, Len(scopes) - 1)

(* A commit keeps the scope's content; only the outermost one publishes it. *)
Commit ==
  /\ call = "commit"
  /\ usable
  /\ scopes # <<>>
  /\ Answer("ok")
  /\ scopes' = InnerScopes
  /\ handles' = handles - 1
  /\ durable' = IF Len(scopes) = 1 THEN data ELSE durable
  /\ UNCHANGED <<data, usable, seen>>

Undo ==
  /\ scopes # <<>>
  /\ scopes' = InnerScopes
  /\ data' = scopes[Len(scopes)]
  /\ UNCHANGED <<durable, usable, seen>>

Rollback ==
  /\ call = "rollback"
  /\ usable
  /\ Answer("ok")
  /\ Undo
  /\ handles' = handles - 1

(* A handle whose scope is gone: Ok, and nothing happens. *)
EndNothing ==
  /\ call \in Ends
  /\ usable
  /\ scopes = <<>>
  /\ Answer("ok")
  /\ handles' = handles - 1
  /\ UNCHANGED <<durable, data, scopes, usable, seen>>

UndoAny ==
  IF scopes # <<>> THEN Undo ELSE UNCHANGED <<durable, data, scopes, usable, seen>>

(* The drop of an open handle. *)
Drop ==
  /\ call = "idle"
  /\ handles > 0
  /\ handles' = handles - 1
  /\ UndoAny
  /\ UNCHANGED <<call, result>>

Write ==
  /\ call = "write"
  /\ usable
  /\ Answer("ok")
  /\ data' \in Value
  /\ durable' = IF scopes = <<>> THEN data' ELSE durable
  /\ UNCHANGED <<scopes, handles, usable, seen>>

Read ==
  /\ call = "read"
  /\ usable
  /\ Answer("ok")
  /\ seen' = data
  /\ UNCHANGED <<durable, data, scopes, handles, usable>>

(* commit and rollback give their handle up whatever they answer. *)
Left == IF call \in Ends THEN handles - 1 ELSE handles

(* A call that fails changes nothing, except that the innermost scope is     *)
(* undone by a begin, a commit or a rollback that fails.                     *)
Fail ==
  /\ Answer("err")
  /\ handles' = Left
  /\ IF call \in Begins \cup Ends
     THEN UndoAny
     ELSE UNCHANGED <<durable, data, scopes, usable, seen>>

(* A scope could not be undone: what is uncommitted is lost, nothing runs    *)
(* again.                                                                    *)
Poison ==
  /\ usable
  /\ Answer("err")
  /\ usable' = FALSE
  /\ handles' = Left
  /\ scopes' = <<>>
  /\ data' = durable
  /\ UNCHANGED <<durable, seen>>

Next ==
  \/ Start
  \/ Begin
  \/ Commit
  \/ Rollback
  \/ EndNothing
  \/ Drop
  \/ Write
  \/ Read
  \/ Fail
  \/ Poison

Spec == Init /\ [][Next]_vars
=============================================================================
