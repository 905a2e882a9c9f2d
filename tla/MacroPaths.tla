----------------------------- MODULE MacroPaths -----------------------------
(* The tokens a query macro expands to (sqlx-turso-macros/src/lib.rs):       *)
(* sqlx_macros_core (external) writes them with paths of its own and with    *)
(* the type paths Turso names (sqlx-turso-core/src/macros.rs), and           *)
(* rewrite_sqlx_paths then makes every path start at the facade crate, under *)
(* the name the user's Cargo.toml gives it.  A group is rewritten like the   *)
(* tokens around it, so its delimiters are tokens like others; `::` is two   *)
(* colons.                                                                   *)
EXTENDS Naturals, Sequences, SequencesExt

CONSTANT MaxPieces     \* bound: paths and tokens between them

(* `::a::b`. *)
AbsolutePath(names) == FlattenSeq([i \in DOMAIN names |-> <<":", ":", names[i]>>])

(* chrono_type_path and time_type_path, which name the types below           *)
(* `sqlx::types` of the facade crate; the last two names count as one.       *)
TypePaths == {<<"sqlx_turso", "sqlx", "types", t>> : t \in {"chrono::NaiveDate", "time::Date"}}

(* DATABASE_PATH and ROW_PATH. *)
OwnPaths == {<<"sqlx_turso", "Turso">>, <<"sqlx_turso", "TursoRow">>}

(* sqlx_macros_core's paths; Turso's QUERY_ARGUMENTS and the like are among  *)
(* them.                                                                     *)
CorePaths == {<<"sqlx", "query">>, <<"std", "result">>}

Paths == TypePaths \cup OwnPaths \cup CorePaths

VARIABLES
  pieces,     \* what was expanded so far: paths, and tokens that are none
  tokens      \* the same as tokens

Init == pieces = <<>> /\ tokens = <<>>

Write(before, p) ==
  /\ pieces' = pieces \o before \o <<p>>
  /\ tokens' = tokens \o FlattenSeq(before) \o AbsolutePath(p)

(* quote_query_as and the like write a path, never right after another.      *)
WritePath ==
  /\ Len(pieces) < MaxPieces
  /\ pieces # <<>> => Last(pieces) \notin Paths
  /\ \E p \in Paths : Write(<<>>, p)

(* A field of the record that query! makes: its name, a colon and its type.  *)
WriteField ==
  /\ Len(pieces) + 1 < MaxPieces
  /\ \E p \in Paths : Write(<<<<"name", ":">>>>, p)

WriteToken ==
  /\ Len(pieces) < MaxPieces
  /\ \E t \in {"<", "(", ")", "name"} :
       /\ pieces' = Append(pieces, <<t>>)
       /\ tokens' = Append(tokens, t)

Next == WritePath \/ WriteField \/ WriteToken

Spec == Init /\ [][Next]_<<pieces, tokens>>

-----------------------------------------------------------------------------
(* The name of the facade crate. *)
Facade == <<":", ":", "facade">>

At(s, i) == IF i \in DOMAIN s THEN s[i] ELSE "end"

(* absolute_path_replacement; <<>> is None. *)
Replacement(token) ==
  CASE token = "sqlx"       -> Facade \o <<":", ":", "sqlx">>
    [] token = "sqlx_turso" -> Facade
    [] OTHER                -> <<>>

(* rewrite_sqlx_paths from i on. *)
Rewritten(s) ==
  LET from[i \in 1 .. Len(s) + 3] ==
        CASE i > Len(s) -> <<>>
          [] At(s, i) = ":" /\ At(s, i + 1) = ":" /\ Replacement(At(s, i + 2)) # <<>> ->
               Replacement(At(s, i + 2)) \o from[i + 3]
          [] At(s, i) = ":" /\ At(s, i + 1) = ":" /\ Replacement(At(s, i + 2)) = <<>> ->
               <<":", ":">> \o from[i + 2]
          [] OTHER -> <<s[i]>> \o from[i + 1]
  IN  from[1]

-----------------------------------------------------------------------------
(* What a path stands for: `sqlx` and `sqlx_turso` at its start are the one  *)
(* the facade re-exports and the facade itself; names after it are theirs.   *)
Meant(path) ==
  CASE path[1] = "sqlx"       -> <<"facade">> \o path
    [] path[1] = "sqlx_turso" -> <<"facade">> \o Tail(path)
    [] OTHER                  -> path

Expected ==
  FlattenSeq([i \in DOMAIN pieces |->
    IF pieces[i] \in Paths THEN AbsolutePath(Meant(pieces[i])) ELSE pieces[i]])

(* Every path of the expansion reaches its crate through the facade, the     *)
(* types of columns included (README.md: "checked query output typing" and   *)
(* "optional `chrono`, `time`, `uuid`" are supported).  It does not:         *)
(* `::sqlx_turso::sqlx::types::chrono::NaiveDate` is rewritten twice, and    *)
(* after a field's colon, which is paired with the first of the path, only   *)
(* from its second name on.                                                  *)
PathsReachTheFacade == Rewritten(tokens) = Expected
=============================================================================
