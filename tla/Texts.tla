-------------------------------- MODULE Texts -------------------------------
(* Texts the adapter reads character by character: SQL (inspect_sql) and the *)
(* names of tables and schemas (SqliteIdentifierPath).  A text grows by one  *)
(* unit at a time, so all of them up to a length are read.                   *)
EXTENDS SqlText, Identifiers, Naturals, Sequences, FiniteSets

CONSTANTS
  SqlUnits,     \* pieces of SQL texts
  MaxUnits,     \* bound: their number in a text
  NameChars,    \* characters of names
  MaxChars      \* bound: their number in a name

ASSUME TextsAssumption ==
  {MaxUnits, MaxChars} \subseteq Nat /\ SqlUnits \subseteq Seq(STRING)

VARIABLES
  kind,         \* "sql" or "name"
  text,
  size          \* units in it

TextInit == kind \in {"sql", "name"} /\ text = <<>> /\ size = 0

(* A caller's SQL. *)
WriteSql ==
  /\ kind = "sql" /\ size < MaxUnits
  /\ \E unit \in SqlUnits : text' = text \o unit
  /\ size' = size + 1
  /\ UNCHANGED kind

(* A caller's table or schema name. *)
WriteName ==
  /\ kind = "name" /\ size < MaxChars
  /\ \E c \in NameChars : text' = Append(text, c)
  /\ size' = size + 1
  /\ UNCHANGED kind

TextNext == WriteSql \/ WriteName

TextSpec == TextInit /\ [][TextNext]_<<kind, text, size>>

-----------------------------------------------------------------------------
(* Properties.                                                               *)

(* inspect_sql reads a text as the engine does.  A batch is recognised: no   *)
(* statement after the first is dropped.  What is no batch is not run as one,*)
(* which would lose its rows, unless it begins with two empty statements.    *)
(* And a query has a refused placeholder exactly if it has a variable with a *)
(* name, or a `$` with none, outside literals and comments; only for a text  *)
(* with a `#`, or with a `$` or a letter beyond ASCII right after a name or  *)
(* a mark, nothing is said: there the scan and the engine differ.            *)
SqlReadAsTheEngine ==
  kind = "sql" =>
    LET found == InspectSql(text)
    IN  /\ Several(text) => found.multiple
        /\ found.multiple => Several(text) \/ EmptyFirst(text)
        /\ ~found.multiple /\ ~Unread(text) =>
             ((found.placeholder # None) <=> Named(text) \/ Nameless(text))

(* What is accepted as a name is one or two names, each bare or quoted whole,*)
(* and what of it is written into a statement stays inside the quotes and    *)
(* stands for the same name: nothing else of the text reaches the SQL        *)
(* (SqliteIdentifierPath, insert_migration_row).                             *)
NameStaysQuoted ==
  kind = "name" =>
    LET path  == ParsePath(text)
        shown == ShowPath(path)
    IN  /\ (path # <<>>) <=> IsPath(text)
        /\ (ParseName(text) # <<>>) <=> IsNamePart(text)
        /\ path # <<>> =>
             /\ ParsePath(shown) = path
             /\ Quotes(shown, Len(shown) + 1) % 2 = 0
             /\ \A i \in Outside(shown) : shown[i] = Dot
             /\ Cardinality(Outside(shown)) = Len(path) - 1
=============================================================================
