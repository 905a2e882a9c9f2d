----------------------------- MODULE Identifiers ----------------------------
(* SqliteIdentifier and SqliteIdentifierPath (migrate.rs): the names of the  *)
(* migrations table and of schemas are parsed, and written into SQL quoted.  *)
(* A text is a sequence of characters; "x" is a letter or `_`, "1" a digit,  *)
(* ";" anything else.                                                        *)
EXTENDS Naturals, Sequences, FiniteSets, FiniteSetsExt, SequencesExt

Quote == "\""
Dot == "."

Char(s, i) == IF i \in DOMAIN s THEN s[i] ELSE "end"

Invalid == [ok |-> FALSE, id |-> <<>>, at |-> 0]
Parsed(id, at) == [ok |-> TRUE, id |-> id, at |-> at]

(* parse_bare_prefix. *)
ParseBare(s, i) ==
  IF Char(s, i) # "x" THEN Invalid
  ELSE LET end == Min({j \in i .. Len(s) + 1 : Char(s, j) \notin {"x", "1"}})
       IN  Parsed(SubSeq(s, i, end - 1), end)

(* parse_quoted_prefix: a doubled quote stands for one; a name is not empty. *)
(* A round of the loop reads the name on, while it is open.                  *)
ReadQuoted(s, r) ==
  IF ~r.open \/ r.at > Len(s) THEN r
  ELSE IF s[r.at] # Quote THEN [r EXCEPT !.id = Append(@, s[r.at]), !.at = @ + 1]
  ELSE IF Char(s, r.at + 1) = Quote THEN [r EXCEPT !.id = Append(@, Quote), !.at = @ + 2]
  ELSE [r EXCEPT !.at = @ + 1, !.open = FALSE]

ParseQuoted(s, i) ==
  LET read[k \in 0 .. Len(s)] ==
        IF k = 0 THEN [id |-> <<>>, at |-> i, open |-> TRUE] ELSE ReadQuoted(s, read[k - 1])
      end == read[Len(s)]
  IN  IF end.open \/ end.id = <<>> THEN Invalid ELSE Parsed(end.id, end.at)

(* parse_prefix. *)
ParsePrefix(s, i) == IF Char(s, i) = Quote THEN ParseQuoted(s, i + 1) ELSE ParseBare(s, i)

(* SqliteIdentifierPath::parse: one name, or two with a dot between them;    *)
(* <<>> is the error.                                                        *)
ParsePath(s) ==
  LET first  == ParsePrefix(s, 1)
      second == ParsePrefix(s, first.at + 1)
  IN  IF ~first.ok THEN <<>>
      ELSE IF first.at = Len(s) + 1 THEN <<first.id>>
      ELSE IF s[first.at] = Dot /\ second.ok /\ second.at = Len(s) + 1
      THEN <<first.id, second.id>> ELSE <<>>

(* SqliteIdentifier::parse. *)
ParseName(s) ==
  LET name == ParsePrefix(s, 1) IN IF name.ok /\ name.at = Len(s) + 1 THEN <<name.id>> ELSE <<>>

(* Faulty: quotes are not doubled. *)
EscapedPlain(id) == id

Escaped(id) == FlattenSeq([i \in DOMAIN id |-> IF id[i] = Quote THEN <<Quote, Quote>> ELSE <<id[i]>>])

(* Display. *)
ShowName(id) == <<Quote>> \o Escaped(id) \o <<Quote>>

ShowPath(path) ==
  ShowName(path[1]) \o IF Len(path) = 2 THEN <<Dot>> \o ShowName(path[2]) ELSE <<>>

-----------------------------------------------------------------------------
(* The reference: quotes before a character, and so whether it is quoted.    *)
Quotes(s, i) == Cardinality({j \in 1 .. i - 1 : s[j] = Quote})
Outside(s) == {i \in DOMAIN s : s[i] # Quote /\ Quotes(s, i) % 2 = 0}

(* A bare name, or a quoted one: every quote inside is one of a pair.        *)
IsNamePart(s) ==
  \/ s # <<>> /\ s[1] = "x" /\ \A i \in DOMAIN s : s[i] \in {"x", "1"}
  \/ /\ Len(s) > 2 /\ s[1] = Quote /\ s[Len(s)] = Quote /\ Quotes(s, Len(s) + 1) % 2 = 0
     /\ Outside(s) = {}

IsPath(s) ==
  \/ IsNamePart(s)
  \/ \E i \in DOMAIN s :
       s[i] = Dot /\ IsNamePart(SubSeq(s, 1, i - 1)) /\ IsNamePart(SubSeq(s, i + 1, Len(s)))
=============================================================================
