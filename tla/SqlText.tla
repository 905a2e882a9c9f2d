------------------------------- MODULE SqlText ------------------------------
(* inspect_sql (executor.rs): the scan that tells whether a text may hold    *)
(* several statements, which are then run as a batch without arguments and   *)
(* without rows, and whether it has placeholders that are not positions.     *)
(* A text is a sequence of characters, which are named: "x" is an ASCII      *)
(* letter or `_`, "1" a digit, "quote" ' and "dquote" ", "tick" a backtick, "bracket"  *)
(* [ and "closing" ], "nl" a newline, which stands for all white space, and  *)
(* "wide" a letter that is not ASCII.                                        *)
EXTENDS Naturals, Sequences, FiniteSetsExt

At(s, i) == IF i \in DOMAIN s THEN s[i] ELSE "end"

(* The place after the first j from i on that is one of `stops`. *)
After(s, i, stops) ==
  IF \E j \in stops : j >= i THEN Min({j \in stops : j >= i}) + 1 ELSE Len(s) + 1

Where(s, chars) == {j \in DOMAIN s : s[j] \in chars}

SkipQuoted(s, i, quote) == After(s, i, Where(s, {quote}))

SkipLineComment(s, i) == After(s, i, Where(s, {"nl"}))

(* Faulty: the star of the opening counts for the closing. *)
SkipBlockCommentEarly(s, i) ==
  After(s, i, {j \in Where(s, {"slash"}) : At(s, j - 1) = "star"})

(* `previous` is '\0' at first: the star of the opening does not count. *)
SkipBlockComment(s, i) ==
  After(s, i, {j \in Where(s, {"slash"}) : j > i /\ At(s, j - 1) = "star"})

(* A quote that another one follows does not end the literal. *)
SkipSingleQuoted(s, i) ==
  LET end[j \in 1 .. Len(s) + 1] ==
        LET k == After(s, j, Where(s, {"quote"}))
        IN  IF k > j /\ At(s, k - 1) = "quote" /\ At(s, k) = "quote" THEN end[k + 1] ELSE k
  IN  end[i]

IsName(c) == c \in {"x", "1"}

(* read_placeholder_name: where the name from i on ends. *)
NameEnd(s, i) == After(s, i, {j \in 1 .. Len(s) + 1 : ~IsName(At(s, j))}) - 1

(* str::parse::<usize>, overflow left out. *)
IsNumber(name) == name # <<>> /\ \A i \in DOMAIN name : name[i] = "1"

LineComment(s, i) == At(s, i) = "dash" /\ At(s, i + 1) = "dash"
BlockComment(s, i) == At(s, i) = "slash" /\ At(s, i + 1) = "star"

(* has_remaining_statement_text. *)
HasRemaining(s, i) ==
  LET text[j \in 1 .. Len(s) + 1] ==
        IF j > Len(s) THEN FALSE
        ELSE IF LineComment(s, j) THEN text[SkipLineComment(s, j + 2)]
        ELSE IF BlockComment(s, j) THEN text[SkipBlockComment(s, j + 2)]
        ELSE s[j] \notin {"nl", "semicolon"} \/ text[j + 1]
  IN  text[i]

None == <<>>

(* What the token at i is as a placeholder, None if it is none or is a       *)
(* position.                                                                 *)
Unsupported(s, i) ==
  LET name == SubSeq(s, i + 1, NameEnd(s, i + 1) - 1)
  IN  IF \/ s[i] = "dollar" /\ ~IsNumber(name)
         \/ s[i] \in {"colon", "at"} /\ name # <<>>
      THEN <<s[i]>> \o name ELSE None

(* Where the scan goes on after the token at i. *)
TokenEnd(s, i) ==
  IF s[i] = "quote" THEN SkipSingleQuoted(s, i + 1)
  ELSE IF s[i] \in {"dquote", "tick"} THEN SkipQuoted(s, i + 1, s[i])
  ELSE IF s[i] = "bracket" THEN SkipQuoted(s, i + 1, "closing")
  ELSE IF LineComment(s, i) THEN SkipLineComment(s, i + 2)
  ELSE IF BlockComment(s, i) THEN SkipBlockComment(s, i + 2)
  ELSE IF s[i] \in {"dollar", "colon", "at"} THEN NameEnd(s, i + 1)
  ELSE i + 1

(* Not a comment and no white space: a `;` that ends nothing is itself text. *)
IsText(s, i) == ~(LineComment(s, i) \/ BlockComment(s, i) \/ s[i] = "nl")

(* A round of the loop; the last placeholder is kept. *)
Inspect(s, r) ==
  IF r.multiple \/ r.at > Len(s) THEN r
  ELSE IF s[r.at] = "semicolon" /\ r.saw /\ HasRemaining(s, r.at + 1)
  THEN [r EXCEPT !.multiple = TRUE]
  ELSE [at          |-> TokenEnd(s, r.at),
        saw         |-> r.saw \/ IsText(s, r.at),
        multiple    |-> FALSE,
        placeholder |-> LET found == Unsupported(s, r.at)
                        IN  IF found = None THEN r.placeholder ELSE found]

InspectSql(s) ==
  LET inspection[k \in 0 .. Len(s)] ==
        IF k = 0 THEN [at |-> 1, saw |-> FALSE, multiple |-> FALSE, placeholder |-> None]
        ELSE Inspect(s, inspection[k - 1])
  IN  inspection[Len(s)]

-----------------------------------------------------------------------------
(* The reference: what the engine's tokenizer (external) makes of every      *)
(* character.  "open" is the second character of an opening comment, and a   *)
(* "starred" one follows a star inside the comment.                          *)
Quotings == {"quote", "dquote", "tick", "closing"}

NextMode(s, k, mode) ==
  IF mode = "code"
  THEN IF BlockComment(s, k) THEN "open"
       ELSE IF LineComment(s, k) THEN "line"
       ELSE IF s[k] \in {"quote", "dquote", "tick"} THEN s[k]
       ELSE IF s[k] = "bracket" THEN "closing" ELSE "code"
  ELSE IF mode \in Quotings THEN IF s[k] = mode THEN "code" ELSE mode
  ELSE IF mode = "line" THEN IF s[k] = "nl" THEN "code" ELSE "line"
  ELSE IF mode = "open" THEN "block"
  ELSE IF s[k] = "star" THEN "starred"
  ELSE IF mode = "starred" /\ s[k] = "slash" THEN "code" ELSE "block"

Modes(s) ==
  LET mode[k \in 1 .. Len(s)] ==
        IF k = 1 THEN "code" ELSE NextMode(s, k - 1, mode[k - 1])
  IN  mode

Code(s) == {i \in DOMAIN s : Modes(s)[i] = "code" /\ ~LineComment(s, i) /\ ~BlockComment(s, i)}
Ends(s) == {i \in Code(s) : s[i] = "semicolon"}
Words(s) ==
  {i \in Code(s) : s[i] \notin {"semicolon", "nl"}}
    \cup {i \in DOMAIN s : Modes(s)[i] \in Quotings}

(* Words on both sides of an end: the engine finds several statements. *)
Several(s) ==
  LET ends == Ends(s) words == Words(s)
  IN  \E i \in words, j \in ends, k \in words : i < j /\ j < k

(* Two ends before the first word. *)
EmptyFirst(s) ==
  LET ends == Ends(s) words == Words(s)
  IN  \E i, j \in ends : i < j /\ (\E k \in words : j < k) /\ \A k \in words : j < k

(* Names: the engine's go on with `$` and with letters beyond ASCII, "wide". *)
Marks == {"dollar", "colon", "at", "hash"}
InNames(c) == IsName(c) \/ c \in {"dollar", "wide"}

Follows(s, i) == InNames(At(s, i - 1)) \/ At(s, i - 1) \in Marks

(* A mark begins a variable, a `$` within a name does not.                   *)
Begins(s, i) == s[i] \in Marks /\ ~(s[i] = "dollar" /\ Follows(s, i))

(* A variable with a name that is no position stands somewhere in the code.  *)
Named(s) ==
  \E i \in Code(s) :
    LET name == {j \in DOMAIN s : j > i /\ \A k \in i + 1 .. j : InNames(s[k])}
    IN  /\ Begins(s, i) /\ name # {}
        /\ s[i] = "dollar" => \E j \in name : s[j] # "1"

(* A `$` alone, which the engine refuses. *)
Nameless(s) ==
  \E i \in Code(s) : s[i] = "dollar" /\ Begins(s, i) /\ ~InNames(At(s, i + 1))

(* What the scan does not know of names: that `#` begins one, and what they  *)
(* go on with.  It refuses x$x, an identifier, and misses #x and :$1.        *)
Unread(s) ==
  \E i \in Code(s) :
    s[i] = "hash" \/ (s[i] \in {"dollar", "wide"} /\ Follows(s, i))
=============================================================================
