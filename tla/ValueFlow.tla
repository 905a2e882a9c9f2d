------------------------------ MODULE ValueFlow -----------------------------
(* A value on its way: bound to a query (arguments.rs), stored in a column   *)
(* by the engine, and read back typed, through the Any backend (any.rs), or  *)
(* as the type the query macros infer (macros.rs).  Columns also hold what   *)
(* other programs stored, since the engine lets any class into any column.   *)
EXTENDS Values

VARIABLES
  args,          \* TursoArguments: the cells bound so far
  given,         \* the Rust types and values that were bound
  result,        \* what the last bind returned
  column,        \* declared type of the column that was written
  cell,          \* what the column holds
  source         \* the Rust type and value it was written from

vars == <<args, given, result, column, cell, source>>

Nobody == <<"", Number(0)>>

Init ==
  /\ args = <<>> /\ given = <<>> /\ result = "ok"
  /\ column = "" /\ cell = Null /\ source = Nobody

-----------------------------------------------------------------------------
(* The values of a Rust type that a program may bind.                        *)

Domain(T) ==
  LET type == Types[T]
  IN  CASE type.range # {}      -> {Number(n) : n \in Numbers \cap type.range}
        [] type.sense = "truth"  -> {Number(0), Number(1)}
        [] type.sense = "float"  -> {Number(n) : n \in Numbers} \cup {Data("inf", 0, 0)}
        [] type.sense = "narrow" -> {Number(n) : n \in {m \in Numbers : m % 2 = 0}} \cup {Data("inf", 0, 0)}
        [] T = "String"          -> {Data(form, n, 0) : form \in TextForms, n \in Numbers}
        [] T = "Bytes"           -> {Data(form, n, 0) : form \in BlobForms, n \in Numbers}
        [] type.sense = "instant" -> {Data("", n, off) : n \in Numbers, off \in Offsets}
        [] OTHER                 -> {Number(n) : n \in Numbers}

(* Faulty: what a failing encoder pushed stays in the buffer. *)
KeepAll(buffer, len) == buffer

(* Vec::truncate. *)
Truncate(buffer, len) == SubSeq(buffer, 1, len)

Add(T, x) ==
  /\ column = "" /\ Len(args) < MaxArgs
  /\ CanEncode(T, x)
  /\ args' = Append(args, Encode(T, x))
  /\ given' = Append(given, <<T, x>>)
  /\ result' = "ok"
  /\ UNCHANGED <<column, cell, source>>

(* None of an Option: encode pushes nothing and says IsNull::Yes. *)
AddNull(T) ==
  /\ column = "" /\ Len(args) < MaxArgs
  /\ args' = Append(args, Null)
  /\ given' = Append(given, <<T, Data("null", 0, 0)>>)
  /\ result' = "ok"
  /\ UNCHANGED <<column, cell, source>>

(* An encoder fails, perhaps after it pushed something. *)
AddFails ==
  /\ column = ""
  /\ \E pushed \in {<<>>, <<Null>>} : args' = Truncate(args \o pushed, Len(args))
  /\ result' = "error"
  /\ UNCHANGED <<given, column, cell, source>>

-----------------------------------------------------------------------------
(* The engine stores a value in a column (external: SQLite's type affinity). *)

Affinity(name) ==
  CASE name \in IntegerAffinity      -> "integer"
    [] name \in {"TEXT", "VARCHAR"}  -> "text"
    [] name \in {"BLOB", "NULL"}     -> "blob"
    [] name \in {"REAL", "DOUBLE"}   -> "real"
    [] OTHER                         -> "numeric"

IsDigits(c) == c.class = "text" /\ c.data.form = "digits"
IsWhole(c) ==
  /\ c.class = "real" /\ c.data.form = ""
  /\ c.data.n % Second = 0
  /\ c.data.n \div Second \in SignedRange("i64")

Stored(c, name) ==
  LET affinity == Affinity(name)
  IN  CASE affinity \in {"integer", "numeric"} /\ IsDigits(c) ->
             Cell("integer", Number(c.data.n))
        [] affinity \in {"integer", "numeric"} /\ IsWhole(c) ->
             Cell("integer", Number(c.data.n \div Second))
        [] affinity = "real" /\ (IsDigits(c) \/ c.class = "integer") ->
             Cell("real", Number(c.data.n * Second))
        [] affinity = "text" /\ c.class = "integer" -> Cell("text", Data("digits", c.data.n, 0))
        [] affinity = "text" /\ c.class = "real"    -> Cell("text", Data("word", c.data.n, 0))
        [] OTHER -> c

(* The query runs and consumes its arguments. *)
Insert(i, name) ==
  /\ column = "" /\ i \in DOMAIN args
  /\ column' = name
  /\ cell' = Stored(args[i], name)
  /\ source' = given[i]
  /\ args' = <<>> /\ given' = <<>> /\ result' = "ok"

(* Another program wrote the column. *)
ForeignCells ==
  {Cell("integer", Number(n)) : n \in Numbers \cap SignedRange("i64")}
    \cup {Cell("real", Number(n)) : n \in Numbers}
    \cup {Cell("real", Data("inf", 0, 0))}
    \cup {Cell("text", Data(form, n, 0)) : form \in TextForms, n \in Numbers}
    \cup {Cell("text", Data("rfc3339", n, off)) :
           n \in Numbers, off \in {o \in Offsets : o % Minute = 0}}
    \cup {Cell("blob", Data(form, n, 0)) : form \in BlobForms, n \in Numbers}

Foreign(c, name) ==
  /\ column = "" /\ args = <<>>
  /\ column' = name
  /\ cell' = Stored(c, name)
  /\ source' = Nobody
  /\ UNCHANGED <<args, given, result>>

(* The next row. *)
Forget == column # "" /\ column' = "" /\ cell' = Null /\ source' = Nobody
          /\ UNCHANGED <<args, given, result>>

Next ==
  \/ \E T \in RustTypes : AddNull(T) \/ \E x \in Domain(T) : Add(T, x)
  \/ AddFails
  \/ \E i \in 1 .. MaxArgs, name \in Names : Insert(i, name)
  \/ \E c \in ForeignCells, name \in Names : Foreign(c, name)
  \/ Forget

Spec == Init /\ [][Next]_vars

-----------------------------------------------------------------------------
(* any.rs: any_type_info_kind, and sqlx_core's AnyRow::map_from (external),  *)
(* which decodes every column of the row by the kind of its value.           *)

AnyKind(info) ==
  CASE info = "NULL"             -> "Null"
    [] info \in BoolAffinity     -> "bool"
    [] info \in IntegerAffinity  -> "i64"
    [] info \in RealAffinity \ IntegerAffinity -> "f64"
    [] info \in BlobAffinity     -> "Bytes"
    [] OTHER                     -> "String"

AnyGet(c, name) ==
  IF c.class = "null" THEN ReadNull ELSE Decode(AnyKind(TypeInfo(c, name)), c)

-----------------------------------------------------------------------------
(* macros.rs: the Rust type inferred from a declared type, or the name of    *)
(* the error.  `dates` and `numbers` are the preferred crates.               *)

(* chrono_type_path and time_type_path; "" if they know no type. *)
DatePath(crate, info) ==
  IF crate \notin Crates THEN "" ELSE
  CASE info \in DateAffinity     -> IF crate = "time" THEN "TimeDate" ELSE "NaiveDate"
    [] info \in DatetimeAffinity -> IF crate = "time" THEN "PrimitiveDateTime" ELSE "NaiveDateTime"
    [] OTHER                     -> ""

(* A preferred crate that knows no type for it is an error. *)
DatetimePath(dates, info) ==
  IF dates = "inferred"
  THEN IF DatePath("time", info) # "" THEN DatePath("time", info) ELSE DatePath("chrono", info)
  ELSE IF DatePath(dates, info) # "" THEN DatePath(dates, info)
  ELSE "DateTimeCrateFeatureNotEnabled"

(* Faulty: every numeric declaration is taken for a floating type. *)
TypePathFloat(info, dates, numbers) ==
  IF numbers # "inferred" THEN "NumericCrateFeatureNotEnabled"
  ELSE IF DatetimePath(dates, info) # "" THEN DatetimePath(dates, info)
  ELSE IF info = Types.bool.info THEN "bool"
  ELSE IF info \in Types.i64.accepts \cup Types.f64.accepts THEN "f64"
  ELSE IF info \in Types.String.accepts THEN "String"
  ELSE IF info \in Types.Bytes.accepts THEN "Bytes"
  ELSE "NoMappingFound"

TypePath(info, dates, numbers) ==
  IF numbers # "inferred" THEN "NumericCrateFeatureNotEnabled"
  ELSE IF DatetimePath(dates, info) # "" THEN DatetimePath(dates, info)
  ELSE IF info = Types.bool.info THEN "bool"
  ELSE IF info = Types.i32.info THEN "i32"
  ELSE IF info \in Types.i64.accepts THEN "i64"
  ELSE IF info \in Types.f64.accepts THEN "f64"
  ELSE IF info \in Types.String.accepts THEN "String"
  ELSE IF info \in Types.Bytes.accepts THEN "Bytes"
  ELSE "NoMappingFound"

-----------------------------------------------------------------------------
(* Properties.                                                               *)

Same(x, y) == x.form = y.form /\ x.n = y.n

(* y is x, or was printed with an offset that lost its seconds. *)
ReadBack(y, x) ==
  \/ Same(y, x)
  \/ y.form = x.form /\ x.off % Minute # 0 /\ 2 * (y.n - x.n) \in -Minute .. Minute

Written == source # Nobody

(* Type correctness. *)
TypeOK ==
  /\ Len(args) <= MaxArgs /\ Len(given) <= MaxArgs
  /\ result \in {"ok", "error"}
  /\ column \in Names \cup {""}
  /\ cell.class \in DOMAIN ClassName
  /\ Written => source[1] \in RustTypes

(* A failing encoder leaves no trace: the arguments are exactly the values   *)
(* that were bound, in order, so every `?n` means what the program bound     *)
(* n-th (TursoArguments::add).                                               *)
ArgumentsAreTheBound ==
  /\ Len(args) = Len(given)
  /\ \A i \in DOMAIN args :
       args[i] = IF given[i][2].form = "null" THEN Null ELSE Encode(given[i][1], given[i][2])

(* A value written to a column declared as its own type is read back, NULL   *)
(* as NULL, whatever the engine's affinity did to it.  A row read through    *)
(* Any, which decodes every column whether it is asked for or not, does not  *)
(* fail for it, and a value of one of Any's own types comes back unchanged.  *)
(* Only an instant whose offset has seconds comes back as one up to half a   *)
(* minute away: chrono prints offsets in minutes (value.rs, DateTime).       *)
RoundTrip ==
  Written /\ column = Types[source[1]].info =>
    LET got == Get(source[1], cell, column)
        any == AnyGet(cell, column)
    IN  /\ got.ok /\ ReadBack(got.data, source[2])
        /\ any.ok
        /\ source[1] = AnyKind(column) => Same(any.data, source[2])

(* In a column of any declaration the type that wrote the value reads the    *)
(* same value or an error: conversions of the engine never go unnoticed.  An *)
(* instant whose offset has seconds is excepted as above.                    *)
NeverSilentlyChanged ==
  Written => LET got == Get(source[1], cell, column)
             IN  got.ok => ReadBack(got.data, source[2])

(* What another program stored is never misread: no integer type reads a     *)
(* number other than the stored one, what does not fit is an error           *)
(* (try_into; test checked_unsigned_decode_rejects_negative_values), and     *)
(* every finite REAL inside the calendar is read as the Julian day it is, no *)
(* further away than half a nanosecond and half a step of each f64 on the    *)
(* way: no second is lost or won where the fraction is rounded, also before  *)
(* 1970 (decode_chrono_datetime_from_real; test                              *)
(* decodes_negative_fractional_julian_day_timestamp).                        *)
NumbersKept ==
  /\ cell.class = "integer" =>
       \A T \in RustTypes : Types[T].range # {} /\ Decode(T, cell).ok =>
         Decode(T, cell).data.n = cell.data.n
  /\ cell.class = "real" /\ cell.data.form = "" =>
       LET exact == (cell.data.n - JulianEpoch) * SecondsPerDay
           second == Since1970(cell.data.n) \div Second
           bound == Ticks + SecondStep + SecondsPerDay * DayStep
           got   == Decode("DateTime", cell)
       IN  {second, second + 1} \subseteq Calendar =>
             /\ got.ok
             /\ 2 * (got.data.n * Ticks - exact) \in -bound .. bound

(* The type the macros infer for a column accepts the column and reads back  *)
(* what is written as that type, for all preferences.                        *)
InferredTypeReadsBack ==
  \A dates \in {"inferred", "chrono", "time"} :
    LET T == TypePath(column, dates, "inferred")
    IN  Written /\ T \in RustTypes /\ source[1] = T =>
          LET got == Get(T, cell, column) IN got.ok /\ Same(got.data, source[2])
=============================================================================
