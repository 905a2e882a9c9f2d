------------------------------- MODULE Values -------------------------------
(* How a Rust value gets into a column and out again: the types of value.rs  *)
(* with what they encode to, which declared types they accept and what they  *)
(* decode (type_info.rs), the argument buffer (arguments.rs), the values of  *)
(* a row (executor.rs), the Any backend's conversion (any.rs) and the type   *)
(* the query macros infer from a declaration (macros.rs).                    *)
(*                                                                           *)
(* A cell is a storage class with data.  Data is a number, and for texts and *)
(* blobs also the form the bytes have: parsing and printing are the forms a  *)
(* type reads and writes.  Numbers of temporal data count nanoseconds.  Those*)
(* of a REAL count ticks, a fraction of one so fine that every REAL has a    *)
(* whole number of them; few numbers of ticks are a REAL, so what f64        *)
(* computes is rounded.                                                      *)
EXTENDS Integers, Sequences

CONSTANTS
  Half,            \* 2^(b - 1) of the b bits of i8, i16, i32 and i64, scaled down
  Nanos,           \* nanoseconds in a second, scaled down
  Minute,          \* nanoseconds in a minute, scaled down
  Ticks,           \* ticks of a REAL in a nanosecond
  SecondsPerDay,   \* scaled down
  JulianEpoch,     \* Julian day of 1970-01-01, in ticks
  DayStep,         \* ticks between one f64 and the next, among the days and
  SecondStep,      \* among the seconds since 1970: one step from a power of
                   \* two to the next, so the two are those of some dates
  Calendar,        \* seconds since 1970 that have a date
  Offsets,         \* offsets from UTC, in nanoseconds
  Numbers,         \* numbers a program binds, and others store
  Crates,          \* the optional features that are on
  MaxArgs          \* bound: arguments of a query

IntegerWidths == {"i8", "i16", "i32", "i64"}

ASSUME ValuesAssumption ==
  /\ Half \in [IntegerWidths -> Nat \ {0}]
  /\ 2 * Half.i8 <= Half.i16 /\ 2 * Half.i16 <= Half.i32 /\ 2 * Half.i32 <= Half.i64
  /\ {Nanos, Minute, Ticks, SecondsPerDay, DayStep, SecondStep} \subseteq Nat \ {0}
  /\ JulianEpoch \in Int /\ {Calendar, Offsets, Numbers} \subseteq SUBSET Int
  /\ Crates \subseteq {"chrono", "time", "uuid", "json"}
  /\ MaxArgs \in Nat

-----------------------------------------------------------------------------
(* Declared types (type_info.rs), by the substrings and words looked for.    *)

Names == {"NULL", "INTEGER", "integer", "BIGINT", "BOOLEAN", "BOOL", "TEXT",
          "VARCHAR", "BLOB", "REAL", "DOUBLE", "DATE", "TIME", "DATETIME",
          "TIMESTAMP", "NUMERIC", "FLOATING POINT", "CHARINT"}

IntegerAffinity  == {"INTEGER", "integer", "BIGINT", "FLOATING POINT", "CHARINT"}
BoolAffinity     == {"BOOLEAN", "BOOL"}
TextAffinity     == {"TEXT", "VARCHAR", "CHARINT"}
BlobAffinity     == {"BLOB"}
RealAffinity     == {"REAL", "DOUBLE", "FLOATING POINT"}
DateAffinity     == {"DATE"}
TimeAffinity     == {"TIME"}
DatetimeAffinity == {"DATETIME", "TIMESTAMP"}

-----------------------------------------------------------------------------
(* Cells.                                                                    *)

Data(form, n, off) == [form |-> form, n |-> n, off |-> off]
Number(n) == Data("", n, 0)
Cell(class, data) == [class |-> class, data |-> data]
Null == Cell("null", Number(0))

(* TursoValue::from_turso: the name a value has without a declaration. *)
ClassName == [null |-> "NULL", integer |-> "INTEGER", real |-> "REAL",
              text |-> "TEXT", blob |-> "BLOB"]

(* with_type_info: the declared type wins where there is one. *)
TypeInfo(cell, column) ==
  IF column # "NULL" THEN column ELSE ClassName[cell.class]

Ok(data) == [ok |-> TRUE, data |-> data]
Err == [ok |-> FALSE, data |-> Number(0)]
ReadNull == [ok |-> TRUE, data |-> Data("null", 0, 0)]

-----------------------------------------------------------------------------
(* What decode does with the data of a cell it can read.                     *)

(* i64::try_from and the like: the number fits the target type or it is an   *)
(* error.                                                                    *)
SignedRange(w) == -Half[w] .. Half[w] - 1
UnsignedRange(w) == 0 .. 2 * Half[w] - 1

TryInto(range, n) == IF n \in range THEN Ok(Number(n)) ELSE Err

(* TursoValueRef::real: an INTEGER is converted. *)
Second == Nanos * Ticks
RealOf(cell) ==
  IF cell.class = "integer" THEN Number(cell.data.n * Second) ELSE cell.data

(* `as f32` keeps every other real. *)
Narrow(data) == Data(data.form, data.n - (data.n % 2), 0)

(* chrono's timestamp_opt: a date, and no more nanoseconds than a second has.*)
Timestamp(seconds, nanos) ==
  IF seconds \in Calendar /\ nanos < Nanos THEN Ok(Number(seconds * Nanos + nanos))
  ELSE Err

(* The multiple of `step` that is nearest. *)
Nearest(n, step) == ((n + step \div 2) \div step) * step

(* The seconds since 1970 of a Julian day, as f64 computes them. *)
Since1970(t) ==
  Nearest(Nearest(t - JulianEpoch, DayStep) * SecondsPerDay, SecondStep)

(* Faulty: no carry when the nanoseconds round up to a whole second. *)
JulianNoCarry(t) ==
  LET since == Since1970(t)
  IN  Timestamp(since \div Second, ((since % Second) + Ticks \div 2) \div Ticks)

(* decode_chrono_datetime_from_real. *)
Julian(t) ==
  LET since == Since1970(t)
      nanos == ((since % Second) + Ticks \div 2) \div Ticks
  IN  IF nanos = Nanos THEN Timestamp(since \div Second + 1, 0)
      ELSE Timestamp(since \div Second, nanos)

(* Faulty: the offset is left out. *)
MomentLocal(cell, aware) ==
  CASE cell.class = "text"    -> Ok(Number(cell.data.n))
    [] cell.class = "integer" -> Timestamp(cell.data.n, 0)
    [] cell.class = "real"    ->
         IF cell.data.form = "inf" THEN Err ELSE Julian(cell.data.n)

(* text_or_integer_or_real and what is made of the three: an instant for     *)
(* types with an offset (`aware`), a wall clock for the others.              *)
Moment(cell, aware) ==
  CASE cell.class = "text"    ->
         Ok(Number(IF aware THEN cell.data.n - cell.data.off ELSE cell.data.n))
    [] cell.class = "integer" -> Timestamp(cell.data.n, 0)
    [] cell.class = "real"    ->
         IF cell.data.form = "inf" THEN Err ELSE Julian(cell.data.n)

-----------------------------------------------------------------------------
(* The Rust types.  `info` is Type::type_info, `accepts` Type::compatible,   *)
(* `class`, `whole` and `part` what Encode writes (the form may depend on    *)
(* whether there is a fraction of a second), `reads` the classes and forms   *)
(* Decode reads, `sense` what it makes of them, `range` the integers it can  *)
(* hold.                                                                     *)
Plain(info, accepts, class, sense, reads) ==
  [info |-> info, accepts |-> accepts, class |-> class, whole |-> "", part |-> "",
   sense |-> sense, reads |-> reads, range |-> {}]

Integers(class) == {<<class, "">>}

Signed(w) ==
  [Plain("INTEGER", IntegerAffinity, "integer", "number", Integers("integer"))
     EXCEPT !.range = SignedRange(w)]

(* Only u8, u16 and u32 can be encoded. *)
Unsigned(w) ==
  [Plain("INTEGER", IntegerAffinity, "integer", "number", Integers("integer"))
     EXCEPT !.range = UnsignedRange(w)]

U64 == [Unsigned("i64") EXCEPT !.class = "none"]

Bool == Plain("BOOLEAN", BoolAffinity \cup IntegerAffinity, "integer", "truth",
              Integers("integer"))

Float(sense) ==
  Plain("REAL", RealAffinity, "real", sense, {<<"real", "">>, <<"real", "inf">>, <<"integer", "">>})

TextForms == {"word", "digits", "json", "uuid", "rfc3339", "spaced", "spaced_frac",
              "tee_frac", "date", "clock", "clock_frac", "clock_short"}
BlobForms == {"bytes", "uuid", "json"}

In(class, forms) == {class} \X forms

Str == Plain("TEXT", TextAffinity, "text", "same", In("text", TextForms))

Bytes == Plain("BLOB", BlobAffinity \cup TextAffinity, "blob", "same", In("blob", BlobForms))

Formed(type, whole, part) == [type EXCEPT !.whole = whole, !.part = part]

Uuid == Formed(Plain("BLOB", BlobAffinity \cup TextAffinity, "blob", "number",
                     {<<"blob", "uuid">>, <<"text", "uuid">>}), "uuid", "uuid")

(* uuid::fmt::Hyphenated and Simple. *)
UuidText == Formed(Plain("TEXT", TextAffinity, "text", "number", {<<"text", "uuid">>}),
                   "uuid", "uuid")

Json == Formed(Plain("TEXT", TextAffinity, "text", "number",
                     {<<"text", "json">>, <<"blob", "json">>}), "json", "json")

(* chrono. *)
MomentForms == {"rfc3339", "spaced", "spaced_frac", "tee_frac"}
MomentClasses == {<<"integer", "">>, <<"real", "">>, <<"real", "inf">>}

NaiveDateTime ==
  Formed(Plain("DATETIME", DatetimeAffinity \cup TextAffinity \cup IntegerAffinity \cup RealAffinity,
               "text", "wall", In("text", MomentForms) \cup MomentClasses),
         "spaced", "spaced_frac")

DateTime == [Formed(NaiveDateTime, "rfc3339", "rfc3339") EXCEPT !.sense = "instant"]

NaiveDate ==
  Formed(Plain("DATE", DateAffinity \cup TextAffinity, "text", "number", {<<"text", "date">>}),
         "date", "date")

ClockForms == {"clock", "clock_frac", "clock_short"}

(* Faulty: a fraction is required, though none is written for a whole second.*)
NaiveTimeFrac ==
  Formed(Plain("TIME", TimeAffinity \cup TextAffinity, "text", "number", {<<"text", "clock_frac">>}),
         "clock", "clock_frac")

NaiveTime ==
  Formed(Plain("TIME", TimeAffinity \cup TextAffinity, "text", "number", In("text", ClockForms)),
         "clock", "clock_frac")

(* time.  Its formats always have a fraction, and reading one that has none  *)
(* fails; REAL is not accepted.                                              *)
FracForms == {"spaced_frac", "tee_frac"}

PrimitiveDateTime ==
  Formed(Plain("DATETIME", DatetimeAffinity \cup TextAffinity \cup IntegerAffinity, "text", "wall",
               In("text", FracForms) \cup Integers("integer")), "spaced_frac", "spaced_frac")

OffsetDateTime ==
  [Formed(PrimitiveDateTime, "rfc3339", "rfc3339")
     EXCEPT !.sense = "instant", !.reads = @ \cup {<<"text", "rfc3339">>}]

TimeDate == NaiveDate

TimeTime == [NaiveTime EXCEPT !.whole = "clock_frac"]

Types ==
  [i8 |-> Signed("i8"), i16 |-> Signed("i16"), i32 |-> Signed("i32"), i64 |-> Signed("i64"),
   u8 |-> Unsigned("i8"), u16 |-> Unsigned("i16"), u32 |-> Unsigned("i32"), u64 |-> U64,
   bool |-> Bool, f32 |-> Float("narrow"), f64 |-> Float("float"), String |-> Str,
   Bytes |-> Bytes, Uuid |-> Uuid, UuidText |-> UuidText, Json |-> Json,
   NaiveDateTime |-> NaiveDateTime, DateTime |-> DateTime, NaiveDate |-> NaiveDate,
   NaiveTime |-> NaiveTime, PrimitiveDateTime |-> PrimitiveDateTime,
   OffsetDateTime |-> OffsetDateTime, TimeDate |-> TimeDate, TimeTime |-> TimeTime]

RustTypes == DOMAIN Types

(* to_rfc3339_opts (chrono): the local time keeps its seconds, the offset is *)
(* rounded to whole minutes.                                                 *)
Printed(off) == IF off < 0 THEN -Nearest(-off, Minute) ELSE Nearest(off, Minute)

(* time's Rfc3339 refuses an offset with seconds; and no u64 can be encoded. *)
CanEncode(T, x) ==
  Types[T].class # "none" /\ (T = "OffsetDateTime" => x.off % Minute = 0)

(* Encode: the one cell it pushes. *)
Encode(T, x) ==
  LET type == Types[T]
      form == IF x.n % Nanos = 0 THEN type.whole ELSE type.part
  IN  Cell(type.class,
           CASE type.sense = "instant" -> Data(form, x.n + x.off, Printed(x.off))
             [] type.sense = "same"    -> x
             [] type.sense \in {"float", "narrow"} -> x
             [] OTHER                  -> Data(form, x.n, 0))

(* Decode. *)
Decode(T, cell) ==
  LET type == Types[T]
  IN  IF <<cell.class, cell.data.form>> \notin type.reads THEN Err
      ELSE CASE type.sense = "number" /\ type.range # {} -> TryInto(type.range, cell.data.n)
             [] type.sense = "number" /\ type.range = {} -> Ok(Number(cell.data.n))
             [] type.sense = "truth"   -> Ok(Number(IF cell.data.n # 0 THEN 1 ELSE 0))
             [] type.sense = "float"   -> Ok(RealOf(cell))
             [] type.sense = "narrow"  -> Ok(Narrow(RealOf(cell)))
             [] type.sense = "same"    -> Ok(cell.data)
             [] type.sense = "instant" -> Moment(cell, TRUE)
             [] type.sense = "wall"    -> Moment(cell, FALSE)

(* sqlx_core's Row::try_get::<Option<T>> (external): the declared type is    *)
(* checked before the value is decoded.                                      *)
Get(T, cell, column) ==
  IF cell.class = "null" THEN ReadNull
  ELSE IF TypeInfo(cell, column) \notin Types[T].accepts THEN Err
  ELSE Decode(T, cell)
=============================================================================
