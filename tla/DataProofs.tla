----------------------------- MODULE DataProofs ----------------------------
(* Machine-checked proofs about the data that pass through the adapter.      *)
(* First: values survive the way from a Rust variable to a column and back,  *)
(* for all numbers and dates, widths of integers, lengths of a second and    *)
(* precisions of a REAL.  Then: names of any length stay inside the quotes   *)
(* in which they are written into SQL.  Last: SQL texts of any length are    *)
(* read as the engine reads them.                                            *)
EXTENDS ValueFlow, Texts, FiniteSetTheorems, SequenceTheorems, WellFoundedInduction, TLAPS

-----------------------------------------------------------------------------
(* The fields of the Rust types.                                             *)

IntegerTypes == {"i8", "i16", "i32", "i64", "u8", "u16", "u32", "u64"}
FormedTypes == {"Uuid", "UuidText", "Json", "NaiveDateTime", "DateTime", "NaiveDate", "NaiveTime",
                "PrimitiveDateTime", "OffsetDateTime", "TimeDate", "TimeTime"}

LEMMA TypesAre ==
  /\ RustTypes = IntegerTypes \cup FormedTypes \cup {"bool", "f32", "f64", "String", "Bytes"}
  /\ Types.i8 = Signed("i8") /\ Types.i16 = Signed("i16")
  /\ Types.i32 = Signed("i32") /\ Types.i64 = Signed("i64")
  /\ Types.u8 = Unsigned("i8") /\ Types.u16 = Unsigned("i16")
  /\ Types.u32 = Unsigned("i32") /\ Types.u64 = U64
  /\ Types.bool = Bool /\ Types.f32 = Float("narrow") /\ Types.f64 = Float("float")
  /\ Types.String = Str /\ Types.Bytes = Bytes
  /\ Types.Uuid = Uuid /\ Types.UuidText = UuidText /\ Types.Json = Json
  /\ Types.NaiveDateTime = NaiveDateTime /\ Types.DateTime = DateTime
  /\ Types.NaiveDate = NaiveDate /\ Types.NaiveTime = NaiveTime
  /\ Types.PrimitiveDateTime = PrimitiveDateTime /\ Types.OffsetDateTime = OffsetDateTime
  /\ Types.TimeDate = TimeDate /\ Types.TimeTime = TimeTime
BY DEF Types, RustTypes, IntegerTypes, FormedTypes

(* A type with these fields. *)
Has(t, info, accepts, class, whole, part, sense, reads) ==
  /\ t.info = info /\ t.accepts = accepts /\ t.class = class
  /\ t.whole = whole /\ t.part = part /\ t.sense = sense /\ t.reads = reads

LEMMA IntegerFields ==
  ASSUME NEW T \in IntegerTypes
  PROVE  /\ Types[T].info = "INTEGER" /\ Types[T].accepts = IntegerAffinity
         /\ Types[T].reads = {<<"integer", "">>} /\ Types[T].sense = "number"
         /\ Types[T].whole = "" /\ Types[T].part = ""
         /\ Types[T].range # {} /\ Types[T].range \subseteq Int
         /\ Types[T].class \in {"integer", "none"}
         /\ T # "u64" => Types[T].class = "integer" /\ Types[T].range \subseteq SignedRange("i64")
         /\ T = "u64" => Types[T].class = "none"
         /\ T = "i64" => Types[T].range = SignedRange("i64")
<1>1. /\ \A w \in IntegerWidths : Half[w] \in Nat \ {0} /\ Half[w] <= Half["i64"]
      /\ \A w \in IntegerWidths \ {"i64"} : 2 * Half[w] <= Half["i64"]
  <2>1. /\ Half["i8"] \in Nat \ {0} /\ Half["i16"] \in Nat \ {0}
        /\ Half["i32"] \in Nat \ {0} /\ Half["i64"] \in Nat \ {0}
    BY ValuesAssumption DEF IntegerWidths
  <2>2. /\ 2 * Half["i8"] <= Half["i16"] /\ 2 * Half["i16"] <= Half["i32"]
        /\ 2 * Half["i32"] <= Half["i64"]
    BY ValuesAssumption
  <2> QED BY <2>1, <2>2 DEF IntegerWidths
<1>2. \A w \in IntegerWidths :
        /\ SignedRange(w) # {} /\ SignedRange(w) \subseteq SignedRange("i64")
        /\ UnsignedRange(w) # {} /\ UnsignedRange(w) \subseteq Int
        /\ SignedRange(w) \subseteq Int
        /\ w # "i64" => UnsignedRange(w) \subseteq SignedRange("i64")
  <2> SUFFICES ASSUME NEW w \in IntegerWidths
               PROVE  /\ SignedRange(w) # {} /\ SignedRange(w) \subseteq SignedRange("i64")
                      /\ UnsignedRange(w) # {} /\ UnsignedRange(w) \subseteq Int
                      /\ SignedRange(w) \subseteq Int
                      /\ w # "i64" => UnsignedRange(w) \subseteq SignedRange("i64")
    OBVIOUS
  <2>1. Half[w] \in Nat \ {0} /\ Half["i64"] \in Nat \ {0} /\ Half[w] <= Half["i64"]
    BY <1>1 DEF IntegerWidths
  <2>2. w # "i64" => 2 * Half[w] <= Half["i64"]
    BY <1>1
  <2>3. 0 \in SignedRange(w) /\ 0 \in UnsignedRange(w)
    BY <2>1 DEF SignedRange, UnsignedRange
  <2> QED BY <2>1, <2>2, <2>3 DEF SignedRange, UnsignedRange
<1>3. {"i8", "i16", "i32", "i64"} = IntegerWidths
  BY DEF IntegerWidths
<1>4. ASSUME NEW w
      PROVE  /\ Has(Signed(w), "INTEGER", IntegerAffinity, "integer", "", "", "number", {<<"integer", "">>})
             /\ Signed(w).range = SignedRange(w)
             /\ Has(Unsigned(w), "INTEGER", IntegerAffinity, "integer", "", "", "number", {<<"integer", "">>})
             /\ Unsigned(w).range = UnsignedRange(w)
  BY DEF Signed, Unsigned, Plain, Integers, Has
<1>5. /\ Has(U64, "INTEGER", IntegerAffinity, "none", "", "", "number", {<<"integer", "">>})
      /\ U64.range = UnsignedRange("i64")
  BY DEF U64, Unsigned, Plain, Integers, Has
<1>6. CASE T \in {"i8", "i16", "i32", "i64"}
  <2>1. Types[T] = Signed(T)
    BY <1>6, TypesAre
  <2>2. T \in IntegerWidths /\ Types[T].range = SignedRange(T)
    BY <1>3, <1>4, <1>6, <2>1
  <2>3. Has(Types[T], "INTEGER", IntegerAffinity, "integer", "", "", "number", {<<"integer", "">>})
    BY <1>4, <2>1, <2>2
  <2>4. /\ SignedRange(T) # {} /\ SignedRange(T) \subseteq Int
        /\ SignedRange(T) \subseteq SignedRange("i64")
    BY <1>2, <2>2
  <2> QED BY <1>6, <2>2, <2>3, <2>4 DEF Has
<1>7. CASE T \in {"u8", "u16", "u32"}
  <2>1. PICK w \in IntegerWidths \ {"i64"} : Types[T] = Unsigned(w)
    BY <1>3, <1>7, TypesAre
  <2>2. w \in IntegerWidths /\ w # "i64" /\ Types[T].range = UnsignedRange(w)
    BY <1>4, <2>1
  <2>3. Has(Types[T], "INTEGER", IntegerAffinity, "integer", "", "", "number", {<<"integer", "">>})
    BY <1>4, <2>1, <2>2
  <2>4. /\ UnsignedRange(w) # {} /\ UnsignedRange(w) \subseteq Int
        /\ UnsignedRange(w) \subseteq SignedRange("i64")
    BY <1>2, <2>2
  <2> QED BY <1>7, <2>2, <2>3, <2>4 DEF Has
<1>8. CASE T = "u64"
  <2>1. Types[T] = U64
    BY <1>8, TypesAre
  <2> QED BY <1>2, <1>3, <1>5, <1>8, <2>1 DEF Has
<1> QED BY <1>6, <1>7, <1>8 DEF IntegerTypes

(* The class an integer type is stored as.                                   *)
LEMMA IntegerClass ==
  ASSUME NEW T \in IntegerTypes, T # "u64"
  PROVE  Types[T].class = "integer"
<1>1. T # "u64" => Types[T].class = "integer" /\ Types[T].range \subseteq SignedRange("i64")
  BY IntegerFields
<1> QED BY <1>1, Zenon

(* The storage an integer type is declared with.                             *)
LEMMA IntegerDeclared ==
  ASSUME NEW T \in IntegerTypes
  PROVE  Types[T].info = "INTEGER" /\ Types[T].accepts = IntegerAffinity
BY IntegerFields

(* The range of an integer type.                                             *)
LEMMA IntegerRange ==
  ASSUME NEW T \in IntegerTypes, T # "u64"
  PROVE  Types[T].range \subseteq SignedRange("i64")
BY IntegerFields

(* The range that an INTEGER cell has.                                       *)
LEMMA WidestRange == Types["i64"].range = SignedRange("i64") /\ "i64" \in IntegerTypes
<1>1. "i64" \in IntegerTypes
  BY DEF IntegerTypes
<1>2. \A T \in IntegerTypes : T = "i64" => Types[T].range = SignedRange("i64")
  BY IntegerFields
<1> QED BY <1>1, <1>2, Zenon

LEMMA OtherFields ==
  /\ Has(Types["bool"], "BOOLEAN", BoolAffinity \cup IntegerAffinity, "integer", "", "", "truth",
         {<<"integer", "">>})
  /\ Has(Types["f32"], "REAL", RealAffinity, "real", "", "", "narrow",
         {<<"real", "">>, <<"real", "inf">>, <<"integer", "">>})
  /\ Has(Types["f64"], "REAL", RealAffinity, "real", "", "", "float",
         {<<"real", "">>, <<"real", "inf">>, <<"integer", "">>})
  /\ Has(Types["String"], "TEXT", TextAffinity, "text", "", "", "same", In("text", TextForms))
  /\ Has(Types["Bytes"], "BLOB", BlobAffinity \cup TextAffinity, "blob", "", "", "same",
         In("blob", BlobForms))
  /\ \A T \in {"bool", "f32", "f64", "String", "Bytes"} : Types[T].range = {}
<1>1. /\ Has(Bool, "BOOLEAN", BoolAffinity \cup IntegerAffinity, "integer", "", "", "truth",
             {<<"integer", "">>})
      /\ Bool.range = {}
  BY DEF Has, Bool, Plain, Integers
<1>2. ASSUME NEW sense
      PROVE  /\ Has(Float(sense), "REAL", RealAffinity, "real", "", "", sense,
                    {<<"real", "">>, <<"real", "inf">>, <<"integer", "">>})
             /\ Float(sense).range = {}
  BY DEF Has, Float, Plain
<1>3. /\ Has(Str, "TEXT", TextAffinity, "text", "", "", "same", In("text", TextForms))
      /\ Str.range = {}
  BY DEF Has, Str, Plain
<1>4. /\ Has(Bytes, "BLOB", BlobAffinity \cup TextAffinity, "blob", "", "", "same",
             In("blob", BlobForms))
      /\ Bytes.range = {}
  BY DEF Has, Bytes, Plain
<1> QED BY <1>1, <1>2, <1>3, <1>4, TypesAre

(* Texts and blobs that have the form of a type. *)
Formatted(t) ==
  /\ t.range = {} /\ t.sense \in {"number", "wall", "instant"}
  /\ t.class \in {"text", "blob"}
  /\ {<<t.class, t.whole>>, <<t.class, t.part>>} \subseteq t.reads
  /\ t.sense \in {"wall", "instant"} => t.class = "text"
  /\ t.class = "text" => {t.whole, t.part} \subseteq TextForms \ {"digits"}
  /\ t.class = "blob" => {t.whole, t.part} \subseteq BlobForms
  /\ t.info \in t.accepts
  /\ t.info \in IF t.class = "blob" THEN {"BLOB"} ELSE {"TEXT", "DATETIME", "DATE", "TIME"}

LEMMA FormedFields ==
  /\ \A T \in FormedTypes : Formatted(Types[T])
  /\ Types["TimeDate"].accepts = DateAffinity \cup TextAffinity
  /\ Types["NaiveDate"].accepts = DateAffinity \cup TextAffinity
  /\ DatetimeAffinity \subseteq Types["PrimitiveDateTime"].accepts
  /\ DatetimeAffinity \subseteq Types["NaiveDateTime"].accepts
<1>1. Formatted(Uuid) /\ Formatted(UuidText) /\ Formatted(Json)
  BY DEF Formatted, Uuid, UuidText, Json, Formed, Plain, TextForms, BlobForms, TextAffinity,
         BlobAffinity
<1>2. Formatted(NaiveDateTime) /\ DatetimeAffinity \subseteq NaiveDateTime.accepts
  BY DEF Formatted, NaiveDateTime, Formed, Plain, In, MomentForms, MomentClasses, TextForms,
         DatetimeAffinity
<1>3. Formatted(DateTime)
  BY DEF Formatted, DateTime, NaiveDateTime, Formed, Plain, In, MomentForms, MomentClasses,
         TextForms, DatetimeAffinity
<1>4. Formatted(NaiveDate) /\ NaiveDate.accepts = DateAffinity \cup TextAffinity
  BY DEF Formatted, NaiveDate, Formed, Plain, TextForms, DateAffinity
<1>5. Formatted(NaiveTime)
  BY DEF Formatted, NaiveTime, Formed, Plain, In, ClockForms, TextForms, TimeAffinity
<1>6. Formatted(TimeTime)
  BY DEF Formatted, TimeTime, NaiveTime, Formed, Plain, In, ClockForms, TextForms, TimeAffinity
<1>7. Formatted(PrimitiveDateTime) /\ DatetimeAffinity \subseteq PrimitiveDateTime.accepts
  BY DEF Formatted, PrimitiveDateTime, Formed, Plain, In, FracForms, TextForms, DatetimeAffinity
<1>8. Formatted(OffsetDateTime)
  BY DEF Formatted, OffsetDateTime, PrimitiveDateTime, Formed, Plain, In, FracForms, TextForms,
         DatetimeAffinity
<1> QED
  BY <1>1, <1>2, <1>3, <1>4, <1>5, <1>6, <1>7, <1>8, TypesAre DEF FormedTypes, TimeDate

-----------------------------------------------------------------------------
(* Values and their cells.                                                   *)

LEMMA Groups ==
  /\ \A T \in IntegerTypes : T \notin FormedTypes \cup {"bool", "f32", "f64", "String", "Bytes"}
  /\ \A T \in FormedTypes : T \notin IntegerTypes \cup {"bool", "f32", "f64", "String", "Bytes"}
BY DEF IntegerTypes, FormedTypes

(* What the values of a Rust type look like. *)
Bindable(T, x) ==
  /\ x.n \in Int /\ x.off \in Int /\ x.form # "null"
  /\ T \in IntegerTypes => x.form = "" /\ x.n \in Types[T].range
  /\ T = "bool" => x.form = "" /\ x.n \in {0, 1}
  /\ T \in {"f32", "f64"} => x.form \in {"", "inf"}
  /\ T = "f32" => x.n % 2 = 0
  /\ T = "String" => x.form \in TextForms
  /\ T = "Bytes" => x.form \in BlobForms
  /\ T \in FormedTypes => x.form = ""

LEMMA FormOf ==
  ASSUME NEW x, NEW form, NEW n, NEW off, x = Data(form, n, off)
  PROVE  x.form = form
BY Zenon DEF Data

LEMMA NumberOf ==
  ASSUME NEW x, NEW form, NEW n, NEW off, x = Data(form, n, off)
  PROVE  x.n = n
BY Zenon DEF Data

LEMMA OffsetOf ==
  ASSUME NEW x, NEW form, NEW n, NEW off, x = Data(form, n, off)
  PROVE  x.off = off
BY Zenon DEF Data

LEMMA NumberFields ==
  ASSUME NEW x, NEW n, x = Number(n)
  PROVE  x.form = "" /\ x.n = n /\ x.off = 0
BY Zenon DEF Data, Number

LEMMA ClassOf ==
  ASSUME NEW c, NEW class, NEW data, c = Cell(class, data)
  PROVE  c.class = class
BY Zenon DEF Cell

LEMMA DataOf ==
  ASSUME NEW c, NEW class, NEW data, c = Cell(class, data)
  PROVE  c.data = data
BY Zenon DEF Cell

LEMMA InstantDomain ==
  ASSUME NEW T, Types[T].range = {}, Types[T].sense = "instant", T # "String", T # "Bytes"
  PROVE  \A x \in Domain(T) : x.form = "" /\ x.n \in Numbers /\ x.off \in Offsets
<1> DEFINE form == ""
<1>1. Domain(T) = {Data(form, n, off) : n \in Numbers, off \in Offsets}
  BY SMTT(30) DEF Domain
<1>2. form = ""
  OBVIOUS
<1> HIDE DEF form
<1> SUFFICES ASSUME NEW x \in Domain(T)
             PROVE  x.form = "" /\ x.n \in Numbers /\ x.off \in Offsets
  OBVIOUS
<1>3. x \in {Data(form, n, off) : n \in Numbers, off \in Offsets}
  BY <1>1
<1>4. PICK n \in Numbers, off \in Offsets : x = Data(form, n, off)
  BY <1>3
<1>5. x.form = form /\ x.n = n /\ x.off = off
  BY <1>4, FormOf, NumberOf, OffsetOf
<1> QED BY <1>2, <1>5, Zenon

LEMMA OtherDomain ==
  ASSUME NEW T, Types[T].range = {}, T # "String", T # "Bytes",
         Types[T].sense # "truth", Types[T].sense # "float", Types[T].sense # "narrow",
         Types[T].sense # "instant"
  PROVE  Domain(T) = {Number(n) : n \in Numbers}
BY SMT DEF Domain

LEMMA DomainBindable ==
  ASSUME NEW T \in RustTypes, NEW x \in Domain(T)
  PROVE  Bindable(T, x)
<1>1. Numbers \subseteq Int /\ Offsets \subseteq Int
  BY ValuesAssumption
<1>2. /\ 0 \in Int /\ 0 % 2 = 0 /\ "inf" # "null" /\ "" # "null"
      /\ \A n : n \in {0, 1} => n \in Int
  OBVIOUS
<1>3. "null" \notin TextForms /\ "null" \notin BlobForms
  BY DEF TextForms, BlobForms
<1>4. CASE T \in IntegerTypes
  <2>1. Types[T].range # {} /\ Types[T].sense = "number" /\ T \notin {"String", "Bytes"}
    BY <1>4, IntegerFields, Groups
  <2>2. x \in {Number(n) : n \in Numbers \cap Types[T].range}
    BY <2>1 DEF Domain
  <2>3. PICK n \in Numbers \cap Types[T].range : x = Number(n)
    BY <2>2
  <2>4. x.n = n /\ x.off = 0 /\ x.form = ""
    BY <2>3, NumberFields
  <2> QED BY <1>1, <1>2, <1>4, <2>3, <2>4, Groups, Zenon DEF Bindable
<1>5. CASE T = "bool"
  <2>1. Types[T].range = {} /\ Types[T].sense = "truth"
    BY <1>5, OtherFields DEF Has
  <2>2. x \in {Number(0), Number(1)}
    BY <1>5, <2>1 DEF Domain
  <2>3. x.n \in {0, 1} /\ x.off = 0 /\ x.form = ""
    BY <2>2, NumberFields
  <2> QED BY <1>2, <1>5, <2>3, Groups, Zenon DEF Bindable
<1>6. CASE T = "f64"
  <2>1. Types[T].range = {} /\ Types[T].sense = "float"
    BY <1>6, OtherFields DEF Has
  <2>2. x \in {Number(n) : n \in Numbers} \cup {Data("inf", 0, 0)}
    BY <1>6, <2>1 DEF Domain
  <2>3. \/ \E n \in Numbers : x = Number(n)
        \/ x = Data("inf", 0, 0)
    BY <2>2
  <2>4. x.n \in Numbers \cup {0} /\ x.off = 0 /\ x.form \in {"", "inf"}
    <3>1. ASSUME NEW n \in Numbers, x = Number(n)
          PROVE  x.n \in Numbers \cup {0} /\ x.off = 0 /\ x.form \in {"", "inf"}
      <4>1. x.form = "" /\ x.n = n /\ x.off = 0
        BY <3>1, Zenon DEF Number, Data
      <4> QED BY <4>1
    <3>2. ASSUME NEW form, form = "inf", x = Data(form, 0, 0)
          PROVE  x.n \in Numbers \cup {0} /\ x.off = 0 /\ x.form \in {"", "inf"}
      <4>1. x.form = form /\ x.n = 0 /\ x.off = 0
        BY <3>2, Zenon DEF Data
      <4> QED BY <3>2, <4>1
    <3> QED BY <2>3, <3>1, <3>2, Zenon
  <2> QED BY <1>1, <1>2, <1>6, <2>4, Groups, Zenon DEF Bindable
<1>7. CASE T = "f32"
  <2>1. Types[T].range = {} /\ Types[T].sense = "narrow"
    BY <1>7, OtherFields DEF Has
  <2>2. x \in {Number(n) : n \in {m \in Numbers : m % 2 = 0}} \cup {Data("inf", 0, 0)}
    BY <1>7, <2>1 DEF Domain
  <2>3. \/ \E n \in Numbers : x = Number(n) /\ n % 2 = 0
        \/ x = Data("inf", 0, 0)
    BY <2>2
  <2>4. /\ x.n \in Numbers \cup {0} /\ x.off = 0 /\ x.form \in {"", "inf"}
        /\ x.n % 2 = 0
    <3>1. ASSUME NEW n \in Numbers, x = Number(n), n % 2 = 0
          PROVE  x.n \in Numbers \cup {0} /\ x.off = 0 /\ x.form \in {"", "inf"} /\ x.n % 2 = 0
      <4>1. x.form = "" /\ x.n = n /\ x.off = 0
        BY <3>1, Zenon DEF Number, Data
      <4>2. x.n % 2 = 0
        BY <3>1, <4>1, Zenon
      <4> QED BY <4>1, <4>2, Zenon
    <3>2. ASSUME NEW form, form = "inf", x = Data(form, 0, 0)
          PROVE  x.n \in Numbers \cup {0} /\ x.off = 0 /\ x.form \in {"", "inf"} /\ x.n % 2 = 0
      <4>1. x.form = form /\ x.n = 0 /\ x.off = 0
        BY <3>2, Zenon DEF Data
      <4>2. x.n % 2 = 0
        BY <4>1
      <4> QED BY <3>2, <4>1, <4>2, Zenon
    <3> QED BY <2>3, <3>1, <3>2, Zenon
  <2> QED BY <1>1, <1>2, <1>7, <2>4, Groups, Zenon DEF Bindable
<1>8. CASE T = "String"
  <2>1. Types[T].range = {} /\ Types[T].sense = "same"
    BY <1>8, OtherFields DEF Has
  <2>2. x \in {Data(form, n, 0) : form \in TextForms, n \in Numbers}
    BY <1>8, <2>1 DEF Domain
  <2>3. PICK form \in TextForms, n \in Numbers : x = Data(form, n, 0)
    BY <2>2
  <2>4. x.n \in Numbers /\ x.off = 0 /\ x.form \in TextForms
    BY <2>3, FormOf, NumberOf, OffsetOf
  <2> QED BY <1>1, <1>2, <1>3, <1>8, <2>4, Groups, Zenon DEF Bindable
<1>9. CASE T = "Bytes"
  <2>1. Types[T].range = {} /\ Types[T].sense = "same"
    BY <1>9, OtherFields DEF Has
  <2>2. x \in {Data(form, n, 0) : form \in BlobForms, n \in Numbers}
    BY <1>9, <2>1 DEF Domain
  <2>3. PICK form \in BlobForms, n \in Numbers : x = Data(form, n, 0)
    BY <2>2
  <2>4. x.n \in Numbers /\ x.off = 0 /\ x.form \in BlobForms
    BY <2>3, FormOf, NumberOf, OffsetOf
  <2> QED BY <1>1, <1>2, <1>3, <1>9, <2>4, Groups, Zenon DEF Bindable
<1>10. CASE T \in FormedTypes
  <2>1. Types[T].range = {} /\ Types[T].sense \in {"number", "wall", "instant"}
    BY <1>10, FormedFields DEF Formatted
  <2>2. T # "String" /\ T # "Bytes"
    BY <1>10, Groups
  <2>4. ASSUME Types[T].sense # "instant"
        PROVE  \E n \in Numbers : x = Number(n)
    <3>1. x \in {Number(n) : n \in Numbers}
      <4>1. Types[T].sense \notin {"truth", "float", "narrow", "instant"}
        BY <2>1, <2>4
      <4> QED BY <2>1, <2>2, <4>1, OtherDomain
    <3> QED BY <3>1
  <2>5. x.n \in Int /\ x.off \in Int /\ x.form = ""
    <3>1. CASE Types[T].sense = "instant"
      <4>1. x.form = "" /\ x.n \in Numbers /\ x.off \in Offsets
        BY <2>1, <2>2, <3>1, InstantDomain
      <4> QED BY <1>1, <4>1
    <3>2. CASE Types[T].sense # "instant"
      <4>1. PICK n \in Numbers : x = Number(n)
        BY <2>4, <3>2
      <4>2. x.n = n /\ x.off = 0 /\ x.form = ""
        BY <4>1, NumberFields
      <4> QED BY <1>1, <1>2, <4>2, Zenon
    <3> QED BY <3>1, <3>2
  <2> QED BY <1>2, <1>10, <2>5, Groups, Zenon DEF Bindable
<1> QED BY <1>4, <1>5, <1>6, <1>7, <1>8, <1>9, <1>10, TypesAre

LEMMA EncodedNumber ==
  ASSUME NEW T \in IntegerTypes \cup {"bool"}, NEW x
  PROVE  /\ Encode(T, x).class = Types[T].class
         /\ Encode(T, x).data.form = "" /\ Encode(T, x).data.n = x.n
<1>1. /\ Types[T].sense \in {"number", "truth"}
      /\ Types[T].whole = "" /\ Types[T].part = ""
  <2>1. CASE T = "bool"
    BY <2>1, OtherFields DEF Has
  <2>2. CASE T \in IntegerTypes
    BY <2>2, IntegerFields
  <2> QED BY <2>1, <2>2
<1> DEFINE form == ""
<1>2. Encode(T, x) = Cell(Types[T].class, Data(form, x.n, 0))
  BY <1>1 DEF Encode
<1>3. form = ""
  OBVIOUS
<1> HIDE DEF form
<1>4. Encode(T, x).data = Data(form, x.n, 0) /\ Encode(T, x).class = Types[T].class
  BY <1>2, ClassOf, DataOf
<1> QED BY <1>3, <1>4, FormOf, NumberOf, OffsetOf

LEMMA EncodedSame ==
  ASSUME NEW T \in {"f32", "f64", "String", "Bytes"}, NEW x
  PROVE  Encode(T, x).class = Types[T].class /\ Encode(T, x).data = x
<1>1. Types[T].sense \in {"narrow", "float", "same"}
  BY OtherFields DEF Has
<1>2. Encode(T, x) = Cell(Types[T].class, x)
  BY <1>1 DEF Encode
<1> QED BY <1>2, ClassOf, DataOf

LEMMA EncodedFormed ==
  ASSUME NEW T \in FormedTypes, NEW x
  PROVE  /\ Encode(T, x).class = Types[T].class
         /\ Encode(T, x).data.form \in {Types[T].whole, Types[T].part}
         /\ IF Types[T].sense = "instant"
            THEN Encode(T, x).data.n = x.n + x.off /\ Encode(T, x).data.off = Printed(x.off)
            ELSE Encode(T, x).data.n = x.n
<1> DEFINE form == IF x.n % Nanos = 0 THEN Types[T].whole ELSE Types[T].part
<1>1. Types[T].sense \in {"number", "wall", "instant"}
  BY FormedFields DEF Formatted
<1>2. Encode(T, x) = Cell(Types[T].class, IF Types[T].sense = "instant"
                                         THEN Data(form, x.n + x.off, Printed(x.off))
                                         ELSE Data(form, x.n, 0))
  BY <1>1 DEF Encode
<1>3. form \in {Types[T].whole, Types[T].part}
  OBVIOUS
<1> HIDE DEF form
<1>4. /\ Encode(T, x).class = Types[T].class
      /\ Encode(T, x).data = IF Types[T].sense = "instant"
                             THEN Data(form, x.n + x.off, Printed(x.off))
                             ELSE Data(form, x.n, 0)
  BY <1>2, ClassOf, DataOf
<1>5. CASE Types[T].sense = "instant"
  <2>1. Encode(T, x).data = Data(form, x.n + x.off, Printed(x.off))
    BY <1>4, <1>5
  <2> QED BY <1>3, <1>4, <1>5, <2>1, FormOf, NumberOf, OffsetOf
<1>6. CASE Types[T].sense # "instant"
  <2>1. Encode(T, x).data = Data(form, x.n, 0)
    BY <1>4, <1>6
  <2> QED BY <1>3, <1>4, <1>6, <2>1, FormOf, NumberOf, OffsetOf
<1> QED BY <1>5, <1>6

-----------------------------------------------------------------------------
(* What the engine makes of a cell.                                          *)

LEMMA StoredOther ==
  ASSUME NEW c, NEW name, c.class \in {"null", "blob"} \/ (c.class = "text" /\ c.data.form # "digits")
  PROVE  Stored(c, name) = c
BY DEF Stored, IsDigits, IsWhole

LEMMA StoredText ==
  ASSUME NEW c, NEW name, c.class = "text"
  PROVE  /\ Stored(c, name) = c \/ Stored(c, name).class \in {"integer", "real"}
         /\ Affinity(name) = "text" => Stored(c, name) = c
BY DEF Stored, IsDigits, IsWhole, Cell

LEMMA StoredInteger ==
  ASSUME NEW c, NEW name, c.class = "integer"
  PROVE  /\ Stored(c, name) = c \/ Stored(c, name).class \in {"real", "text"}
         /\ Affinity(name) \notin {"real", "text"} => Stored(c, name) = c
BY DEF Stored, IsDigits, IsWhole, Cell

LEMMA StoredReal ==
  ASSUME NEW c, NEW name, c.class = "real"
  PROVE  /\ \/ Stored(c, name) = c
            \/ Stored(c, name).class = "text"
            \/ /\ IsWhole(c)
               /\ Stored(c, name) = Cell("integer", Number(c.data.n \div Second))
         /\ Affinity(name) = "real" => Stored(c, name) = c
BY DEF Stored, IsDigits, IsWhole, Cell

-----------------------------------------------------------------------------
(* What the types decode.                                                    *)

LEMMA OkIs ==
  ASSUME NEW data, NEW r, r = Ok(data)
  PROVE  r.ok /\ r.data = data
<1>1. r.ok = TRUE
  BY Zenon DEF Ok
<1>2. r.data = data
  BY Zenon DEF Ok
<1> QED BY <1>1, <1>2

LEMMA ErrIs ==
  ASSUME NEW r, r = Err
  PROVE  ~r.ok
<1>1. r.ok = FALSE
  BY Zenon DEF Err
<1> QED BY <1>1

LEMMA DecodeInteger ==
  ASSUME NEW T \in IntegerTypes, NEW c
  PROVE  /\ Decode(T, c).ok =>
              /\ c.class = "integer" /\ c.data.form = "" /\ c.data.n \in Types[T].range
              /\ Decode(T, c).data.form = "" /\ Decode(T, c).data.n = c.data.n
         /\ c.class = "integer" /\ c.data.form = "" /\ c.data.n \in Types[T].range =>
              Decode(T, c).ok
<1>1. /\ Types[T].reads = {<<"integer", "">>} /\ Types[T].sense = "number"
      /\ Types[T].range # {}
  BY IntegerFields
<1>2. CASE c.class = "integer" /\ c.data.form = ""
  <2>1. <<c.class, c.data.form>> \in Types[T].reads
    BY <1>1, <1>2
  <2>2. Decode(T, c) = TryInto(Types[T].range, c.data.n)
    BY <1>1, <2>1 DEF Decode
  <2>3. CASE c.data.n \in Types[T].range
    <3>1. Decode(T, c) = Ok(Number(c.data.n))
      BY <2>2, <2>3 DEF TryInto
    <3>2. Decode(T, c).ok /\ Decode(T, c).data = Number(c.data.n)
      BY <3>1, OkIs
    <3>3. Number(c.data.n).n = c.data.n /\ Number(c.data.n).form = ""
      BY NumberFields
    <3>4. Decode(T, c).data.form = "" /\ Decode(T, c).data.n = c.data.n
      BY <3>2, <3>3, Zenon
    <3> QED BY <1>2, <2>3, <3>2, <3>4
  <2>4. CASE c.data.n \notin Types[T].range
    <3>1. Decode(T, c) = Err
      BY <2>2, <2>4 DEF TryInto
    <3> QED BY <2>4, <3>1, ErrIs
  <2> QED BY <2>3, <2>4
<1>3. CASE ~(c.class = "integer" /\ c.data.form = "")
  <2>1. <<c.class, c.data.form>> \notin Types[T].reads
    BY <1>1, <1>3
  <2>2. Decode(T, c) = Err
    BY <2>1 DEF Decode
  <2> QED BY <1>3, <2>2, ErrIs
<1> QED BY <1>2, <1>3

LEMMA DecodeBool ==
  ASSUME NEW c
  PROVE  /\ Decode("bool", c).ok =>
              /\ c.class = "integer" /\ c.data.form = ""
              /\ Decode("bool", c).data.form = ""
              /\ Decode("bool", c).data.n = IF c.data.n # 0 THEN 1 ELSE 0
         /\ c.class = "integer" /\ c.data.form = "" => Decode("bool", c).ok
<1>1. Types["bool"].reads = {<<"integer", "">>} /\ Types["bool"].sense = "truth"
  BY OtherFields DEF Has
<1>2. CASE c.class = "integer" /\ c.data.form = ""
  <2>1. <<c.class, c.data.form>> \in Types["bool"].reads
    BY <1>1, <1>2
  <2>2. Decode("bool", c) = Ok(Number(IF c.data.n # 0 THEN 1 ELSE 0))
    BY <1>1, <2>1 DEF Decode
  <2>3. Decode("bool", c).ok /\ Decode("bool", c).data = Number(IF c.data.n # 0 THEN 1 ELSE 0)
    BY <2>2, OkIs
  <2>4. Decode("bool", c).data.form = "" /\ Decode("bool", c).data.n = IF c.data.n # 0 THEN 1 ELSE 0
    <3>1. PICK y, k : y = Decode("bool", c).data /\ k = IF c.data.n # 0 THEN 1 ELSE 0
      OBVIOUS
    <3>2. y = Number(k)
      BY <2>3, <3>1, Zenon
    <3>3. y.form = "" /\ y.n = k
      BY <3>2, NumberFields
    <3> QED BY <3>1, <3>3, Zenon
  <2> QED BY <1>2, <2>3, <2>4
<1>3. CASE ~(c.class = "integer" /\ c.data.form = "")
  <2>1. <<c.class, c.data.form>> \notin Types["bool"].reads
    BY <1>1, <1>3
  <2>2. Decode("bool", c) = Err
    BY <2>1 DEF Decode
  <2> QED BY <1>3, <2>2, ErrIs
<1> QED BY <1>2, <1>3

LEMMA DecodeFloat ==
  ASSUME NEW T \in {"f32", "f64"}, NEW c
  PROVE  /\ Decode(T, c).ok =>
              /\ \/ c.class = "real" /\ c.data.form \in {"", "inf"}
                 \/ c.class = "integer" /\ c.data.form = ""
              /\ Decode(T, c).data = IF T = "f32" THEN Narrow(RealOf(c)) ELSE RealOf(c)
         /\ c.class = "real" /\ c.data.form \in {"", "inf"} => Decode(T, c).ok
<1>1. /\ Types[T].reads = {<<"real", "">>, <<"real", "inf">>, <<"integer", "">>}
      /\ Types[T].sense = IF T = "f32" THEN "narrow" ELSE "float"
  BY OtherFields DEF Has
<1>2. CASE <<c.class, c.data.form>> \in Types[T].reads
  <2>1. Decode(T, c) = Ok(IF T = "f32" THEN Narrow(RealOf(c)) ELSE RealOf(c))
    <3>1. CASE T = "f32"
      BY <1>1, <1>2, <3>1 DEF Decode
    <3>2. CASE T = "f64"
      BY <1>1, <1>2, <3>2 DEF Decode
    <3> QED BY <3>1, <3>2
  <2>2. Decode(T, c).ok /\ Decode(T, c).data = IF T = "f32" THEN Narrow(RealOf(c)) ELSE RealOf(c)
    BY <2>1, OkIs
  <2>3. \/ c.class = "real" /\ c.data.form \in {"", "inf"}
        \/ c.class = "integer" /\ c.data.form = ""
    <3>1. \/ <<c.class, c.data.form>> = <<"real", "">>
          \/ <<c.class, c.data.form>> = <<"real", "inf">>
          \/ <<c.class, c.data.form>> = <<"integer", "">>
      BY <1>1, <1>2
    <3> QED BY <3>1
  <2> QED BY <2>2, <2>3
<1>3. CASE <<c.class, c.data.form>> \notin Types[T].reads
  <2>1. Decode(T, c) = Err
    BY <1>3 DEF Decode
  <2>2. ~(c.class = "real" /\ c.data.form \in {"", "inf"})
    BY <1>1, <1>3
  <2> QED BY <2>1, <2>2, ErrIs
<1> QED BY <1>2, <1>3

LEMMA DecodeSame ==
  ASSUME NEW T \in {"String", "Bytes"}, NEW c
  PROVE  /\ Decode(T, c).ok => c.class = Types[T].class /\ Decode(T, c).data = c.data
         /\ /\ c.class = Types[T].class
            /\ c.data.form \in IF T = "String" THEN TextForms ELSE BlobForms
            => Decode(T, c).ok
<1> DEFINE forms == IF T = "String" THEN TextForms ELSE BlobForms
<1>1. Types[T].reads = {Types[T].class} \X forms /\ Types[T].sense = "same"
  <2>1. CASE T = "String"
    BY <2>1, OtherFields DEF Has, In
  <2>2. CASE T = "Bytes"
    BY <2>2, OtherFields DEF Has, In
  <2> QED BY <2>1, <2>2
<1> HIDE DEF forms
<1>2. CASE <<c.class, c.data.form>> \in Types[T].reads
  <2>1. Decode(T, c) = Ok(c.data)
    BY <1>1, <1>2 DEF Decode
  <2>2. c.class = Types[T].class
    BY <1>1, <1>2
  <2> QED BY <2>1, <2>2, OkIs
<1>3. CASE <<c.class, c.data.form>> \notin Types[T].reads
  <2>1. Decode(T, c) = Err
    BY <1>3 DEF Decode
  <2>2. ~(c.class = Types[T].class /\ c.data.form \in forms)
    BY <1>1, <1>3
  <2> QED BY <2>1, <2>2, ErrIs DEF forms
<1> QED BY <1>2, <1>3

LEMMA DecodeFormed ==
  ASSUME NEW T \in FormedTypes, NEW c, c.class = Types[T].class,
         c.data.form \in {Types[T].whole, Types[T].part}
  PROVE  /\ Decode(T, c).ok /\ Decode(T, c).data.form = ""
         /\ Decode(T, c).data.n = IF Types[T].sense = "instant" THEN c.data.n - c.data.off
                                  ELSE c.data.n
<1>1. /\ Types[T].range = {} /\ Types[T].sense \in {"number", "wall", "instant"}
      /\ Types[T].sense \in {"wall", "instant"} => Types[T].class = "text"
      /\ <<c.class, c.data.form>> \in Types[T].reads
  BY FormedFields DEF Formatted
<1>2. CASE Types[T].sense = "number"
  <2>1. Decode(T, c) = Ok(Number(c.data.n))
    BY <1>1, <1>2 DEF Decode
  <2>2. Decode(T, c).ok /\ Decode(T, c).data = Number(c.data.n)
    BY <2>1, OkIs
  <2>3. Decode(T, c).data.form = "" /\ Decode(T, c).data.n = c.data.n
    BY <2>2, NumberFields
  <2> QED BY <1>2, <2>2, <2>3
<1>3. CASE Types[T].sense = "wall"
  <2>1. Decode(T, c) = Moment(c, FALSE)
    BY <1>1, <1>3 DEF Decode
  <2>2. c.class = "text"
    BY <1>1, <1>3
  <2>3. Moment(c, FALSE) = Ok(Number(c.data.n))
    BY <2>2 DEF Moment
  <2>4. Decode(T, c).ok /\ Decode(T, c).data = Number(c.data.n)
    BY <2>1, <2>3, OkIs
  <2>5. Decode(T, c).data.form = "" /\ Decode(T, c).data.n = c.data.n
    BY <2>4, NumberFields
  <2> QED BY <1>3, <2>4, <2>5
<1>4. CASE Types[T].sense = "instant"
  <2>1. Decode(T, c) = Moment(c, TRUE)
    BY <1>1, <1>4 DEF Decode
  <2>2. c.class = "text"
    BY <1>1, <1>4
  <2>3. Moment(c, TRUE) = Ok(Number(c.data.n - c.data.off))
    BY <2>2 DEF Moment
  <2>4. Decode(T, c).ok /\ Decode(T, c).data = Number(c.data.n - c.data.off)
    BY <2>1, <2>3, OkIs
  <2>5. Decode(T, c).data.form = "" /\ Decode(T, c).data.n = c.data.n - c.data.off
    BY <2>4, NumberFields
  <2> QED BY <1>4, <2>4, <2>5
<1> QED BY <1>1, <1>2, <1>3, <1>4

-----------------------------------------------------------------------------
(* What a type reads of the values it wrote.                                 *)

LEMMA DivMod ==
  ASSUME NEW a \in Int, NEW b \in Nat \ {0}
  PROVE  /\ a \div b \in Int /\ a % b \in 0 .. b - 1
         /\ a = b * (a \div b) + (a % b)
<1>1. a \div b \in Int
  OBVIOUS
<1>2. a % b \in 0 .. b - 1
  OBVIOUS
<1>3. a = b * (a \div b) + (a % b)
  <2>1. b \in Int /\ b > 0
    OBVIOUS
  <2> QED BY <2>1
<1> QED BY <1>1, <1>2, <1>3

LEMMA SecondIsPositive == Second \in Nat \ {0}
<1>1. \A a, b \in Nat \ {0} : a * b \in Nat \ {0}
  OBVIOUS
<1> QED BY <1>1, ValuesAssumption DEF Second

LEMMA Below ==
  ASSUME NEW a \in Int, NEW b \in Int, NEW t \in Nat \ {0}, t * a < t * b
  PROVE  a < b
<1>1. a >= b => t * (a - b) >= 0
  <2>1. \A m, n \in Nat : m * n >= 0
    OBVIOUS
  <2> QED BY <2>1
<1>2. t * (a - b) = t * a - t * b
  OBVIOUS
<1>3. t * a \in Int /\ t * b \in Int
  OBVIOUS
<1> QED BY <1>1, <1>2, <1>3

(* Rounding moves a number by half a step at most, a multiple not at all.    *)
LEMMA NearestIs ==
  ASSUME NEW n \in Int, NEW step \in Nat \ {0}, NEW m, m = Nearest(n, step)
  PROVE  /\ m \in Int /\ 2 * (m - n) \in -step .. step
         /\ \A j \in Int : n = step * j => m = n
<1>1. PICK h : h = step \div 2
  OBVIOUS
<1>2. h \in Nat /\ 2 * h <= step /\ step <= 2 * h + 1 /\ h < step
  BY <1>1
<1>3. PICK a : a = n + h
  OBVIOUS
<1>4. a \in Int
  BY <1>2, <1>3
<1>5. PICK k : k = a \div step
  OBVIOUS
<1>6. PICK e : e = a % step
  OBVIOUS
<1>7. k \in Int /\ e \in 0 .. step - 1 /\ a = step * k + e
  BY <1>4, <1>5, <1>6, DivMod
<1>8. PICK c : c = step * k
  OBVIOUS
<1>9. c \in Int /\ m = c
  <2>1. m = k * step
    BY <1>1, <1>3, <1>5 DEF Nearest
  <2>2. k * step = step * k /\ step * k \in Int
    BY <1>7
  <2> QED BY <1>8, <2>1, <2>2
<1>10. m - n = h - e /\ m \in Int
  BY <1>2, <1>3, <1>7, <1>8, <1>9
<1>11. 2 * (m - n) \in -step .. step
  BY <1>2, <1>7, <1>10
<1>12. ASSUME NEW j \in Int, n = step * j PROVE m = n
  <2>1. step * (k - j) = h - e /\ step * (j - k) = e - h
    <3>1. step * (k - j) = step * k - step * j /\ step * (j - k) = step * j - step * k
      BY <1>7
    <3>2. step * k = m /\ step * j = n
      BY <1>8, <1>9, <1>12
    <3> QED BY <1>2, <1>7, <1>10, <3>1, <3>2
  <2>2. step * 1 = step
    OBVIOUS
  <2>3. step * (k - j) < step * 1 /\ step * (j - k) < step * 1
    BY <1>2, <1>7, <2>1, <2>2
  <2>4. k - j < 1 /\ j - k < 1
    <3>1. k - j \in Int /\ j - k \in Int /\ 1 \in Int
      BY <1>7
    <3> QED BY <2>3, <3>1, Below
  <2>5. k = j
    BY <1>7, <2>4
  <2> QED BY <1>8, <1>9, <1>12, <2>5
<1> QED BY <1>10, <1>11, <1>12

(* What printing an offset loses.                                            *)
LEMMA PrintedIs ==
  ASSUME NEW off \in Int, NEW k, k = Printed(off)
  PROVE  /\ k \in Int /\ 2 * (off - k) \in -Minute .. Minute
         /\ off % Minute = 0 => k = off
<1>1. Minute \in Nat \ {0}
  BY ValuesAssumption
<1>2. PICK j : j = off \div Minute
  OBVIOUS
<1>3. j \in Int /\ -j \in Int /\ (off % Minute = 0 => off = Minute * j)
  BY <1>1, <1>2, DivMod
<1>4. Minute * (-j) = -(Minute * j)
  BY <1>1, <1>3
<1>5. CASE off < 0
  <2>1. PICK m : m = Nearest(-off, Minute)
    OBVIOUS
  <2>2. /\ m \in Int /\ 2 * (m - (-off)) \in -Minute .. Minute
        /\ -off = Minute * (-j) => m = -off
    <3>1. PICK o : o = -off
      OBVIOUS
    <3>2. o \in Int /\ m = Nearest(o, Minute)
      BY <2>1, <3>1
    <3>3. /\ m \in Int /\ 2 * (m - o) \in -Minute .. Minute
          /\ o = Minute * (-j) => m = o
      BY <1>1, <1>3, <3>2, NearestIs
    <3> QED BY <3>1, <3>3
  <2>3. k = -m
    BY <1>5, <2>1 DEF Printed
  <2>4. off % Minute = 0 => -off = Minute * (-j)
    BY <1>3, <1>4
  <2> QED BY <1>1, <2>2, <2>3, <2>4
<1>6. CASE ~(off < 0)
  <2>1. k = Nearest(off, Minute)
    BY <1>6 DEF Printed
  <2>2. /\ k \in Int /\ 2 * (k - off) \in -Minute .. Minute
        /\ off = Minute * j => k = off
    BY <1>1, <1>3, <2>1, NearestIs
  <2> QED BY <1>1, <1>3, <2>2
<1> QED BY <1>5, <1>6

(* The affinities of columns in which a type reads what it wrote. *)
Suits(T, affinity) ==
  /\ T \in IntegerTypes \cup {"bool"} => affinity \notin {"real", "text"}
  /\ T \in {"f32", "f64"} => affinity = "real"
  /\ T = "String" => affinity = "text"

(* What a type may make of a value it wrote: only for a DateTime not the same. *)
Comes(T, y, x) == IF T = "DateTime" THEN ReadBack(y, x) ELSE Same(y, x)

LEMMA SameComes ==
  ASSUME NEW T, NEW x, NEW y
  PROVE  /\ Same(y, x) => Comes(T, y, x) /\ ReadBack(y, x)
         /\ Comes(T, y, x) => ReadBack(y, x) /\ (T # "DateTime" => Same(y, x))
BY Zenon DEF Comes, ReadBack

(* A value of T was stored as c in a column called name. *)
Reads(T, x, c, name) ==
  /\ c.class # "null"
  /\ Decode(T, c).ok => Comes(T, Decode(T, c).data, x)
  /\ Suits(T, Affinity(name)) => c = Encode(T, x) /\ Decode(T, c).ok

LEMMA IntegerReads ==
  ASSUME NEW T \in IntegerTypes, T # "u64", NEW x, Bindable(T, x), NEW name
  PROVE  Reads(T, x, Stored(Encode(T, x), name), name)
<1> DEFINE e == Encode(T, x)
           c == Stored(e, name)
<1>1. /\ e.class = "integer" /\ e.data.form = "" /\ e.data.n = x.n
  <2>1. e.class = Types[T].class /\ e.data.form = "" /\ e.data.n = x.n
    BY EncodedNumber
  <2>2. Types[T].class = "integer"
    BY IntegerClass, Zenon
  <2> QED BY <2>1, <2>2, Zenon
<1>2. x.form = "" /\ x.n \in Types[T].range
  BY DEF Bindable
<1> HIDE DEF e
<1>3. /\ c = e \/ c.class \in {"real", "text"}
      /\ Affinity(name) \notin {"real", "text"} => c = e
  BY <1>1, StoredInteger
<1>4. Suits(T, Affinity(name)) => Affinity(name) \notin {"real", "text"}
  BY DEF Suits
<1> HIDE DEF c
<1>5. c.class # "null"
  BY <1>1, <1>3
<1>6. Decode(T, c).ok => Same(Decode(T, c).data, x)
  <2> SUFFICES ASSUME Decode(T, c).ok
               PROVE  Same(Decode(T, c).data, x)
    OBVIOUS
  <2>1. /\ c.class = "integer" /\ Decode(T, c).data.form = ""
        /\ Decode(T, c).data.n = c.data.n
    BY DecodeInteger
  <2>2. c = e
    BY <1>3, <2>1
  <2> QED BY <1>1, <1>2, <2>1, <2>2, Zenon DEF Same
<1>7. Suits(T, Affinity(name)) => c = e /\ Decode(T, c).ok
  BY <1>1, <1>2, <1>3, <1>4, DecodeInteger
<1> QED BY <1>5, <1>6, <1>7, SameComes, Zenon DEF Reads, c, e

LEMMA BoolReads ==
  ASSUME NEW x, Bindable("bool", x), NEW name
  PROVE  Reads("bool", x, Stored(Encode("bool", x), name), name)
<1> DEFINE e == Encode("bool", x)
           c == Stored(e, name)
<1>1. /\ e.class = "integer" /\ e.data.form = "" /\ e.data.n = x.n
  <2>1. e.class = Types["bool"].class /\ e.data.form = "" /\ e.data.n = x.n
    BY EncodedNumber
  <2>2. Types["bool"].class = "integer"
    BY OtherFields DEF Has
  <2> QED BY <2>1, <2>2
<1>2. x.form = "" /\ x.n \in {0, 1}
  BY DEF Bindable
<1> HIDE DEF e
<1>3. /\ c = e \/ c.class \in {"real", "text"}
      /\ Affinity(name) \notin {"real", "text"} => c = e
  BY <1>1, StoredInteger
<1>4. Suits("bool", Affinity(name)) => Affinity(name) \notin {"real", "text"}
  BY DEF Suits
<1> HIDE DEF c
<1>5. c.class # "null"
  BY <1>1, <1>3
<1>6. Decode("bool", c).ok => Same(Decode("bool", c).data, x)
  <2> SUFFICES ASSUME Decode("bool", c).ok
               PROVE  Same(Decode("bool", c).data, x)
    OBVIOUS
  <2>1. /\ c.class = "integer" /\ Decode("bool", c).data.form = ""
        /\ Decode("bool", c).data.n = IF c.data.n # 0 THEN 1 ELSE 0
    BY DecodeBool
  <2>2. c = e
    BY <1>3, <2>1
  <2>3. c.data.n = x.n
    BY <1>1, <2>2
  <2>4. Decode("bool", c).data.n = x.n
    BY <1>2, <2>1, <2>3
  <2> QED BY <1>2, <2>1, <2>4, Zenon DEF Same
<1>7. Suits("bool", Affinity(name)) => c = e /\ Decode("bool", c).ok
  BY <1>1, <1>2, <1>3, <1>4, DecodeBool
<1> QED BY <1>5, <1>6, <1>7, SameComes, Zenon DEF Reads, c, e

LEMMA FloatReads ==
  ASSUME NEW T \in {"f32", "f64"}, NEW x, Bindable(T, x), NEW name
  PROVE  Reads(T, x, Stored(Encode(T, x), name), name)
<1> DEFINE e == Encode(T, x)
           c == Stored(e, name)
<1>1. e.class = "real" /\ e.data = x
  <2>1. e.class = Types[T].class /\ e.data = x
    BY EncodedSame
  <2>2. Types[T].class = "real"
    BY OtherFields DEF Has
  <2> QED BY <2>1, <2>2
<1>2. x.form \in {"", "inf"} /\ x.n \in Int /\ (T = "f32" => x.n % 2 = 0)
  BY DEF Bindable
<1> HIDE DEF e
<1>3. /\ \/ c = e
         \/ c.class = "text"
         \/ IsWhole(e) /\ c = Cell("integer", Number(e.data.n \div Second))
      /\ Affinity(name) = "real" => c = e
  BY <1>1, StoredReal
<1>4. Suits(T, Affinity(name)) => Affinity(name) = "real"
  BY DEF Suits
<1> HIDE DEF c
<1>5. c.class # "null"
  <2>1. c = Cell("integer", Number(e.data.n \div Second)) => c.class = "integer"
    BY ClassOf
  <2> QED BY <1>1, <1>3, <2>1
<1>6. ASSUME \/ c = e
             \/ IsWhole(e) /\ c = Cell("integer", Number(e.data.n \div Second))
      PROVE  Same(RealOf(c), x)
  <2>1. CASE c = e
    <3>1. RealOf(c) = x
      BY <1>1, <2>1 DEF RealOf
    <3> QED BY <3>1 DEF Same
  <2>2. CASE IsWhole(e) /\ c = Cell("integer", Number(e.data.n \div Second))
    <3>1. c.class = "integer" /\ c.data = Number(x.n \div Second)
      BY <1>1, <2>2, ClassOf, DataOf
    <3>2. c.data.n = x.n \div Second
      BY <3>1, NumberFields
    <3>3. RealOf(c) = Number(c.data.n * Second)
      BY <3>1 DEF RealOf
    <3>4. RealOf(c).form = "" /\ RealOf(c).n = c.data.n * Second
      BY <3>3, NumberFields
    <3>5. x.form = "" /\ x.n % Second = 0
      BY <1>1, <2>2 DEF IsWhole
    <3>6. (x.n \div Second) * Second = x.n
      <4>1. \A a \in Int, b \in Nat \ {0} : a % b = 0 => (a \div b) * b = a
        BY DivMod
      <4> QED BY <1>2, <3>5, <4>1, SecondIsPositive
    <3>7. RealOf(c).n = x.n
      BY <3>2, <3>4, <3>6
    <3> QED BY <3>4, <3>5, <3>7, Zenon DEF Same
  <2> QED BY <1>6, <2>1, <2>2
<1>7. Decode(T, c).ok => Same(Decode(T, c).data, x)
  <2> SUFFICES ASSUME Decode(T, c).ok
               PROVE  Same(Decode(T, c).data, x)
    OBVIOUS
  <2>1. /\ c.class \in {"real", "integer"}
        /\ Decode(T, c).data = IF T = "f32" THEN Narrow(RealOf(c)) ELSE RealOf(c)
    BY DecodeFloat
  <2>2. Same(RealOf(c), x)
    BY <1>3, <1>6, <2>1
  <2>3. CASE T = "f64"
    BY <2>1, <2>2, <2>3
  <2>4. CASE T = "f32"
    <3>1. RealOf(c).form = x.form /\ RealOf(c).n = x.n
      BY <2>2 DEF Same
    <3> DEFINE n == RealOf(c).n - (RealOf(c).n % 2)
    <3>2. n = x.n
      <4>1. \A m, k : m = k /\ k \in Int /\ k % 2 = 0 => m - (m % 2) = k
        OBVIOUS
      <4> QED BY <1>2, <2>4, <3>1, <4>1, Zenon
    <3>3. Narrow(RealOf(c)) = Data(RealOf(c).form, n, 0)
      BY DEF Narrow
    <3> HIDE DEF n
    <3>4. Narrow(RealOf(c)).form = RealOf(c).form /\ Narrow(RealOf(c)).n = n
      BY <3>3, FormOf, NumberOf
    <3>5. Same(Narrow(RealOf(c)), x)
      BY <3>1, <3>2, <3>4, Zenon DEF Same
    <3> QED BY <2>1, <2>4, <3>5
  <2> QED BY <2>3, <2>4
<1>8. Suits(T, Affinity(name)) => c = e /\ Decode(T, c).ok
  BY <1>1, <1>2, <1>3, <1>4, DecodeFloat
<1> QED BY <1>5, <1>7, <1>8, SameComes, Zenon DEF Reads, c, e

LEMMA SameReads ==
  ASSUME NEW T \in {"String", "Bytes"}, NEW x, Bindable(T, x), NEW name
  PROVE  Reads(T, x, Stored(Encode(T, x), name), name)
<1> DEFINE e == Encode(T, x)
           c == Stored(e, name)
<1>1. e.class = Types[T].class /\ e.data = x
  BY EncodedSame
<1>2. /\ x.form \in IF T = "String" THEN TextForms ELSE BlobForms
      /\ Types[T].class = IF T = "String" THEN "text" ELSE "blob"
  BY OtherFields DEF Bindable, Has
<1> HIDE DEF e
<1>3. /\ c = e \/ (T = "String" /\ c.class \in {"integer", "real"})
      /\ (T = "Bytes" \/ Affinity(name) = "text") => c = e
  <2>1. CASE T = "String"
    <3>1. e.class = "text"
      BY <1>1, <1>2, <2>1
    <3>2. /\ c = e \/ c.class \in {"integer", "real"}
          /\ Affinity(name) = "text" => c = e
      BY <3>1, StoredText
    <3> QED BY <2>1, <3>2, Zenon
  <2>2. CASE T = "Bytes"
    <3>1. e.class = "blob"
      BY <1>1, <1>2, <2>2
    <3>2. c = e
      BY <3>1, StoredOther
    <3> QED BY <2>2, <3>2, Zenon
  <2> QED BY <2>1, <2>2
<1>4. Suits(T, Affinity(name)) => T = "Bytes" \/ Affinity(name) = "text"
  BY DEF Suits
<1> HIDE DEF c
<1>5. c.class # "null"
  BY <1>1, <1>2, <1>3
<1>6. Decode(T, c).ok => Same(Decode(T, c).data, x)
  <2> SUFFICES ASSUME Decode(T, c).ok
               PROVE  Same(Decode(T, c).data, x)
    OBVIOUS
  <2>1. c.class = Types[T].class /\ Decode(T, c).data = c.data
    BY DecodeSame
  <2>2. c = e
    BY <1>2, <1>3, <2>1
  <2> QED BY <1>1, <2>1, <2>2 DEF Same
<1>7. Suits(T, Affinity(name)) => c = e /\ Decode(T, c).ok
  BY <1>1, <1>2, <1>3, <1>4, DecodeSame
<1> QED BY <1>5, <1>6, <1>7, SameComes, Zenon DEF Reads, c, e

LEMMA Instants ==
  ASSUME NEW T \in FormedTypes, Types[T].sense = "instant"
  PROVE  T \in {"DateTime", "OffsetDateTime"}
<1>1. /\ Uuid.sense = "number" /\ UuidText.sense = "number" /\ Json.sense = "number"
      /\ NaiveDate.sense = "number" /\ NaiveTime.sense = "number"
  BY DEF Uuid, UuidText, Json, NaiveDate, NaiveTime, Formed, Plain
<1>2. NaiveDateTime.sense = "wall" /\ PrimitiveDateTime.sense = "wall"
  BY DEF NaiveDateTime, PrimitiveDateTime, Formed, Plain
<1>3. TimeDate.sense = "number" /\ TimeTime.sense = "number"
  BY <1>1 DEF TimeDate, TimeTime, NaiveTime, Formed, Plain
<1> QED BY <1>1, <1>2, <1>3, TypesAre DEF FormedTypes

LEMMA FormedReads ==
  ASSUME NEW T \in FormedTypes, NEW x, Bindable(T, x), CanEncode(T, x), NEW name
  PROVE  Reads(T, x, Stored(Encode(T, x), name), name)
<1> DEFINE e == Encode(T, x)
           c == Stored(e, name)
<1>1. /\ e.class = Types[T].class /\ e.data.form \in {Types[T].whole, Types[T].part}
      /\ IF Types[T].sense = "instant" THEN e.data.n = x.n + x.off /\ e.data.off = Printed(x.off)
         ELSE e.data.n = x.n
  BY EncodedFormed
<1>2. x.form = "" /\ x.n \in Int /\ x.off \in Int
  BY DEF Bindable
<1>3. /\ Types[T].class \in {"text", "blob"}
      /\ Types[T].class = "text" => {Types[T].whole, Types[T].part} \subseteq TextForms \ {"digits"}
  BY FormedFields DEF Formatted
<1> HIDE DEF e
<1>4. c = e
  BY <1>1, <1>3, StoredOther
<1> HIDE DEF c
<1>5. c.class # "null"
  BY <1>1, <1>3, <1>4
<1>6. /\ Decode(T, c).ok /\ Decode(T, c).data.form = ""
      /\ Decode(T, c).data.n = IF Types[T].sense = "instant" THEN c.data.n - c.data.off
                               ELSE c.data.n
  BY <1>1, <1>4, DecodeFormed
<1>7. CASE Types[T].sense # "instant"
  <2>1. Decode(T, c).data.n = x.n
    BY <1>1, <1>4, <1>6, <1>7, Zenon
  <2>2. Same(Decode(T, c).data, x)
    BY <1>2, <1>6, <2>1, Zenon DEF Same
  <2> QED BY <1>4, <1>5, <1>6, <2>2, SameComes, Zenon DEF Reads, c, e
<1>8. CASE Types[T].sense = "instant"
  <2>1. PICK y : y = Decode(T, c).data
    OBVIOUS
  <2>2. PICK k : k = Printed(x.off)
    OBVIOUS
  <2>3. y.form = "" /\ y.n = c.data.n - c.data.off
    BY <1>6, <1>8, <2>1
  <2>4. c.data.n = x.n + x.off /\ c.data.off = k
    BY <1>1, <1>4, <1>8, <2>2
  <2>5. /\ k \in Int /\ 2 * (x.off - k) \in -Minute .. Minute
        /\ x.off % Minute = 0 => k = x.off
    BY <1>2, <2>2, PrintedIs
  <2>6. y.n - x.n = x.off - k
    <3>1. PICK n : n = x.n
      OBVIOUS
    <3>2. PICK off : off = x.off
      OBVIOUS
    <3>3. PICK d : d = c.data.n
      OBVIOUS
    <3>4. PICK z : z = c.data.off
      OBVIOUS
    <3>5. n \in Int /\ off \in Int
      BY <1>2, <3>1, <3>2
    <3>6. y.n = d - z /\ d = n + off /\ z = k
      BY <2>3, <2>4, <3>1, <3>2, <3>3, <3>4, Zenon
    <3>7. d - z - n = off - k
      BY <2>5, <3>5, <3>6
    <3> QED BY <3>1, <3>2, <3>6, <3>7
  <2>7. CASE x.off % Minute = 0
    <3>1. y.n = x.n
      <4>1. k = x.off
        BY <2>5, <2>7
      <4>2. PICK n : n = x.n
        OBVIOUS
      <4>3. PICK w : w = y.n
        OBVIOUS
      <4>4. PICK d : d = c.data.n
        OBVIOUS
      <4>5. w = d - k /\ d = n + k
        BY <2>3, <2>4, <4>1, <4>2, <4>3, <4>4, Zenon
      <4>6. n \in Int /\ k \in Int
        BY <1>2, <2>5, <4>2
      <4>7. w = n
        BY <4>5, <4>6
      <4> QED BY <4>2, <4>3, <4>7
    <3>2. Same(y, x)
      BY <1>2, <2>3, <3>1, Zenon DEF Same
    <3> QED BY <1>4, <1>5, <1>6, <2>1, <3>2, SameComes, Zenon DEF Reads, c, e
  <2>8. CASE x.off % Minute # 0
    <3>1. T = "DateTime"
      <4>1. T # "OffsetDateTime"
        BY <2>8, Zenon DEF CanEncode
      <4> QED BY <1>8, <4>1, Instants
    <3>2. 2 * (y.n - x.n) \in -Minute .. Minute
      BY <2>5, <2>6
    <3>3. ReadBack(y, x)
      BY <1>2, <2>3, <2>8, <3>2, Zenon DEF ReadBack
    <3>4. Comes(T, y, x)
      BY <3>1, <3>3, Zenon DEF Comes
    <3> QED BY <1>4, <1>5, <1>6, <2>1, <3>4, Zenon DEF Reads, c, e
  <2> QED BY <2>7, <2>8
<1> QED BY <1>7, <1>8

LEMMA ValueReads ==
  ASSUME NEW T \in RustTypes, NEW x, Bindable(T, x), CanEncode(T, x), NEW name
  PROVE  Reads(T, x, Stored(Encode(T, x), name), name)
<1>1. CASE T \in IntegerTypes
  BY <1>1, IntegerFields, IntegerReads DEF CanEncode
<1>2. CASE T = "bool"
  BY <1>2, BoolReads
<1>3. CASE T \in {"f32", "f64"}
  BY <1>3, FloatReads
<1>4. CASE T \in {"String", "Bytes"}
  BY <1>4, SameReads
<1>5. CASE T \in FormedTypes
  BY <1>5, FormedReads
<1> QED BY <1>1, <1>2, <1>3, <1>4, <1>5, TypesAre

LEMMA DeclaredNames ==
  /\ Affinity("INTEGER") = "integer" /\ AnyKind("INTEGER") = "i64"
  /\ Affinity("BOOLEAN") = "numeric" /\ AnyKind("BOOLEAN") = "bool"
  /\ Affinity("REAL") = "real" /\ AnyKind("REAL") = "f64"
  /\ Affinity("TEXT") = "text" /\ AnyKind("TEXT") = "String"
  /\ AnyKind("BLOB") = "Bytes"
  /\ \A name \in {"DATE", "TIME", "DATETIME"} : AnyKind(name) = "String"
BY DEF Affinity, AnyKind, IntegerAffinity, BoolAffinity, RealAffinity, BlobAffinity

(* In a column declared as its own type a value is stored as it is, accepted *)
(* and read, by its type and by Any.                                         *)
LEMMA OwnColumn ==
  ASSUME NEW T \in RustTypes, Types[T].class # "none", NEW x, Bindable(T, x)
  PROVE  /\ Types[T].info # "NULL" /\ Types[T].info \in Types[T].accepts
         /\ Suits(T, Affinity(Types[T].info))
         /\ Decode(AnyKind(Types[T].info), Encode(T, x)).ok
<1> DEFINE e == Encode(T, x)
<1>1. CASE T \in IntegerTypes
  <2>1. /\ Types[T].info = "INTEGER" /\ Types[T].accepts = IntegerAffinity
        /\ Types[T].class = "integer" /\ T # "u64"
        /\ Types[T].range \subseteq SignedRange("i64")
    <3>1. T # "u64"
      <4>1. ASSUME T = "u64" PROVE FALSE
        <5>1. Types[T].class = "none"
          BY <1>1, <4>1, IntegerFields
        <5> QED BY <5>1
      <4> QED BY <4>1
    <3> QED BY <1>1, <3>1, IntegerClass, IntegerDeclared, IntegerRange, Zenon
  <2>2. x.n \in Types[T].range
    BY <1>1 DEF Bindable
  <2>3. e.class = Types[T].class /\ e.data.form = "" /\ e.data.n = x.n
    BY <1>1, EncodedNumber
  <2>4. Types["i64"].range = SignedRange("i64") /\ "i64" \in IntegerTypes
    BY WidestRange, Zenon
  <2>5. e.data.n \in Types["i64"].range
    BY <2>1, <2>2, <2>3, <2>4
  <2> HIDE DEF e
  <2>6. Decode("i64", e).ok
    <3>1. e.class = "integer" /\ e.data.form = ""
      BY <2>1, <2>3
    <3> QED BY <2>4, <2>5, <3>1, DecodeInteger, Zenon
  <2>7. Suits(T, "integer")
    BY <1>1, Groups DEF Suits
  <2>8. "INTEGER" \in IntegerAffinity
    BY DEF IntegerAffinity
  <2> QED BY <2>1, <2>6, <2>7, <2>8, DeclaredNames DEF e
<1>2. CASE T = "bool"
  <2>1. /\ Types[T].info = "BOOLEAN" /\ Types[T].class = "integer"
        /\ "BOOLEAN" \in Types[T].accepts
    BY <1>2, OtherFields DEF Has, BoolAffinity
  <2>2. e.class = Types[T].class /\ e.data.form = ""
    BY <1>2, EncodedNumber
  <2> HIDE DEF e
  <2>3. Decode("bool", e).ok
    BY <2>1, <2>2, DecodeBool
  <2>4. Suits(T, "numeric")
    BY <1>2 DEF Suits
  <2> QED BY <2>1, <2>3, <2>4, DeclaredNames DEF e
<1>3. CASE T \in {"f32", "f64"}
  <2>1. /\ Types[T].info = "REAL" /\ Types[T].class = "real" /\ "REAL" \in Types[T].accepts
    <3>1. /\ Types["f32"].info = "REAL" /\ Types["f32"].class = "real" /\ Types["f32"].accepts = RealAffinity
          /\ Types["f64"].info = "REAL" /\ Types["f64"].class = "real" /\ Types["f64"].accepts = RealAffinity
      BY OtherFields, Zenon DEF Has
    <3>2. "REAL" \in RealAffinity
      BY DEF RealAffinity
    <3>3. T = "f32" \/ T = "f64"
      BY <1>3
    <3> QED BY <3>1, <3>2, <3>3, Zenon
  <2>2. e.class = Types[T].class /\ e.data = x
    BY <1>3, EncodedSame, Zenon
  <2>3. x.form \in {"", "inf"}
    BY <1>3 DEF Bindable
  <2> HIDE DEF e
  <2>4. Decode("f64", e).ok
    BY <2>1, <2>2, <2>3, DecodeFloat
  <2>5. Suits(T, "real")
    BY <1>3, Groups DEF Suits
  <2> QED BY <2>1, <2>4, <2>5, DeclaredNames DEF e
<1>4. CASE T = "String"
  <2>1. /\ Types[T].info = "TEXT" /\ Types[T].class = "text" /\ "TEXT" \in Types[T].accepts
    BY <1>4, OtherFields DEF Has, TextAffinity
  <2>2. e.class = Types[T].class /\ e.data = x
    BY <1>4, EncodedSame
  <2>3. x.form \in TextForms
    BY <1>4 DEF Bindable
  <2> HIDE DEF e
  <2>4. Decode("String", e).ok
    BY <1>4, <2>2, <2>3, DecodeSame
  <2>5. Suits(T, "text")
    BY <1>4, Groups DEF Suits
  <2> QED BY <2>1, <2>4, <2>5, DeclaredNames DEF e
<1>5. CASE T = "Bytes"
  <2>1. /\ Types[T].info = "BLOB" /\ Types[T].class = "blob" /\ "BLOB" \in Types[T].accepts
    BY <1>5, OtherFields DEF Has, BlobAffinity
  <2>2. e.class = Types[T].class /\ e.data = x
    BY <1>5, EncodedSame
  <2>3. x.form \in BlobForms
    BY <1>5 DEF Bindable
  <2> HIDE DEF e
  <2>4. Decode("Bytes", e).ok
    BY <1>5, <2>2, <2>3, DecodeSame
  <2>5. Suits(T, Affinity("BLOB"))
    BY <1>5, Groups DEF Suits
  <2> QED BY <2>1, <2>4, <2>5, DeclaredNames DEF e
<1>6. CASE T \in FormedTypes
  <2>1. /\ Types[T].class \in {"text", "blob"} /\ Types[T].info \in Types[T].accepts
        /\ Types[T].class = "text" => /\ {Types[T].whole, Types[T].part} \subseteq TextForms
                                     /\ Types[T].info \in {"TEXT", "DATETIME", "DATE", "TIME"}
        /\ Types[T].class = "blob" => /\ {Types[T].whole, Types[T].part} \subseteq BlobForms
                                     /\ Types[T].info = "BLOB"
    BY <1>6, FormedFields DEF Formatted
  <2>2. e.class = Types[T].class /\ e.data.form \in {Types[T].whole, Types[T].part}
    BY <1>6, EncodedFormed
  <2>3. Suits(T, Affinity(Types[T].info))
    BY <1>6, Groups DEF Suits
  <2>4. Types["String"].class = "text" /\ Types["Bytes"].class = "blob"
    BY OtherFields DEF Has
  <2> HIDE DEF e
  <2>5. CASE Types[T].class = "text"
    <3>1. Decode("String", e).ok
      BY <2>1, <2>2, <2>4, <2>5, DecodeSame
    <3>2. AnyKind(Types[T].info) = "String" /\ Types[T].info # "NULL"
      BY <2>1, <2>5, DeclaredNames
    <3> QED BY <2>1, <2>3, <3>1, <3>2 DEF e
  <2>6. CASE Types[T].class = "blob"
    <3>1. Decode("Bytes", e).ok
      BY <2>1, <2>2, <2>4, <2>6, DecodeSame
    <3>2. AnyKind(Types[T].info) = "Bytes" /\ Types[T].info # "NULL"
      BY <2>1, <2>6, DeclaredNames
    <3> QED BY <2>1, <2>3, <3>1, <3>2 DEF e
  <2> QED BY <2>1, <2>5, <2>6
<1> QED BY <1>1, <1>2, <1>3, <1>4, <1>5, <1>6, TypesAre

LEMMA DatePaths ==
  ASSUME NEW dates \in {"inferred", "chrono", "time"}, NEW name,
         DatetimePath(dates, name) \notin {"", "DateTimeCrateFeatureNotEnabled"}
  PROVE  \/ /\ name \in DateAffinity
            /\ DatetimePath(dates, name) \in {"TimeDate", "NaiveDate"}
         \/ /\ name \in DatetimeAffinity
            /\ DatetimePath(dates, name) \in {"PrimitiveDateTime", "NaiveDateTime"}
<1>1. \A crate :
        \/ DatePath(crate, name) = ""
        \/ name \in DateAffinity /\ DatePath(crate, name) \in {"TimeDate", "NaiveDate"}
        \/ /\ name \in DatetimeAffinity
           /\ DatePath(crate, name) \in {"PrimitiveDateTime", "NaiveDateTime"}
  <2> TAKE crate
  <2>1. CASE crate \notin Crates
    BY <2>1 DEF DatePath
  <2>2. CASE crate \in Crates /\ name \in DateAffinity
    <3>1. name \notin DatetimeAffinity
      BY <2>2 DEF DateAffinity, DatetimeAffinity
    <3> QED BY <2>2, <3>1 DEF DatePath
  <2>3. CASE crate \in Crates /\ name \notin DateAffinity
    BY <2>3 DEF DatePath
  <2> QED BY <2>1, <2>2, <2>3
<1> QED BY <1>1 DEF DatetimePath

(* The type the macros infer for a column accepts the column and reads what  *)
(* it wrote there.                                                           *)
(* No type with an offset is inferred. *)
LEMMA InferredTypes ==
  ASSUME NEW dates \in {"inferred", "chrono", "time"}, NEW name
  PROVE  TypePath(name, dates, "inferred") # "DateTime"
<1>1. DatetimePath(dates, name) # "DateTime"
  BY DEF DatetimePath, DatePath
<1> QED BY <1>1 DEF TypePath

LEMMA InferredSuits ==
  ASSUME NEW dates \in {"inferred", "chrono", "time"}, NEW name \in Names,
         TypePath(name, dates, "inferred") \in RustTypes
  PROVE  LET T == TypePath(name, dates, "inferred")
         IN  name # "NULL" /\ name \in Types[T].accepts /\ Suits(T, Affinity(name))
<1> DEFINE T == TypePath(name, dates, "inferred")
<1>1. CASE DatetimePath(dates, name) # ""
  <2>1. T = DatetimePath(dates, name)
    BY <1>1 DEF TypePath
  <2>2. T # "DateTimeCrateFeatureNotEnabled"
    BY TypesAre DEF IntegerTypes, FormedTypes
  <2>3. \/ name \in DateAffinity /\ T \in {"TimeDate", "NaiveDate"}
        \/ name \in DatetimeAffinity /\ T \in {"PrimitiveDateTime", "NaiveDateTime"}
    BY <1>1, <2>1, <2>2, DatePaths
  <2> HIDE DEF T
  <2>4. name \in Types[T].accepts
    BY <2>3, FormedFields
  <2>5. T \in FormedTypes
    BY <2>3 DEF FormedTypes
  <2>6. name # "NULL"
    BY <2>3 DEF DateAffinity, DatetimeAffinity
  <2> QED BY <2>4, <2>5, <2>6, Groups DEF Suits, T
<1>2. CASE DatetimePath(dates, name) = ""
  <2>1. /\ Types.bool.info = "BOOLEAN" /\ "BOOLEAN" \in Types.bool.accepts
        /\ Types.f64.accepts = RealAffinity /\ Types.String.accepts = TextAffinity
        /\ Types.Bytes.accepts = BlobAffinity \cup TextAffinity
    BY OtherFields DEF Has, BoolAffinity
  <2>2. /\ Types.i32.info = "INTEGER" /\ Types.i32.accepts = IntegerAffinity
        /\ Types.i64.accepts = IntegerAffinity
    <3>1. "i32" \in IntegerTypes /\ "i64" \in IntegerTypes
      BY DEF IntegerTypes
    <3> QED BY <3>1, IntegerFields
  <2>3. "NoMappingFound" \notin RustTypes
    BY TypesAre DEF IntegerTypes, FormedTypes
  <2>4. \/ T = "bool" /\ name = "BOOLEAN"
        \/ T = "i32" /\ name = "INTEGER"
        \/ T = "i64" /\ name \in IntegerAffinity
        \/ T = "f64" /\ name \in RealAffinity \ IntegerAffinity
        \/ T = "String" /\ name \in TextAffinity \ IntegerAffinity
        \/ T = "Bytes" /\ name \in (BlobAffinity \cup TextAffinity) \ TextAffinity
    BY <1>2, <2>1, <2>2, <2>3 DEF TypePath
  <2> HIDE DEF T
  <2>5. name \in Types[T].accepts
    BY <2>1, <2>2, <2>4 DEF IntegerAffinity
  <2>6. name # "NULL"
    BY <2>4 DEF IntegerAffinity, RealAffinity, TextAffinity, BlobAffinity
  <2>7. Affinity(name) =
          IF name = "BOOLEAN" THEN "numeric"
          ELSE IF name \in IntegerAffinity THEN "integer"
          ELSE IF name \in RealAffinity THEN "real"
          ELSE IF name \in TextAffinity THEN "text" ELSE Affinity(name)
    BY DEF Affinity, IntegerAffinity, RealAffinity, TextAffinity
  <2>8. Suits(T, Affinity(name))
    BY <2>4, <2>7 DEF Suits, IntegerTypes, IntegerAffinity, RealAffinity, TextAffinity, BlobAffinity
  <2> QED BY <2>5, <2>6, <2>8 DEF T
<1> QED BY <1>1, <1>2

-----------------------------------------------------------------------------
(* A REAL as a date: what f64 computes is near, and rounded to the nearest   *)
(* nanosecond, with the carry.                                               *)

LEMMA Scaled ==
  ASSUME NEW d \in Int, NEW b \in Nat, d \in -b .. b, NEW k \in Nat
  PROVE  k * d \in -(k * b) .. k * b
<1>1. \A m, n \in Nat : m * n \in Nat
  OBVIOUS
<1>2. k * (b - d) >= 0 /\ k * (b + d) >= 0
  BY <1>1
<1>3. k * (b - d) = k * b - k * d /\ k * (b + d) = k * b + k * d /\ k * b \in Int /\ k * d \in Int
  OBVIOUS
<1> QED BY <1>2, <1>3

LEMMA SinceIsNear ==
  ASSUME NEW t \in Int, NEW since, since = Since1970(t)
  PROVE  LET exact == (t - JulianEpoch) * SecondsPerDay
             bound == SecondStep + SecondsPerDay * DayStep
         IN  since \in Int /\ exact \in Int /\ 2 * (since - exact) \in -bound .. bound
<1>1. /\ SecondsPerDay \in Nat /\ DayStep \in Nat \ {0} /\ SecondStep \in Nat \ {0}
      /\ JulianEpoch \in Int
  BY ValuesAssumption
<1>2. PICK day : day = t - JulianEpoch
  OBVIOUS
<1>3. PICK near : near = Nearest(day, DayStep)
  OBVIOUS
<1>4. day \in Int /\ near \in Int /\ 2 * (near - day) \in -DayStep .. DayStep
  BY <1>1, <1>2, <1>3, NearestIs
<1>5. PICK exact : exact = day * SecondsPerDay
  OBVIOUS
<1>6. PICK product : product = near * SecondsPerDay
  OBVIOUS
<1>7. exact \in Int /\ product \in Int
  BY <1>1, <1>4, <1>5, <1>6
<1>8. since = Nearest(product, SecondStep)
  BY <1>2, <1>3, <1>6 DEF Since1970
<1>9. since \in Int /\ 2 * (since - product) \in -SecondStep .. SecondStep
  BY <1>1, <1>7, <1>8, NearestIs
<1>10. PICK far : far = SecondsPerDay * DayStep
  OBVIOUS
<1>11. far \in Nat /\ 2 * (product - exact) \in -far .. far
  <2>1. PICK d : d = 2 * (near - day)
    OBVIOUS
  <2>2. d \in Int /\ d \in -DayStep .. DayStep
    BY <1>4, <2>1
  <2>3. SecondsPerDay * d \in -(SecondsPerDay * DayStep) .. SecondsPerDay * DayStep
    BY <1>1, <2>2, Scaled
  <2>4. SecondsPerDay * d = 2 * (product - exact)
    <3>1. \A a, b, c \in Int : c * (2 * (a - b)) = 2 * (a * c - b * c)
      OBVIOUS
    <3> QED BY <1>1, <1>4, <1>5, <1>6, <2>1, <3>1
  <2>5. far \in Nat
    BY <1>1, <1>10
  <2> QED BY <1>10, <2>3, <2>4, <2>5
<1>12. 2 * (since - exact) \in -(SecondStep + far) .. SecondStep + far
  BY <1>1, <1>7, <1>9, <1>11
<1> QED BY <1>2, <1>5, <1>7, <1>9, <1>10, <1>12

LEMMA JulianNearest ==
  ASSUME NEW t \in Int
  PROVE  LET since == Since1970(t)
         IN  {since \div Second, since \div Second + 1} \subseteq Calendar =>
               /\ Julian(t).ok /\ Julian(t).data.n * Ticks \in Int
               /\ 2 * (Julian(t).data.n * Ticks - since) \in -Ticks .. Ticks
<1> DEFINE since == Since1970(t)
           q == since \div Second
           r == since % Second
           h == Ticks \div 2
           nanos == (r + h) \div Ticks
           e == (r + h) % Ticks
<1>1. Ticks \in Nat \ {0} /\ Nanos \in Nat \ {0} /\ SecondsPerDay \in Nat /\ JulianEpoch \in Int
  BY ValuesAssumption
<1>2. since \in Int
  BY SinceIsNear
<1>3. Julian(t) = IF nanos = Nanos THEN Timestamp(q + 1, 0) ELSE Timestamp(q, nanos)
  BY DEF Julian
<1> SUFFICES ASSUME {q, q + 1} \subseteq Calendar
             PROVE  /\ Julian(t).ok /\ Julian(t).data.n * Ticks \in Int
                    /\ 2 * (Julian(t).data.n * Ticks - since) \in -Ticks .. Ticks
  OBVIOUS
<1> HIDE DEF since
<1>4. q \in Int /\ r \in 0 .. Second - 1 /\ since = Second * q + r
  BY <1>2, DivMod, SecondIsPositive
<1> HIDE DEF q, r
<1>5. h \in Nat /\ 2 * h <= Ticks /\ Ticks <= 2 * h + 1
  BY <1>1
<1>6. Second = Nanos * Ticks /\ Second \in Nat
  BY SecondIsPositive DEF Second
<1> HIDE DEF h
<1>7. r \in Int /\ 0 <= r /\ r < Second
  BY <1>4, <1>6
<1>8. r + h \in Int
  BY <1>5, <1>7
<1>9. nanos \in Int /\ e \in 0 .. Ticks - 1 /\ r + h = Ticks * nanos + e
  BY <1>1, <1>8, DivMod
<1> HIDE DEF nanos, e
<1>10. Ticks * nanos \in Int
  BY <1>1, <1>9
<1>11. nanos <= Nanos
  <2>1. Ticks * (Nanos + 1) = Second + Ticks
    BY <1>1, <1>6
  <2>2. Ticks * nanos < Ticks * (Nanos + 1)
    BY <1>1, <1>5, <1>6, <1>7, <1>9, <1>10, <2>1
  <2>3. nanos < Nanos + 1
    BY <1>1, <1>9, <2>2, Below
  <2> QED BY <1>1, <1>9, <2>3
<1>12. Julian(t).ok /\ Julian(t).data.n = q * Nanos + nanos
  <2>1. CASE nanos = Nanos
    <3>1. Julian(t) = Ok(Number((q + 1) * Nanos + 0))
      BY <1>1, <1>3, <2>1 DEF Timestamp
    <3>2. Julian(t).ok /\ Julian(t).data = Number((q + 1) * Nanos + 0)
      BY <3>1, OkIs
    <3>3. Julian(t).data.n = (q + 1) * Nanos + 0
      BY <3>2, NumberFields
    <3>4. (q + 1) * Nanos + 0 = q * Nanos + Nanos
      BY <1>1, <1>4
    <3> QED BY <2>1, <3>2, <3>3, <3>4
  <2>2. CASE nanos # Nanos
    <3>1. nanos < Nanos
      BY <1>1, <1>9, <1>11, <2>2
    <3>2. Julian(t) = Ok(Number(q * Nanos + nanos))
      BY <1>3, <2>2, <3>1 DEF Timestamp
    <3>3. Julian(t).ok /\ Julian(t).data = Number(q * Nanos + nanos)
      BY <3>2, OkIs
    <3> QED BY <3>3, NumberFields
  <2> QED BY <2>1, <2>2
<1>13. (q * Nanos + nanos) * Ticks = Second * q + Ticks * nanos
  <2>1. \A a, b, c, d \in Int : (a * b + c) * d = (b * d) * a + d * c
    OBVIOUS
  <2> QED BY <1>1, <1>4, <1>6, <1>9, <2>1
<1>14. Second * q \in Int
  BY <1>4, <1>6
<1>15. (q * Nanos + nanos) * Ticks - since = h - e
  BY <1>4, <1>5, <1>7, <1>9, <1>10, <1>13, <1>14
<1>16. 2 * (h - e) \in -Ticks .. Ticks
  BY <1>1, <1>5, <1>9
<1>17. (q * Nanos + nanos) * Ticks \in Int
  BY <1>4, <1>9, <1>10, <1>13, <1>14
<1> QED BY <1>12, <1>15, <1>16, <1>17

-----------------------------------------------------------------------------
(* The inductive invariant.                                                  *)

NullData == Data("null", 0, 0)

(* A value that can be bound as T, or NULL. *)
IsBound(T, x) ==
  \/ x = NullData
  \/ CanEncode(T, x) /\ x \in Domain(T)

Bound == {b \in RustTypes \X ({NullData} \cup UNION {Domain(T) : T \in RustTypes}) :
            IsBound(b[1], b[2])}

CellOf(b) == IF b[2].form = "null" THEN Null ELSE Encode(b[1], b[2])

Cells == {CellOf(b) : b \in Bound}

(* The arguments are the cells of what was bound, and the column holds what  *)
(* the engine makes of the cell of its source.                               *)
FlowInv ==
  /\ args \in Seq(Cells) /\ given \in Seq(Bound) /\ Len(args) = Len(given)
  /\ \A i \in DOMAIN args : args[i] = CellOf(given[i])
  /\ column \in Names \cup {""}
  /\ source # Nobody => /\ source \in Bound /\ column \in Names
                        /\ cell = Stored(CellOf(source), column)
  /\ cell.data.n \in Int

LEMMA NullFields ==
  /\ NullData.form = "null" /\ NullData.n = 0
  /\ ReadNull.ok /\ ReadNull.data = NullData
  /\ Null.class = "null" /\ Null.data.n = 0
<1>1. NullData.form = "null" /\ NullData.n = 0
  BY Zenon DEF NullData, Data
<1>2. ReadNull.ok = TRUE /\ ReadNull.data = NullData
  BY Zenon DEF ReadNull, NullData
<1>3. Null.class = "null"
  BY ClassOf DEF Null
<1>4. Null.data = Number(0)
  BY DataOf DEF Null
<1>5. Null.data.n = 0
  BY <1>4, NumberFields
<1> QED BY <1>1, <1>2, <1>3, <1>5

LEMMA NullInt == Null.data.n \in Int
<1>1. 0 \in Int
  OBVIOUS
<1> QED BY <1>1, NullFields, Zenon

LEMMA BoundFields ==
  ASSUME NEW b \in Bound
  PROVE  /\ b[1] \in RustTypes
         /\ \/ b[2] = NullData /\ CellOf(b) = Null
            \/ /\ CanEncode(b[1], b[2]) /\ Bindable(b[1], b[2])
               /\ b[2].form # "null" /\ CellOf(b) = Encode(b[1], b[2])
<1>1. b[1] \in RustTypes /\ IsBound(b[1], b[2])
  BY DEF Bound
<1>2. CASE b[2] = NullData
  BY <1>1, <1>2, NullFields DEF CellOf
<1>3. CASE CanEncode(b[1], b[2]) /\ b[2] \in Domain(b[1])
  <2>1. Bindable(b[1], b[2])
    BY <1>1, <1>3, DomainBindable
  <2>2. b[2].form # "null"
    BY <2>1 DEF Bindable
  <2> QED BY <1>1, <1>3, <2>1, <2>2 DEF CellOf
<1> QED BY <1>1, <1>2, <1>3 DEF IsBound

LEMMA BoundPair ==
  ASSUME NEW T \in RustTypes, NEW x, IsBound(T, x)
  PROVE  /\ <<T, x>> \in Bound
         /\ CellOf(<<T, x>>) = IF x.form = "null" THEN Null ELSE Encode(T, x)
<1>1. x \in {NullData} \cup UNION {Domain(S) : S \in RustTypes}
  BY DEF IsBound
<1> QED BY <1>1 DEF Bound, CellOf

LEMMA EncodedInt ==
  ASSUME NEW T \in RustTypes, NEW x, Bindable(T, x)
  PROVE  Encode(T, x).data.n \in Int
<1>1. x.n \in Int /\ x.off \in Int
  BY DEF Bindable
<1>2. CASE T \in IntegerTypes \cup {"bool"}
  BY <1>1, <1>2, EncodedNumber
<1>3. CASE T \in {"f32", "f64", "String", "Bytes"}
  BY <1>1, <1>3, EncodedSame
<1>4. CASE T \in FormedTypes
  <2>1. Encode(T, x).data.n = x.n \/ Encode(T, x).data.n = x.n + x.off
    BY <1>4, EncodedFormed
  <2> QED BY <1>1, <2>1
<1> QED BY <1>2, <1>3, <1>4, TypesAre

LEMMA StoredInt ==
  ASSUME NEW c, c.data.n \in Int, NEW name
  PROVE  Stored(c, name).data.n \in Int
<1>1. \/ Stored(c, name) = c
      \/ Stored(c, name) = Cell("integer", Number(c.data.n))
      \/ Stored(c, name) = Cell("integer", Number(c.data.n \div Second))
      \/ Stored(c, name) = Cell("real", Number(c.data.n * Second))
      \/ Stored(c, name) = Cell("text", Data("digits", c.data.n, 0))
      \/ Stored(c, name) = Cell("text", Data("word", c.data.n, 0))
  BY DEF Stored
<1>2. \/ Stored(c, name).data = c.data
      \/ Stored(c, name).data = Number(c.data.n)
      \/ Stored(c, name).data = Number(c.data.n \div Second)
      \/ Stored(c, name).data = Number(c.data.n * Second)
      \/ \E form : Stored(c, name).data = Data(form, c.data.n, 0)
  BY <1>1, DataOf, Zenon
<1>3. \/ Stored(c, name).data.n = c.data.n
      \/ Stored(c, name).data.n = c.data.n \div Second
      \/ Stored(c, name).data.n = c.data.n * Second
  <2>1. ASSUME NEW form, Stored(c, name).data = Data(form, c.data.n, 0)
        PROVE  Stored(c, name).data.n = c.data.n
    BY <2>1, NumberOf
  <2>2. ASSUME NEW m, Stored(c, name).data = Number(m)
        PROVE  Stored(c, name).data.n = m
    BY <2>2, NumberFields
  <2> QED BY <1>2, <2>1, <2>2, Zenon
<1>4. c.data.n \div Second \in Int /\ c.data.n * Second \in Int
  BY DivMod, SecondIsPositive
<1> QED BY <1>3, <1>4

LEMMA Truncated ==
  ASSUME NEW S, NEW s \in Seq(S), NEW t \in Seq(S)
  PROVE  Truncate(s \o t, Len(s)) = s
BY DEF Truncate

LEMMA InvInit == Init => FlowInv
<1> SUFFICES ASSUME Init
             PROVE  FlowInv
  OBVIOUS
<1>1. args = <<>> /\ given = <<>> /\ column = "" /\ cell = Null /\ source = Nobody
  BY DEF Init
<1>2. args \in Seq(Cells) /\ given \in Seq(Bound) /\ Len(args) = Len(given) /\ DOMAIN args = {}
  <2>1. (\A S : <<>> \in Seq(S)) /\ DOMAIN <<>> = {}
    OBVIOUS
  <2> QED BY <1>1, <2>1, Zenon
<1>3. cell.data.n \in Int
  BY <1>1, NullInt
<1> QED BY <1>1, <1>2, <1>3 DEF FlowInv

(* Something is appended to the arguments. *)
LEMMA Appended ==
  ASSUME FlowInv, NEW b \in Bound, args' = Append(args, CellOf(b)), given' = Append(given, b),
         UNCHANGED <<column, cell, source>>
  PROVE  FlowInv'
<1>1. /\ args \in Seq(Cells) /\ given \in Seq(Bound) /\ Len(args) = Len(given)
      /\ \A i \in DOMAIN args : args[i] = CellOf(given[i])
  BY DEF FlowInv
<1>2. CellOf(b) \in Cells
  BY DEF Cells
<1>3. args' \in Seq(Cells) /\ Len(args') = Len(args) + 1 /\ DOMAIN args' = 1 .. Len(args) + 1
  BY <1>1, <1>2
<1>4. given' \in Seq(Bound) /\ Len(given') = Len(given) + 1
  BY <1>1
<1>5. \A i \in DOMAIN args' : args'[i] = CellOf(given'[i])
  <2> SUFFICES ASSUME NEW i \in DOMAIN args'
               PROVE  args'[i] = CellOf(given'[i])
    OBVIOUS
  <2>1. CASE i = Len(args) + 1
    <3>1. args'[i] = CellOf(b)
      BY <1>1, <2>1
    <3>2. given'[i] = b
      BY <1>1, <2>1
    <3> QED BY <3>1, <3>2
  <2>2. CASE i # Len(args) + 1
    <3>1. i \in 1 .. Len(args)
      BY <1>1, <1>3, <2>2
    <3>2. args'[i] = args[i]
      BY <1>1, <3>1
    <3>3. given'[i] = given[i]
      BY <1>1, <3>1
    <3>4. args[i] = CellOf(given[i])
      BY <1>1, <3>1
    <3> QED BY <3>2, <3>3, <3>4
  <2> QED BY <2>1, <2>2
<1>6. /\ column' \in Names \cup {""} /\ cell'.data.n \in Int
      /\ source' # Nobody => /\ source' \in Bound /\ column' \in Names
                             /\ cell' = Stored(CellOf(source'), column')
  BY DEF FlowInv
<1> QED BY <1>1, <1>3, <1>4, <1>5, <1>6 DEF FlowInv

LEMMA InvAdd ==
  ASSUME FlowInv, NEW T \in RustTypes, NEW x \in Domain(T), Add(T, x)
  PROVE  FlowInv'
<1>1. /\ CanEncode(T, x) /\ args' = Append(args, Encode(T, x))
      /\ given' = Append(given, <<T, x>>) /\ UNCHANGED <<column, cell, source>>
  BY DEF Add
<1>2. x.form # "null"
  BY DomainBindable DEF Bindable
<1>3. IsBound(T, x)
  BY <1>1 DEF IsBound
<1>4. <<T, x>> \in Bound /\ CellOf(<<T, x>>) = Encode(T, x)
  BY <1>2, <1>3, BoundPair
<1> QED BY <1>1, <1>4, Appended

LEMMA InvAddNull ==
  ASSUME FlowInv, NEW T \in RustTypes, AddNull(T)
  PROVE  FlowInv'
<1>1. /\ args' = Append(args, Null) /\ given' = Append(given, <<T, NullData>>)
      /\ UNCHANGED <<column, cell, source>>
  BY DEF AddNull, NullData
<1>2. IsBound(T, NullData)
  BY DEF IsBound
<1>3. <<T, NullData>> \in Bound /\ CellOf(<<T, NullData>>) = Null
  BY <1>2, BoundPair, NullFields
<1> QED BY <1>1, <1>3, Appended

LEMMA NullIsCell == Null \in Cells
<1>1. "bool" \in RustTypes /\ IsBound("bool", NullData)
  BY TypesAre DEF IsBound
<1>2. <<"bool", NullData>> \in Bound /\ CellOf(<<"bool", NullData>>) = Null
  BY <1>1, BoundPair, NullFields
<1> QED BY <1>2 DEF Cells

LEMMA InvAddFails ==
  ASSUME FlowInv, AddFails
  PROVE  FlowInv'
<1>1. PICK pushed \in {<<>>, <<Null>>} : args' = Truncate(args \o pushed, Len(args))
  BY DEF AddFails
<1>2. args \in Seq(Cells)
  BY DEF FlowInv
<1>3. pushed \in Seq(Cells)
  <2>1. \A S : \A y \in S : <<>> \in Seq(S) /\ <<y>> \in Seq(S)
    OBVIOUS
  <2> QED BY NullIsCell, <2>1
<1>4. args' = args
  BY <1>1, <1>2, <1>3, Truncated
<1>5. UNCHANGED <<given, column, cell, source>>
  BY DEF AddFails
<1> QED BY <1>4, <1>5 DEF FlowInv

LEMMA CellOfInt ==
  ASSUME NEW b \in Bound
  PROVE  CellOf(b).data.n \in Int
<1>1. CASE CellOf(b) = Null
  BY <1>1, NullInt
<1>2. CASE Bindable(b[1], b[2]) /\ CellOf(b) = Encode(b[1], b[2])
  BY <1>2, BoundFields, EncodedInt
<1> QED BY <1>1, <1>2, BoundFields

LEMMA InvInsert ==
  ASSUME FlowInv, NEW i, NEW name \in Names, Insert(i, name)
  PROVE  FlowInv'
<1>1. /\ i \in DOMAIN args /\ column' = name /\ cell' = Stored(args[i], name)
      /\ source' = given[i] /\ args' = <<>> /\ given' = <<>>
  BY DEF Insert
<1>2. /\ args \in Seq(Cells) /\ given \in Seq(Bound) /\ Len(args) = Len(given)
      /\ \A j \in DOMAIN args : args[j] = CellOf(given[j])
  BY DEF FlowInv
<1>3. given[i] \in Bound /\ args[i] = CellOf(given[i])
  BY <1>1, <1>2
<1>4. source' \in Bound /\ cell' = Stored(CellOf(source'), column')
  BY <1>1, <1>3
<1>5. cell'.data.n \in Int
  BY <1>4, CellOfInt, StoredInt
<1>6. args' \in Seq(Cells) /\ given' \in Seq(Bound) /\ Len(args') = Len(given') /\ DOMAIN args' = {}
  BY <1>1
<1> QED BY <1>1, <1>4, <1>5, <1>6 DEF FlowInv

LEMMA ForeignInt ==
  ASSUME NEW c \in ForeignCells
  PROVE  c.data.n \in Int
<1>1. Numbers \subseteq Int
  BY ValuesAssumption
<1>2. \/ \E class, n : n \in Numbers /\ c = Cell(class, Number(n))
      \/ \E class, form : c = Cell(class, Data(form, 0, 0))
      \/ \E class, form, n, off : n \in Numbers /\ c = Cell(class, Data(form, n, off))
  BY DEF ForeignCells
<1>3. CASE \E class, n : n \in Numbers /\ c = Cell(class, Number(n))
  <2>1. PICK class, n : n \in Numbers /\ c = Cell(class, Number(n))
    BY <1>3
  <2>2. c.data = Number(n)
    BY <2>1, DataOf
  <2> QED BY <1>1, <2>1, <2>2, NumberFields
<1>4. CASE \E class, form : c = Cell(class, Data(form, 0, 0))
  <2>1. PICK class, form : c = Cell(class, Data(form, 0, 0))
    BY <1>4
  <2>2. c.data = Data(form, 0, 0)
    BY <2>1, DataOf
  <2> QED BY <2>2, NumberOf
<1>5. CASE \E class, form, n, off : n \in Numbers /\ c = Cell(class, Data(form, n, off))
  <2>1. PICK class, form, n, off : n \in Numbers /\ c = Cell(class, Data(form, n, off))
    BY <1>5
  <2>2. c.data = Data(form, n, off)
    BY <2>1, DataOf
  <2> QED BY <1>1, <2>1, <2>2, NumberOf
<1> QED BY <1>2, <1>3, <1>4, <1>5

LEMMA InvForeign ==
  ASSUME FlowInv, NEW c \in ForeignCells, NEW name \in Names, Foreign(c, name)
  PROVE  FlowInv'
<1>1. /\ column' = name /\ cell' = Stored(c, name) /\ source' = Nobody
      /\ UNCHANGED <<args, given>>
  BY DEF Foreign
<1>2. cell'.data.n \in Int
  BY <1>1, ForeignInt, StoredInt
<1> QED BY <1>1, <1>2 DEF FlowInv

LEMMA InvForget ==
  ASSUME FlowInv, Forget
  PROVE  FlowInv'
<1>1. column' = "" /\ cell' = Null /\ source' = Nobody /\ UNCHANGED <<args, given>>
  BY DEF Forget
<1>2. cell'.data.n \in Int
  BY <1>1, NullInt
<1> QED BY <1>1, <1>2 DEF FlowInv

THEOREM Invariant == Spec => []FlowInv
<1>1. FlowInv /\ [Next]_vars => FlowInv'
  <2> SUFFICES ASSUME FlowInv, [Next]_vars
               PROVE  FlowInv'
    OBVIOUS
  <2>1. CASE UNCHANGED vars
    BY <2>1 DEF FlowInv, vars
  <2>2. ASSUME NEW T \in RustTypes, AddNull(T)
        PROVE  FlowInv'
    BY <2>2, InvAddNull
  <2>3. ASSUME NEW T \in RustTypes, NEW x \in Domain(T), Add(T, x)
        PROVE  FlowInv'
    BY <2>3, InvAdd
  <2>4. CASE AddFails
    BY <2>4, InvAddFails
  <2>5. ASSUME NEW i, NEW name \in Names, Insert(i, name)
        PROVE  FlowInv'
    BY <2>5, InvInsert
  <2>6. ASSUME NEW c \in ForeignCells, NEW name \in Names, Foreign(c, name)
        PROVE  FlowInv'
    BY <2>6, InvForeign
  <2>7. CASE Forget
    BY <2>7, InvForget
  <2> QED BY <2>1, <2>2, <2>3, <2>4, <2>5, <2>6, <2>7 DEF Next
<1> QED BY <1>1, InvInit, PTL DEF Spec

-----------------------------------------------------------------------------
(* The properties.                                                           *)

(* A failing encoder leaves no trace: the arguments are the values that were *)
(* bound, in order (TursoArguments::add).                                    *)
THEOREM ArgumentsKept == Spec => []ArgumentsAreTheBound
<1>1. FlowInv => ArgumentsAreTheBound
  BY DEF FlowInv, ArgumentsAreTheBound, CellOf
<1> QED BY <1>1, Invariant, PTL

(* What a written column holds, and what its type reads of it.               *)
LEMMA WrittenCell ==
  ASSUME FlowInv, Written
  PROVE  /\ source[1] \in RustTypes /\ column \in Names
         /\ \/ source[2] = NullData /\ cell = Null
            \/ /\ CanEncode(source[1], source[2]) /\ Bindable(source[1], source[2])
               /\ Reads(source[1], source[2], cell, column)
<1>1. source \in Bound /\ column \in Names /\ cell = Stored(CellOf(source), column)
  BY DEF FlowInv, Written
<1>2. CASE source[2] = NullData /\ CellOf(source) = Null
  <2>1. Null.class = "null"
    BY NullFields
  <2>2. Stored(Null, column) = Null
    BY <2>1, StoredOther
  <2> QED BY <1>1, <1>2, <2>2, BoundFields
<1>3. CASE /\ CanEncode(source[1], source[2]) /\ Bindable(source[1], source[2])
           /\ CellOf(source) = Encode(source[1], source[2])
  <2>1. source[1] \in RustTypes
    BY <1>1, BoundFields
  <2>2. Reads(source[1], source[2], cell, column)
    BY <1>1, <1>3, <2>1, ValueReads
  <2> QED BY <1>1, <1>3, <2>1, <2>2
<1> QED BY <1>1, <1>2, <1>3, BoundFields

LEMMA GetNull ==
  ASSUME NEW T, NEW name, cell = Null
  PROVE  /\ Get(T, cell, name).ok /\ Same(Get(T, cell, name).data, NullData)
         /\ AnyGet(cell, name).ok /\ Same(AnyGet(cell, name).data, NullData)
<1>1. Get(T, cell, name) = ReadNull /\ AnyGet(cell, name) = ReadNull
  BY NullFields DEF Get, AnyGet
<1> QED BY <1>1, NullFields DEF Same

(* In a column of any declaration the type that wrote a value reads the same *)
(* value or an error, whatever the engine's affinity made of it.             *)
THEOREM ConversionsNoticed == Spec => []NeverSilentlyChanged
<1>1. FlowInv => NeverSilentlyChanged
  <2> SUFFICES ASSUME FlowInv, Written, Get(source[1], cell, column).ok
               PROVE  ReadBack(Get(source[1], cell, column).data, source[2])
    BY DEF NeverSilentlyChanged
  <2>1. CASE source[2] = NullData /\ cell = Null
    BY <2>1, GetNull, SameComes
  <2>2. CASE Reads(source[1], source[2], cell, column)
    <3>1. /\ cell.class # "null"
          /\ Decode(source[1], cell).ok => ReadBack(Decode(source[1], cell).data, source[2])
      BY <2>2, SameComes DEF Reads
    <3>2. Get(source[1], cell, column) = Decode(source[1], cell)
      BY <3>1, ErrIs DEF Get
    <3> QED BY <3>1, <3>2
  <2> QED BY <2>1, <2>2, WrittenCell
<1> QED BY <1>1, Invariant, PTL

(* A value in a column declared as its own type comes back, NULL as NULL,    *)
(* and neither does a row read through Any fail for it.                      *)
THEOREM ComesBack == Spec => []RoundTrip
<1>1. FlowInv => RoundTrip
  <2> DEFINE T == source[1]
             x == source[2]
  <2> SUFFICES ASSUME FlowInv, Written, column = Types[T].info
               PROVE  /\ Get(T, cell, column).ok /\ ReadBack(Get(T, cell, column).data, x)
                      /\ AnyGet(cell, column).ok
                      /\ T = AnyKind(column) => Same(AnyGet(cell, column).data, x)
    BY DEF RoundTrip
  <2>1. CASE x = NullData /\ cell = Null
    BY <2>1, GetNull, SameComes
  <2>2. CASE /\ T \in RustTypes /\ CanEncode(T, x) /\ Bindable(T, x)
             /\ Reads(T, x, cell, column)
    <3> HIDE DEF T, x
    <3>1. /\ column # "NULL" /\ column \in Types[T].accepts /\ Suits(T, Affinity(column))
          /\ Decode(AnyKind(column), Encode(T, x)).ok
      BY <2>2, OwnColumn DEF CanEncode
    <3>2. /\ cell.class # "null" /\ cell = Encode(T, x) /\ Decode(T, cell).ok
          /\ ReadBack(Decode(T, cell).data, x)
          /\ T # "DateTime" => Same(Decode(T, cell).data, x)
      BY <2>2, <3>1, SameComes DEF Reads
    <3>3. TypeInfo(cell, column) = column
      BY <3>1 DEF TypeInfo
    <3>4. Get(T, cell, column) = Decode(T, cell)
      BY <3>1, <3>2, <3>3 DEF Get
    <3>5. AnyGet(cell, column) = Decode(AnyKind(column), cell)
      BY <3>2, <3>3 DEF AnyGet
    <3>6. Decode(AnyKind(column), cell).ok
      BY <3>1, <3>2
    <3>7. AnyKind(column) # "DateTime"
      BY DEF AnyKind
    <3> QED BY <3>2, <3>4, <3>5, <3>6, <3>7
  <2> QED BY <2>1, <2>2, WrittenCell
<1> QED BY <1>1, Invariant, PTL

(* The type the macros infer for a column accepts the column and reads back  *)
(* what was written as that type, for every preferred date crate.            *)
THEOREM InferenceIsRight == Spec => []InferredTypeReadsBack
<1>1. FlowInv => InferredTypeReadsBack
  <2> SUFFICES ASSUME FlowInv, NEW dates \in {"inferred", "chrono", "time"}, Written,
                      TypePath(column, dates, "inferred") \in RustTypes,
                      source[1] = TypePath(column, dates, "inferred")
               PROVE  LET got == Get(source[1], cell, column)
                      IN  got.ok /\ Same(got.data, source[2])
    BY DEF InferredTypeReadsBack
  <2>1. CASE source[2] = NullData /\ cell = Null
    BY <2>1, GetNull
  <2>2. CASE column \in Names /\ Reads(source[1], source[2], cell, column)
    <3>1. /\ column # "NULL" /\ column \in Types[source[1]].accepts
          /\ Suits(source[1], Affinity(column))
      BY <2>2, InferredSuits
    <3>2. /\ cell.class # "null" /\ Decode(source[1], cell).ok
          /\ Same(Decode(source[1], cell).data, source[2])
      <4>1. source[1] # "DateTime"
        BY InferredTypes
      <4> QED BY <2>2, <3>1, <4>1, SameComes DEF Reads
    <3>3. Get(source[1], cell, column) = Decode(source[1], cell)
      BY <3>1, <3>2 DEF Get, TypeInfo
    <3> QED BY <3>2, <3>3
  <2> QED BY <2>1, <2>2, WrittenCell
<1> QED BY <1>1, Invariant, PTL

LEMMA DateTimeReal ==
  ASSUME NEW c, c.class = "real", c.data.form = ""
  PROVE  Decode("DateTime", c) = Julian(c.data.n)
<1>1. Types["DateTime"] = DateTime
  BY TypesAre
<1>2. /\ <<"real", "">> \in Types["DateTime"].reads /\ Types["DateTime"].sense = "instant"
  <2>1. NaiveDateTime.reads = In("text", MomentForms) \cup MomentClasses
    BY DEF NaiveDateTime, Formed, Plain
  <2>2. DateTime.reads = NaiveDateTime.reads /\ DateTime.sense = "instant"
    BY DEF DateTime, NaiveDateTime, Formed, Plain
  <2>3. <<"real", "">> \in MomentClasses
    BY DEF MomentClasses
  <2> QED BY <1>1, <2>1, <2>2, <2>3
<1>3. Decode("DateTime", c) = Moment(c, TRUE)
  BY <1>2 DEF Decode
<1> QED BY <1>3 DEF Moment

(* What others stored is not misread: an integer type reads the number that  *)
(* is stored or an error, and a REAL within the calendar is read as the date *)
(* it is but for half a nanosecond and half a step of each f64 computed,     *)
(* whatever a second, a day, a tick and these steps are.                     *)
THEOREM NothingMisread == Spec => []NumbersKept
<1>1. FlowInv => NumbersKept
  <2> SUFFICES ASSUME FlowInv
               PROVE  NumbersKept
    OBVIOUS
  <2>1. cell.data.n \in Int
    BY DEF FlowInv
  <2>2. ASSUME NEW T \in RustTypes, Types[T].range # {}, Decode(T, cell).ok
        PROVE  Decode(T, cell).data.n = cell.data.n
    <3>1. T \in IntegerTypes
      BY <2>2, TypesAre, OtherFields, FormedFields DEF Formatted
    <3> QED BY <2>2, <3>1, DecodeInteger
  <2>3. ASSUME cell.class = "real", cell.data.form = ""
        PROVE  LET exact == (cell.data.n - JulianEpoch) * SecondsPerDay
                   second == Since1970(cell.data.n) \div Second
                   bound == Ticks + SecondStep + SecondsPerDay * DayStep
                   got   == Decode("DateTime", cell)
               IN  {second, second + 1} \subseteq Calendar =>
                     /\ got.ok
                     /\ 2 * (got.data.n * Ticks - exact) \in -bound .. bound
    <3>1. PICK since : since = Since1970(cell.data.n)
      OBVIOUS
    <3>2. PICK exact : exact = (cell.data.n - JulianEpoch) * SecondsPerDay
      OBVIOUS
    <3>3. PICK far : far = SecondStep + SecondsPerDay * DayStep
      OBVIOUS
    <3>4. since \in Int /\ exact \in Int /\ 2 * (since - exact) \in -far .. far
      BY <2>1, <3>1, <3>2, <3>3, SinceIsNear
    <3>5. far \in Int /\ Ticks \in Int /\ Ticks + far = Ticks + SecondStep + SecondsPerDay * DayStep
      BY <3>3, ValuesAssumption
    <3>6. PICK got : got = Decode("DateTime", cell)
      OBVIOUS
    <3>7. PICK nanos : nanos = got.data.n * Ticks
      OBVIOUS
    <3>8. {since \div Second, since \div Second + 1} \subseteq Calendar =>
            got.ok /\ nanos \in Int /\ 2 * (nanos - since) \in -Ticks .. Ticks
      BY <2>1, <2>3, <3>1, <3>6, <3>7, DateTimeReal, JulianNearest
    <3>9. ASSUME {since \div Second, since \div Second + 1} \subseteq Calendar
          PROVE  got.ok /\ 2 * (nanos - exact) \in -(Ticks + far) .. Ticks + far
      BY <3>4, <3>5, <3>8, <3>9
    <3> QED BY <3>1, <3>2, <3>5, <3>6, <3>7, <3>9
  <2> QED BY <2>2, <2>3 DEF NumbersKept
<1> QED BY <1>1, Invariant, PTL

-----------------------------------------------------------------------------
(* Sequences of steps.                                                       *)

(* A set of numbers that is not empty has a least one.  Inductions are by it: *)
(* the least number for which something fails.                               *)
LEMMA LeastNatural ==
  ASSUME NEW T, T \subseteq Nat, T # {}
  PROVE  \E x \in T : \A y \in T : x <= y
<1> DEFINE R == OpToRel(<, Nat)
<1>1. IsWellFoundedOn(R, Nat)
  BY NatLessThanWellFounded
<1>2. \A x \in Nat, y \in Nat : x < y => <<x, y>> \in R
  BY DEF OpToRel
<1> HIDE DEF R
<1>3. PICK x \in T : \A y \in T : ~ (<<y, x>> \in R)
  BY <1>1, WFMin
<1>4. ASSUME NEW y \in T PROVE x <= y
  <2>1. ~ (<<y, x>> \in R) /\ x \in Nat /\ y \in Nat
    BY <1>3
  <2>2. ~ (y < x)
    BY <1>2, <2>1, Zenon
  <2> QED BY <2>1, <2>2
<1> QED BY <1>4

(* A sequence of n steps, each given by a function.                          *)
Iterated(r, S, n, x, f) ==
  r \in [0 .. n -> S] /\ r[0] = x /\ \A k \in 1 .. n : r[k] = f[<<k, r[k - 1]>>]

(* Steps can always be taken.                                                *)
LEMMA Iterates ==
  ASSUME NEW S, NEW n \in Nat, NEW x \in S, NEW f \in [(1 .. n) \X S -> S]
  PROVE  \E r : Iterated(r, S, n, x, f)
<1> DEFINE Steps(r, m) == Iterated(r, S, m, x, f)
           T == {m \in 0 .. n : ~ \E r : Steps(r, m)}
<1> SUFFICES ASSUME T # {} PROVE FALSE
  <2>1. T = {} => \E r : Steps(r, n)
    <3> HIDE DEF Steps
    <3> QED OBVIOUS
  <2> QED BY <2>1
<1>1. PICK m \in T : \A j \in T : m <= j
  <2>1. T \subseteq Nat
    OBVIOUS
  <2> HIDE DEF T
  <2> QED BY <2>1, LeastNatural
<1>2. m # 0
  <2> DEFINE r == [k \in 0 .. 0 |-> x]
  <2>1. Steps(r, 0)
    BY DEF Iterated
  <2> HIDE DEF r, Steps
  <2> QED BY <1>1, <2>1
<1>3. m - 1 \in 0 .. n /\ m \in 1 .. n /\ m - 1 \notin T
  <2>1. T \subseteq 0 .. n
    OBVIOUS
  <2> HIDE DEF T
  <2> QED BY <1>1, <1>2, <2>1
<1>4. PICK g : Steps(g, m - 1)
  BY <1>3
<1>9. /\ g \in [0 .. m - 1 -> S] /\ g[0] = x
      /\ \A k \in 1 .. m - 1 : g[k] = f[<<k, g[k - 1]>>]
  BY <1>4 DEF Iterated
<1> DEFINE r == [k \in 0 .. m |-> IF k = m THEN f[<<m, g[m - 1]>>] ELSE g[k]]
<1>5. g[m - 1] \in S /\ f[<<m, g[m - 1]>>] \in S
  <2>1. g[m - 1] \in S
    BY <1>3, <1>9
  <2>2. <<m, g[m - 1]>> \in (1 .. n) \X S
    BY <1>3, <2>1
  <2> QED BY <2>1, <2>2
<1>6. r \in [0 .. m -> S] /\ r[0] = x
  BY <1>3, <1>5, <1>9
<1>7. ASSUME NEW k \in 1 .. m PROVE r[k] = f[<<k, r[k - 1]>>]
  <2>1. r[k - 1] = g[k - 1]
    BY <1>3
  <2>2. CASE k = m
    BY <1>3, <2>1, <2>2
  <2>3. CASE k # m
    BY <1>3, <1>9, <2>1, <2>3
  <2> QED BY <2>2, <2>3
<1>8. Steps(r, m)
  BY <1>6, <1>7 DEF Iterated
<1> QED BY <1>1, <1>8

(* What escaping writes for a character.                                     *)
Two(c) == IF c = Quote THEN <<Quote, Quote>> ELSE <<c>>

(* It is one or two characters.                                              *)
LEMMA TwoIs ==
  ASSUME NEW C, NEW c \in C, Quote \in C
  PROVE  Two(c) \in Seq(C) /\ Len(Two(c)) \in 1 .. 2
BY DEF Two

(* What escaping has written after each character of a name.                 *)
Escaping(id, e) ==
  /\ DOMAIN e = 0 .. Len(id) /\ e[0] = <<>>
  /\ \A k \in 1 .. Len(id) : e[k] = e[k - 1] \o Two(id[k])

(* The characters are written one after the other.                           *)
LEMMA EscapedIs ==
  ASSUME NEW C, Quote \in C, NEW id \in Seq(C)
  PROVE  \E e \in [0 .. Len(id) -> Seq(C)] : Escaping(id, e) /\ Escaped(id) = e[Len(id)]
<1> DEFINE L == Len(id)
           q == [k \in DOMAIN id |-> Two(id[k])]
           Rec(g) == g = [k \in 1 .. L |-> IF k = 1 THEN q[k] ELSE g[k - 1] \o q[k]]
           g == CHOOSE g : Rec(g)
<1>0. L \in Nat /\ DOMAIN id = 1 .. L /\ DOMAIN q = 1 .. L /\ \A k \in 1 .. L : id[k] \in C
  OBVIOUS
<1>1. q \in Seq(Seq(C)) /\ Len(q) = L /\ \A k \in 1 .. L : q[k] = Two(id[k]) /\ q[k] \in Seq(C)
  <2>1. \A k \in 1 .. L : q[k] = Two(id[k]) /\ q[k] \in Seq(C)
    BY <1>0, TwoIs
  <2> QED BY <1>0, <2>1
<1>2. Escaped(id) = FlattenSeq(q)
  BY Zenon DEF Escaped, Two
<1>3. CASE L = 0
  <2>1. Escaped(id) = <<>>
    <3>1. q = <<>>
      BY <1>0, <1>1, <1>3
    <3> QED BY <1>1, <1>2, <1>3, <3>1, Zenon DEF FlattenSeq
  <2> DEFINE e == [k \in 0 .. 0 |-> <<>>]
  <2>2. e \in [0 .. 0 -> Seq(C)] /\ e[0] = <<>> /\ DOMAIN e = 0 .. 0
    OBVIOUS
  <2> HIDE DEF e
  <2> QED BY <1>3, <2>1, <2>2 DEF Escaping
<1>4. CASE L # 0
  <2> DEFINE f == [p \in (1 .. L) \X Seq(C) |-> p[2] \o q[p[1]]]
  <2>1. f \in [(1 .. L) \X Seq(C) -> Seq(C)]
    <3>1. ASSUME NEW p \in (1 .. L) \X Seq(C) PROVE p[2] \o q[p[1]] \in Seq(C)
      <4>1. p[1] \in 1 .. L /\ p[2] \in Seq(C)
        OBVIOUS
      <4>2. q[p[1]] \in Seq(C)
        BY <1>1, <4>1
      <4> HIDE DEF q
      <4> QED BY <4>1, <4>2
    <3> HIDE DEF q
    <3> QED BY <3>1
  <2>2. \A k \in 1 .. L, t \in Seq(C) : f[<<k, t>>] = t \o q[k]
    OBVIOUS
  <2>3. <<>> \in Seq(C)
    OBVIOUS
  <2> HIDE DEF f, q, L
  <2>4. PICK r \in [0 .. L -> Seq(C)] : r[0] = <<>> /\ \A k \in 1 .. L : r[k] = f[<<k, r[k - 1]>>]
    <3>1. L \in Nat
      BY <1>0
    <3>2. PICK r : Iterated(r, Seq(C), L, <<>>, f)
      BY <2>1, <2>3, <3>1, Iterates
    <3> QED BY <3>2 DEF Iterated
  <2>5. \A k \in 1 .. L : k - 1 \in 0 .. L /\ r[k - 1] \in Seq(C) /\ r[k] = r[k - 1] \o q[k]
    <3>1. \A k \in 1 .. L : k - 1 \in 0 .. L
      BY <1>0
    <3> QED BY <2>2, <2>4, <3>1
  <2>6. \E h : Rec(h)
    <3> DEFINE h == [k \in 1 .. L |-> r[k]]
               i == [k \in 1 .. L |-> IF k = 1 THEN q[k] ELSE h[k - 1] \o q[k]]
    <3>1. ASSUME NEW k \in 1 .. L PROVE h[k] = i[k]
      <4>1. CASE k = 1
        <5>1. q[1] \in Seq(C)
          BY <1>1, <4>1
        <5>2. r[1] = <<>> \o q[1]
          <6>1. 1 \in 1 .. L /\ 1 - 1 = 0
            BY <4>1
          <6> QED BY <2>4, <2>5, <6>1
        <5> QED BY <4>1, <5>1, <5>2
      <4>2. CASE k # 1
        <5>1. k - 1 \in 1 .. L
          BY <1>0, <4>2
        <5> QED BY <2>5, <4>2, <5>1
      <4> QED BY <4>1, <4>2
    <3>2. h = i
      BY <3>1
    <3>3. Rec(h)
      BY <3>2
    <3> QED BY <3>3
  <2>7. Rec(g)
    BY <2>6
  <2>8. Escaped(id) = g[L]
    BY <1>1, <1>2, <1>4, Zenon DEF FlattenSeq
  <2> DEFINE e == [k \in 0 .. L |-> IF k = 0 THEN <<>> ELSE g[k]]
  <2> HIDE DEF g
  <2>9. DOMAIN e = 0 .. L /\ e[0] = <<>> /\ e[L] = g[L]
    BY <1>0, <1>4
  <2>10. \A k \in 1 .. L : k - 1 \in 0 .. L /\ e[k] = g[k] /\ e[k - 1] = IF k = 1 THEN <<>> ELSE g[k - 1]
    BY <1>0
  <2>11. \A k \in 1 .. L : g[k] = IF k = 1 THEN q[k] ELSE g[k - 1] \o q[k]
    BY <2>7
  <2> HIDE DEF e
  <2>12. ASSUME NEW k \in 1 .. L PROVE e[k] = e[k - 1] \o q[k]
    <3>1. <<>> \o q[k] = q[k]
      BY <1>1
    <3> QED BY <2>10, <2>11, <3>1
  <2>13. \A k \in 0 .. L : e[k] \in Seq(C)
    <3> DEFINE T == {m \in 0 .. L : e[m] \notin Seq(C)}
    <3> SUFFICES ASSUME T # {} PROVE FALSE
      OBVIOUS
    <3>1. PICK m \in T : \A j \in T : m <= j
      <4>1. T \subseteq Nat
        OBVIOUS
      <4> HIDE DEF T
      <4> QED BY <4>1, LeastNatural
    <3>2. m \in 1 .. L /\ m - 1 \in 0 .. L /\ m - 1 \notin T
      <4>1. m # 0 /\ T \subseteq 0 .. L
        BY <2>3, <2>9, <3>1
      <4> HIDE DEF T
      <4> QED BY <1>0, <3>1, <4>1
    <3>3. e[m - 1] \in Seq(C)
      BY <3>2
    <3>4. q[m] \in Seq(C) /\ e[m] = e[m - 1] \o q[m]
      BY <1>1, <2>12, <3>2
    <3>5. e[m] \in Seq(C)
      BY <3>3, <3>4
    <3> QED BY <3>1, <3>5
  <2>14. \A k \in 1 .. L : e[k] = e[k - 1] \o Two(id[k])
    BY <1>1, <2>12
  <2>15. e \in [0 .. L -> Seq(C)]
    BY <2>9, <2>13 DEF e
  <2>16. DOMAIN e = 0 .. Len(id) /\ L = Len(id)
    BY <2>9 DEF L
  <2>17. Escaping(id, e)
    BY <2>9, <2>14, <2>16 DEF Escaping
  <2> QED BY <2>8, <2>9, <2>15, <2>16, <2>17, Zenon
<1> QED BY <1>3, <1>4

-----------------------------------------------------------------------------
(* Counting quotes.                                                          *)

(* A character adds one to the quotes before it, or none.                    *)
LEMMA QuotesNext ==
  ASSUME NEW s, NEW i \in Nat \ {0}
  PROVE  /\ Quotes(s, i) \in Nat /\ Quotes(s, 1) = 0
         /\ Quotes(s, i + 1) = IF s[i] = Quote THEN Quotes(s, i) + 1 ELSE Quotes(s, i)
<1> DEFINE Q(j) == {k \in 1 .. j - 1 : s[k] = Quote}
<1>1. IsFiniteSet(Q(i)) /\ IsFiniteSet(Q(i + 1))
  <2>1. IsFiniteSet(1 .. i)
    BY FS_Interval
  <2>2. Q(i) \subseteq 1 .. i /\ Q(i + 1) \subseteq 1 .. i
    OBVIOUS
  <2> HIDE DEF Q
  <2> QED BY <2>1, <2>2, FS_Subset
<1>2. Q(1) = {}
  OBVIOUS
<1>3. CASE s[i] = Quote
  <2>1. Q(i + 1) = Q(i) \cup {i} /\ i \notin Q(i)
    BY <1>3
  <2> HIDE DEF Q
  <2>2. Cardinality(Q(i + 1)) = Cardinality(Q(i)) + 1
    BY <1>1, <2>1, FS_AddElement
  <2>3. Cardinality(Q(i)) \in Nat /\ Cardinality(Q(1)) = 0
    BY <1>1, <1>2, FS_CardinalityType, FS_EmptySet
  <2> QED BY <1>3, <2>2, <2>3 DEF Quotes, Q
<1>4. CASE s[i] # Quote
  <2>1. Q(i + 1) = Q(i)
    BY <1>4
  <2> HIDE DEF Q
  <2>2. Cardinality(Q(i)) \in Nat /\ Cardinality(Q(1)) = 0
    BY <1>1, <1>2, FS_CardinalityType, FS_EmptySet
  <2> QED BY <1>4, <2>1, <2>2 DEF Quotes, Q
<1> QED BY <1>3, <1>4

(* t is what s holds after position i, and so has those quotes.              *)
PartFrom(s, i, t, n) == \A j \in 1 .. n : t[j] = s[i + j]
CountsFrom(s, i, t, n) == \A j \in 0 .. n : Quotes(s, i + j + 1) = Quotes(s, i + 1) + Quotes(t, j + 1)

(* Part and whole count alike, from where the part begins.                   *)
LEMMA QuotesWithin ==
  ASSUME NEW s, NEW t, NEW n \in Nat, NEW i \in Nat, PartFrom(s, i, t, n)
  PROVE  CountsFrom(s, i, t, n)
<1> DEFINE T == {j \in 0 .. n : Quotes(s, i + j + 1) # Quotes(s, i + 1) + Quotes(t, j + 1)}
<1> SUFFICES ASSUME T # {} PROVE FALSE
  BY DEF CountsFrom
<1>1. PICK m \in T : \A j \in T : m <= j
  <2>1. T \subseteq Nat
    OBVIOUS
  <2> HIDE DEF T
  <2> QED BY <2>1, LeastNatural
<1>2. m # 0
  <2>1. Quotes(s, i + 1) \in Nat /\ Quotes(t, 1) = 0
    BY QuotesNext
  <2>2. Quotes(s, i + 0 + 1) = Quotes(s, i + 1) /\ Quotes(t, 0 + 1) = Quotes(t, 1)
    <3>1. i + 0 + 1 = i + 1 /\ 0 + 1 = 1
      OBVIOUS
    <3> QED BY <3>1
  <2> QED BY <1>1, <2>1, <2>2
<1>3. m \in 1 .. n /\ m - 1 \in 0 .. n /\ m - 1 \notin T
  <2>1. T \subseteq 0 .. n
    OBVIOUS
  <2> HIDE DEF T
  <2> QED BY <1>1, <1>2, <2>1
<1>4. Quotes(s, i + m) = Quotes(s, i + 1) + Quotes(t, m)
  <2>1. i + (m - 1) + 1 = i + m /\ (m - 1) + 1 = m
    BY <1>3
  <2> QED BY <1>3, <2>1
<1>5. /\ Quotes(s, i + m + 1) = IF s[i + m] = Quote THEN Quotes(s, i + m) + 1 ELSE Quotes(s, i + m)
      /\ Quotes(t, m + 1) = IF t[m] = Quote THEN Quotes(t, m) + 1 ELSE Quotes(t, m)
      /\ Quotes(t, m) \in Nat /\ Quotes(s, i + 1) \in Nat
  <2>1. i + m \in Nat \ {0} /\ m \in Nat \ {0} /\ i + 1 \in Nat \ {0}
    BY <1>3
  <2> QED BY <2>1, QuotesNext
<1>6. t[m] = s[i + m]
  BY <1>3 DEF PartFrom
<1> QED BY <1>1, <1>3, <1>4, <1>5, <1>6

(* Parity.                                                                   *)
LEMMA Parity ==
  ASSUME NEW a \in Nat, NEW b \in Nat
  PROVE  /\ a % 2 \in {0, 1} /\ (a + 1) % 2 = 1 - (a % 2)
         /\ (a + b) % 2 = a % 2 <=> b % 2 = 0
OBVIOUS

-----------------------------------------------------------------------------
(* A part of a text that is a name: from position i to before position e.    *)
BareAt(s, i, e) == i < e /\ s[i] = "x" /\ \A m \in i .. e - 1 : s[m] \in {"x", "1"}

QuotedAt(s, i, e) ==
  /\ e - i > 2 /\ s[i] = Quote /\ s[e - 1] = Quote
  /\ Quotes(s, e) % 2 = Quotes(s, i) % 2
  /\ \A m \in i .. e - 1 : s[m] # Quote => Quotes(s, m) % 2 # Quotes(s, i) % 2

(* IsNamePart of a part of a text, in positions of the text.                 *)
LEMMA PartAt ==
  ASSUME NEW C, NEW s \in Seq(C), NEW i \in 1 .. Len(s) + 1, NEW e \in i .. Len(s) + 1
  PROVE  IsNamePart(SubSeq(s, i, e - 1)) <=> BareAt(s, i, e) \/ QuotedAt(s, i, e)
<1>1. PICK t : t = SubSeq(s, i, e - 1)
  OBVIOUS
<1>2. Len(s) \in Nat /\ i \in Nat \ {0} /\ e \in Nat \ {0} /\ i <= e
  OBVIOUS
<1>3. /\ Len(t) = e - i /\ DOMAIN t = 1 .. e - i
      /\ \A j \in 1 .. e - i : t[j] = s[i - 1 + j]
  <2>1. \A j \in i .. e - 1 : s[j] \in C
    BY <1>2
  <2>2. t \in Seq(C) /\ Len(t) = (IF i <= e - 1 THEN e - 1 - i + 1 ELSE 0)
        /\ \A j \in 1 .. e - 1 - i + 1 : t[j] = s[i + j - 1]
    BY <1>1, <1>2, <2>1, SubSeqProperties
  <2> QED BY <1>2, <2>2
<1>4. \A j \in 0 .. e - i : Quotes(s, i + j) = Quotes(s, i) + Quotes(t, j + 1)
  <2>1. e - i \in Nat /\ i - 1 \in Nat /\ (i - 1) + 1 = i
    BY <1>2
  <2>2. \A j \in 0 .. e - i : Quotes(s, i - 1 + j + 1) = Quotes(s, i - 1 + 1) + Quotes(t, j + 1)
    <3>1. PartFrom(s, i - 1, t, e - i)
      BY <1>3 DEF PartFrom
    <3>2. CountsFrom(s, i - 1, t, e - i)
      BY <2>1, <3>1, QuotesWithin
    <3> QED BY <3>2 DEF CountsFrom
  <2>3. \A j \in 0 .. e - i : i - 1 + j + 1 = i + j
    BY <1>2
  <2> QED BY <2>1, <2>2, <2>3
<1>5. t # <<>> <=> i < e
  BY <1>2, <1>3
<1>6. /\ (\A j \in DOMAIN t : t[j] \in {"x", "1"}) <=> \A m \in i .. e - 1 : s[m] \in {"x", "1"}
      /\ i < e => t[1] = s[i] /\ t[Len(t)] = s[e - 1]
  <2>1. \A m \in i .. e - 1 : m - i + 1 \in 1 .. e - i /\ i - 1 + (m - i + 1) = m
    BY <1>2
  <2>2. \A j \in 1 .. e - i : i - 1 + j \in i .. e - 1
    BY <1>2
  <2>3. i < e => i - 1 + 1 = i /\ i - 1 + (e - i) = e - 1 /\ 1 \in 1 .. e - i /\ e - i \in 1 .. e - i
    BY <1>2
  <2> QED BY <1>3, <2>1, <2>2, <2>3
<1>7. Quotes(t, Len(t) + 1) % 2 = 0 <=> Quotes(s, e) % 2 = Quotes(s, i) % 2
  <2>1. e - i \in 0 .. e - i /\ i + (e - i) = e /\ Len(t) + 1 \in Nat \ {0}
    BY <1>2, <1>3
  <2>2. Quotes(s, e) = Quotes(s, i) + Quotes(t, Len(t) + 1)
    BY <1>3, <1>4, <2>1
  <2>3. Quotes(s, i) \in Nat /\ Quotes(t, Len(t) + 1) \in Nat
    BY <1>2, <2>1, QuotesNext
  <2> QED BY <2>2, <2>3, Parity
<1>8. Outside(t) = {} <=> \A m \in i .. e - 1 : s[m] # Quote => Quotes(s, m) % 2 # Quotes(s, i) % 2
  <2>1. ASSUME NEW j \in 1 .. e - i
        PROVE  /\ i - 1 + j \in i .. e - 1 /\ t[j] = s[i - 1 + j]
               /\ Quotes(t, j) % 2 = 0 <=> Quotes(s, i - 1 + j) % 2 = Quotes(s, i) % 2
    <3>1. j - 1 \in 0 .. e - i /\ i + (j - 1) = i - 1 + j /\ (j - 1) + 1 = j /\ j \in Nat \ {0}
      BY <1>2
    <3>2. Quotes(s, i - 1 + j) = Quotes(s, i) + Quotes(t, j)
      BY <1>4, <3>1
    <3>3. Quotes(s, i) \in Nat /\ Quotes(t, j) \in Nat
      BY <1>2, <3>1, QuotesNext
    <3>4. Quotes(t, j) % 2 = 0 <=> Quotes(s, i - 1 + j) % 2 = Quotes(s, i) % 2
      <4>1. (Quotes(s, i) + Quotes(t, j)) % 2 = Quotes(s, i) % 2 <=> Quotes(t, j) % 2 = 0
        BY <3>3, Parity
      <4> QED BY <3>2, <4>1, Zenon
    <3> QED BY <1>2, <1>3, <3>4
  <2>2. \A m \in i .. e - 1 : m - i + 1 \in 1 .. e - i /\ i - 1 + (m - i + 1) = m
    BY <1>2
  <2>3. Outside(t) = {} <=> \A j \in 1 .. e - i : ~(t[j] # Quote /\ Quotes(t, j) % 2 = 0)
    BY <1>3, Zenon DEF Outside
  <2>4. ASSUME NEW m \in i .. e - 1, \A j \in 1 .. e - i : ~(t[j] # Quote /\ Quotes(t, j) % 2 = 0)
        PROVE  s[m] # Quote => Quotes(s, m) % 2 # Quotes(s, i) % 2
    <3>1. PICK j \in 1 .. e - i : i - 1 + j = m
      BY <2>2
    <3> QED BY <2>1, <2>4, <3>1
  <2>5. ASSUME NEW j \in 1 .. e - i, t[j] # Quote, Quotes(t, j) % 2 = 0
        PROVE  \E m \in i .. e - 1 : s[m] # Quote /\ Quotes(s, m) % 2 = Quotes(s, i) % 2
    BY <2>1, <2>5
  <2> QED BY <2>3, <2>4, <2>5, Zenon
<1>9. Len(t) > 2 <=> e - i > 2
  BY <1>2, <1>3
<1>10. BareAt(s, i, e) <=> t # <<>> /\ t[1] = "x" /\ \A j \in DOMAIN t : t[j] \in {"x", "1"}
  BY <1>5, <1>6, Zenon DEF BareAt
<1>11. QuotedAt(s, i, e) <=> /\ Len(t) > 2 /\ t[1] = Quote /\ t[Len(t)] = Quote
                             /\ Quotes(t, Len(t) + 1) % 2 = 0 /\ Outside(t) = {}
  <2>1. Len(t) > 2 => i < e
    BY <1>2, <1>3
  <2> QED BY <1>6, <1>7, <1>8, <1>9, <2>1, Zenon DEF QuotedAt
<1> QED BY <1>1, <1>10, <1>11, Zenon DEF IsNamePart

-----------------------------------------------------------------------------
(* The loop over a quoted name.                                              *)

(* The states of the loop, its first one, and what the parser makes of its   *)
(* last.                                                                     *)
ReadStates(C) == [id : Seq(C), at : Nat \ {0}, open : BOOLEAN]
Opened(i) == [id |-> <<>>, at |-> i, open |-> TRUE]
Closed(r) == IF r.open \/ r.id = <<>> THEN Invalid ELSE Parsed(r.id, r.at)

(* One round, in each of its cases.                                          *)
LEMMA ReadQuotedIn ==
  ASSUME NEW C, Quote \in C, NEW s \in Seq(C), NEW r \in ReadStates(C), NEW t, t = ReadQuoted(s, r)
  PROVE  /\ t \in ReadStates(C)
         /\ ~r.open \/ r.at > Len(s) => t = r
         /\ r.open /\ r.at <= Len(s) /\ s[r.at] # Quote =>
              t.id = Append(r.id, s[r.at]) /\ t.at = r.at + 1 /\ t.open
         /\ r.open /\ r.at <= Len(s) /\ s[r.at] = Quote /\ Char(s, r.at + 1) = Quote =>
              t.id = Append(r.id, Quote) /\ t.at = r.at + 2 /\ t.open
         /\ r.open /\ r.at <= Len(s) /\ s[r.at] = Quote /\ Char(s, r.at + 1) # Quote =>
              t.id = r.id /\ t.at = r.at + 1 /\ ~t.open
<1>1. r.id \in Seq(C) /\ r.at \in Nat \ {0} /\ r.open \in BOOLEAN /\ DOMAIN r = {"id", "at", "open"}
      /\ Len(s) \in Nat
  BY DEF ReadStates
<1>2. ASSUME ~r.open \/ r.at > Len(s) PROVE t = r
  BY <1>2, Zenon DEF ReadQuoted
<1>3. \A x \in Seq(C), a \in Nat \ {0}, o \in BOOLEAN :
        t = [id |-> x, at |-> a, open |-> o] => /\ t \in ReadStates(C) /\ t.id = x /\ t.at = a
                                                /\ t.open = o
  BY DEF ReadStates
<1>4. ASSUME r.open, r.at <= Len(s) PROVE ~(~r.open \/ r.at > Len(s))
  <2>1. ~(r.at > Len(s))
    BY <1>1, <1>4
  <2> QED BY <1>4, <2>1, Zenon
<1>5. ASSUME r.open, r.at <= Len(s), s[r.at] # Quote
      PROVE  /\ t \in ReadStates(C)
             /\ t.id = Append(r.id, s[r.at]) /\ t.at = r.at + 1 /\ t.open = r.open
  <2>1. t = [r EXCEPT !.id = Append(@, s[r.at]), !.at = @ + 1]
    BY <1>4, <1>5, Zenon DEF ReadQuoted
  <2>2. s[r.at] \in C
    BY <1>1, <1>5
  <2>3. Append(r.id, s[r.at]) \in Seq(C) /\ r.at + 1 \in Nat \ {0}
    BY <1>1, <2>2
  <2>4. t = [id |-> Append(r.id, s[r.at]), at |-> r.at + 1, open |-> r.open]
    BY <1>1, <2>1 DEF ReadStates
  <2> QED BY <1>1, <1>3, <2>3, <2>4
<1>6. ASSUME r.open, r.at <= Len(s), s[r.at] = Quote, Char(s, r.at + 1) = Quote
      PROVE  /\ t \in ReadStates(C)
             /\ t.id = Append(r.id, Quote) /\ t.at = r.at + 2 /\ t.open = r.open
  <2>1. t = [r EXCEPT !.id = Append(@, Quote), !.at = @ + 2]
    BY <1>4, <1>6, Zenon DEF ReadQuoted
  <2>2. Append(r.id, Quote) \in Seq(C) /\ r.at + 2 \in Nat \ {0}
    BY <1>1
  <2>3. t = [id |-> Append(r.id, Quote), at |-> r.at + 2, open |-> r.open]
    BY <1>1, <2>1 DEF ReadStates
  <2> QED BY <1>1, <1>3, <2>2, <2>3
<1>7. ASSUME r.open, r.at <= Len(s), s[r.at] = Quote, Char(s, r.at + 1) # Quote
      PROVE  /\ t \in ReadStates(C)
             /\ t.id = r.id /\ t.at = r.at + 1 /\ t.open = FALSE
  <2>1. t = [r EXCEPT !.at = @ + 1, !.open = FALSE]
    BY <1>4, <1>7, Zenon DEF ReadQuoted
  <2>2. t = [id |-> r.id, at |-> r.at + 1, open |-> FALSE]
    BY <1>1, <2>1 DEF ReadStates
  <2>3. r.at + 1 \in Nat \ {0}
    BY <1>1
  <2> QED BY <1>1, <1>3, <2>2, <2>3
<1>8. r.at > Len(s) \/ r.at <= Len(s)
  BY <1>1
<1> QED BY <1>2, <1>5, <1>6, <1>7, <1>8, Zenon

(* The rounds of the loop.                                                   *)
QuotedRounds(s, i, r) ==
  /\ r[0] = Opened(i) /\ \A k \in 1 .. Len(s) : r[k] = ReadQuoted(s, r[k - 1])
  /\ ParseQuoted(s, i) = Closed(r[Len(s)])

(* The recursive function that parse_quoted_prefix is modelled by has them.  *)
LEMMA QuotedIs ==
  ASSUME NEW C, Quote \in C, NEW s \in Seq(C), NEW i \in Nat \ {0}
  PROVE  \E r \in [0 .. Len(s) -> ReadStates(C)] : QuotedRounds(s, i, r)
<1> DEFINE n == Len(s)
           Rec(r) == r = [k \in 0 .. n |-> IF k = 0 THEN Opened(i) ELSE ReadQuoted(s, r[k - 1])]
           read == CHOOSE r : Rec(r)
           f == [p \in (1 .. n) \X ReadStates(C) |-> ReadQuoted(s, p[2])]
<1>1. n \in Nat /\ Opened(i) \in ReadStates(C)
  <2>1. <<>> \in Seq(C)
    OBVIOUS
  <2> QED BY <2>1 DEF ReadStates, Opened
<1>2. f \in [(1 .. n) \X ReadStates(C) -> ReadStates(C)]
  <2>1. ASSUME NEW p \in (1 .. n) \X ReadStates(C) PROVE ReadQuoted(s, p[2]) \in ReadStates(C)
    <3>1. PICK r : r = p[2] /\ r \in ReadStates(C)
      OBVIOUS
    <3>2. ReadQuoted(s, r) \in ReadStates(C)
      BY <3>1, ReadQuotedIn
    <3> QED BY <3>1, <3>2
  <2> HIDE DEF n
  <2> QED BY <2>1
<1>3. \A k \in 1 .. n, x \in ReadStates(C) : f[<<k, x>>] = ReadQuoted(s, x)
  OBVIOUS
<1> HIDE DEF f, n
<1>4. PICK r : Iterated(r, ReadStates(C), n, Opened(i), f)
  BY <1>1, <1>2, Iterates
<1>5. r \in [0 .. n -> ReadStates(C)] /\ r[0] = Opened(i) /\ \A k \in 1 .. n : r[k] = f[<<k, r[k - 1]>>]
  BY <1>4, Zenon DEF Iterated
<1>6. \A k \in 1 .. n : r[k] = ReadQuoted(s, r[k - 1])
  <2>1. \A k \in 1 .. n : k - 1 \in 0 .. n
    BY <1>1
  <2> QED BY <1>3, <1>5, <2>1
<1>7. Rec(r)
  <2> DEFINE h == [k \in 0 .. n |-> IF k = 0 THEN Opened(i) ELSE ReadQuoted(s, r[k - 1])]
  <2>1. ASSUME NEW k \in 0 .. n PROVE r[k] = h[k]
    <3>1. k # 0 => k \in 1 .. n
      BY <1>1
    <3> QED BY <1>5, <1>6, <3>1
  <2>2. r = h
    BY <1>5, <2>1
  <2> QED BY <2>2
<1>8. Rec(read)
  BY <1>7
<1>9. ParseQuoted(s, i) = Closed(read[n])
  BY Zenon DEF ParseQuoted, Closed, Opened, n
<1> HIDE DEF read
<1>10. read[0] = Opened(i) /\ \A k \in 1 .. n : read[k] = ReadQuoted(s, read[k - 1])
  BY <1>1, <1>8
<1>11. read \in [0 .. n -> ReadStates(C)]
  <2> DEFINE T == {m \in 0 .. n : read[m] \notin ReadStates(C)}
  <2>1. DOMAIN read = 0 .. n
    BY <1>8
  <2>2. read = [k \in 0 .. n |-> read[k]]
    BY <1>8
  <2> SUFFICES ASSUME T # {} PROVE FALSE
    BY <2>2
  <2>3. PICK m \in T : \A j \in T : m <= j
    <3>1. T \subseteq Nat
      OBVIOUS
    <3> HIDE DEF T
    <3> QED BY <3>1, LeastNatural
  <2>4. m # 0 /\ T \subseteq 0 .. n
    BY <1>1, <1>10, <2>3
  <2>5. m \in 1 .. n /\ m - 1 \in 0 .. n /\ m - 1 \notin T
    <3> HIDE DEF T
    <3> QED BY <1>1, <2>3, <2>4
  <2>6. read[m - 1] \in ReadStates(C) /\ read[m] = ReadQuoted(s, read[m - 1])
    BY <1>10, <2>5
  <2>7. read[m] \in ReadStates(C)
    BY <2>6, ReadQuotedIn
  <2> QED BY <2>3, <2>7
<1> QED BY <1>9, <1>10, <1>11, Zenon DEF QuotedRounds, n

-----------------------------------------------------------------------------
(* Where the loop ends.  From i to j the quotes of a name are all doubled.   *)
Inside(s, i, j) ==
  /\ Quotes(s, j) % 2 = Quotes(s, i) % 2
  /\ \A m \in i .. j - 1 : s[m] # Quote => Quotes(s, m) % 2 = Quotes(s, i) % 2

(* A character that is no quote, or a pair of quotes, stays inside; the first *)
(* quote of a pair, and the closing one, leaves.                             *)
LEMMA InsideNext ==
  ASSUME NEW s, NEW i \in Nat \ {0}, NEW j \in Nat, j >= i, Inside(s, i, j)
  PROVE  /\ s[j] # Quote => Inside(s, i, j + 1)
         /\ s[j] = Quote /\ s[j + 1] = Quote => Inside(s, i, j + 2)
         /\ s[j] = Quote => Quotes(s, j + 1) % 2 # Quotes(s, i) % 2
<1>1. j \in Nat \ {0} /\ j + 1 \in Nat \ {0} /\ j + 1 + 1 = j + 2 /\ j + 1 - 1 = j /\ j + 2 - 1 = j + 1
  OBVIOUS
<1>2. PICK a, b, c, d : a = Quotes(s, i) /\ b = Quotes(s, j) /\ c = Quotes(s, j + 1) /\ d = Quotes(s, j + 2)
  OBVIOUS
<1>3. /\ a \in Nat /\ b \in Nat /\ c = (IF s[j] = Quote THEN b + 1 ELSE b)
      /\ d = IF s[j + 1] = Quote THEN c + 1 ELSE c
  BY <1>1, <1>2, QuotesNext
<1>4. b % 2 = a % 2
  BY <1>2 DEF Inside
<1>5. a % 2 \in {0, 1} /\ b % 2 \in {0, 1} /\ (b + 1) % 2 = 1 - (b % 2)
      /\ ((b + 1) + 1) % 2 = 1 - ((b + 1) % 2)
  <2>1. b + 1 \in Nat
    BY <1>3
  <2> QED BY <1>3, <2>1, Parity
<1>6. ASSUME s[j] # Quote PROVE Inside(s, i, j + 1)
  <2>1. \A m \in i .. j + 1 - 1 : m \in i .. j - 1 \/ m = j
    OBVIOUS
  <2> QED BY <1>2, <1>3, <1>4, <1>6, <2>1 DEF Inside
<1>7. ASSUME s[j] = Quote, s[j + 1] = Quote PROVE Inside(s, i, j + 2)
  <2>1. \A m \in i .. j + 2 - 1 : m \in i .. j - 1 \/ m = j \/ m = j + 1
    OBVIOUS
  <2>2. d % 2 = a % 2
    BY <1>3, <1>4, <1>5, <1>7
  <2> QED BY <1>2, <1>7, <2>1, <2>2 DEF Inside
<1>8. s[j] = Quote => c % 2 # a % 2
  BY <1>3, <1>4, <1>5
<1> QED BY <1>2, <1>6, <1>7, <1>8

(* The state of the loop after k rounds.                                     *)
RoundInv(s, i, k, x) ==
  /\ x.at \in i .. Len(s) + 1
  /\ x.open => /\ Inside(s, i, x.at)
               /\ x.at >= i + k \/ x.at = Len(s) + 1
               /\ x.id = <<>> <=> x.at = i
  /\ ~x.open => /\ x.at > i /\ s[x.at - 1] = Quote /\ Char(s, x.at) # Quote
                /\ Inside(s, i, x.at - 1)
                /\ x.id = <<>> <=> x.at - 1 = i

(* It holds before the first round,                                          *)
LEMMA RoundInvStart ==
  ASSUME NEW C, NEW s \in Seq(C), NEW i \in 1 .. Len(s) + 1
  PROVE  RoundInv(s, i, 0, Opened(i))
<1>1. Len(s) \in Nat /\ i \in Nat /\ i + 0 = i
  OBVIOUS
<1>2. Inside(s, i, i)
  BY <1>1 DEF Inside
<1>3. Opened(i).at = i /\ Opened(i).open = TRUE /\ Opened(i).id = <<>>
  BY DEF Opened
<1> QED BY <1>1, <1>2, <1>3 DEF RoundInv

(* and is kept by every round.                                               *)
LEMMA RoundInvNext ==
  ASSUME NEW C, Quote \in C, NEW s \in Seq(C), NEW i \in 1 .. Len(s) + 1, NEW k \in Nat, k # 0,
         NEW x \in ReadStates(C), RoundInv(s, i, k - 1, x), NEW t, t = ReadQuoted(s, x)
  PROVE  RoundInv(s, i, k, t)
<1>1. Len(s) \in Nat /\ i \in Nat \ {0} /\ x.at \in Nat \ {0} /\ x.id \in Seq(C) /\ x.open \in BOOLEAN
  BY DEF ReadStates
<1>2. x.at \in i .. Len(s) + 1
  BY DEF RoundInv
<1>3. ASSUME x.open
      PROVE  /\ Inside(s, i, x.at)
             /\ x.at >= i + (k - 1) \/ x.at = Len(s) + 1
             /\ x.id = <<>> <=> x.at = i
  BY <1>3, Zenon DEF RoundInv
<1>4. CASE ~x.open
  <2>1. t = x
    BY <1>4, ReadQuotedIn
  <2> QED BY <1>4, <2>1, Zenon DEF RoundInv
<1>5. CASE x.open /\ x.at > Len(s)
  <2>1. t = x
    BY <1>5, ReadQuotedIn
  <2>2. x.at = Len(s) + 1
    BY <1>1, <1>2, <1>5
  <2> QED BY <1>2, <1>3, <1>5, <2>1, <2>2, Zenon DEF RoundInv
<1>6. CASE x.open /\ x.at <= Len(s) /\ s[x.at] # Quote
  <2>1. t.id = Append(x.id, s[x.at]) /\ t.at = x.at + 1 /\ t.open
    BY <1>6, ReadQuotedIn
  <2>2. Inside(s, i, x.at + 1)
    <3>1. PICK j : j = x.at
      OBVIOUS
    <3>2. j \in Nat /\ j >= i /\ j <= Len(s) /\ Inside(s, i, j) /\ s[j] # Quote
      BY <1>1, <1>2, <1>3, <1>6, <3>1
    <3>3. Inside(s, i, j + 1)
      BY <1>1, <3>2, InsideNext
    <3> QED BY <3>1, <3>3
  <2>3. t.id # <<>> /\ t.at # i
    <3>1. s[x.at] \in C
      BY <1>1, <1>6
    <3> QED BY <1>1, <1>2, <2>1, <3>1
  <2>4. t.at \in i .. Len(s) + 1 /\ (t.at >= i + k \/ t.at = Len(s) + 1)
    BY <1>1, <1>2, <1>3, <1>6, <2>1
  <2> QED BY <2>1, <2>2, <2>3, <2>4, Zenon DEF RoundInv
<1>7. CASE x.open /\ x.at <= Len(s) /\ s[x.at] = Quote /\ Char(s, x.at + 1) = Quote
  <2>1. t.id = Append(x.id, Quote) /\ t.at = x.at + 2 /\ t.open
    BY <1>7, ReadQuotedIn
  <2>2. x.at + 1 <= Len(s) /\ s[x.at + 1] = Quote
    <3>1. "end" # Quote
      BY Zenon DEF Quote
    <3> QED BY <1>1, <1>7, <3>1 DEF Char
  <2>3. Inside(s, i, x.at + 2)
    <3>1. PICK j : j = x.at
      OBVIOUS
    <3>2. j \in Nat /\ j >= i /\ Inside(s, i, j) /\ s[j] = Quote /\ s[j + 1] = Quote
      BY <1>1, <1>2, <1>3, <1>7, <2>2, <3>1
    <3>3. Inside(s, i, j + 2)
      BY <1>1, <3>2, InsideNext
    <3> QED BY <3>1, <3>3
  <2>4. t.id # <<>> /\ t.at # i
    <3>1. Append(x.id, Quote) # <<>>
      <4>1. x.id \in Seq(C) /\ Len(Append(x.id, Quote)) = Len(x.id) + 1 /\ Len(x.id) \in Nat
        BY <1>1, AppendProperties, LenProperties
      <4>2. Len(<<>>) = 0
        BY EmptySeq
      <4> QED BY <4>1, <4>2
    <3>2. x.at + 2 # i
      BY <1>1, <1>2
    <3> QED BY <2>1, <3>1, <3>2, Zenon
  <2>5. t.at \in i .. Len(s) + 1 /\ (t.at >= i + k \/ t.at = Len(s) + 1)
    <3>1. x.at >= i + (k - 1) /\ x.at + 1 <= Len(s) /\ t.at = x.at + 2
      BY <1>1, <1>3, <1>7, <2>1, <2>2
    <3> QED BY <1>1, <1>2, <3>1
  <2> QED BY <2>1, <2>3, <2>4, <2>5, Zenon DEF RoundInv
<1>8. CASE x.open /\ x.at <= Len(s) /\ s[x.at] = Quote /\ Char(s, x.at + 1) # Quote
  <2>1. t.id = x.id /\ t.at = x.at + 1 /\ ~t.open
    BY <1>8, ReadQuotedIn
  <2>2. t.at - 1 = x.at /\ t.at > i /\ t.at \in i .. Len(s) + 1
    BY <1>1, <1>2, <1>8, <2>1
  <2> QED BY <1>3, <1>8, <2>1, <2>2, Zenon DEF RoundInv
<1>9. x.at > Len(s) \/ x.at <= Len(s)
  BY <1>1
<1> QED BY <1>4, <1>5, <1>6, <1>7, <1>8, <1>9, Zenon

(* So a quoted name ends at the first quote that is not one of a pair.       *)
LEMMA QuotedEnds ==
  ASSUME NEW C, Quote \in C, NEW s \in Seq(C), NEW i \in 1 .. Len(s) + 1, NEW p, p = ParseQuoted(s, i)
  PROVE  /\ p.ok \in BOOLEAN
         /\ p.ok => /\ p.at \in i + 2 .. Len(s) + 1 /\ p.id \in Seq(C) /\ p.id # <<>>
                    /\ s[p.at - 1] = Quote /\ Char(s, p.at) # Quote /\ Inside(s, i, p.at - 1)
         /\ ~p.ok => \/ Inside(s, i, Len(s) + 1)
                     \/ i <= Len(s) /\ s[i] = Quote /\ Char(s, i + 1) # Quote
<1>1. Len(s) \in Nat /\ i \in Nat \ {0}
  OBVIOUS
<1>2. PICK r \in [0 .. Len(s) -> ReadStates(C)] : QuotedRounds(s, i, r)
  BY <1>1, QuotedIs
<1>3. \A k \in 0 .. Len(s) : RoundInv(s, i, k, r[k])
  <2> DEFINE T == {k \in 0 .. Len(s) : ~RoundInv(s, i, k, r[k])}
  <2> SUFFICES ASSUME T # {} PROVE FALSE
    OBVIOUS
  <2>1. PICK m \in T : \A j \in T : m <= j
    <3>1. T \subseteq Nat
      OBVIOUS
    <3> HIDE DEF T
    <3> QED BY <3>1, LeastNatural
  <2>2. m # 0 /\ T \subseteq 0 .. Len(s)
    BY <1>2, <2>1, RoundInvStart DEF QuotedRounds
  <2>3. m \in 1 .. Len(s) /\ m - 1 \in 0 .. Len(s) /\ m - 1 \notin T
    <3> HIDE DEF T
    <3> QED BY <1>1, <2>1, <2>2
  <2>4. RoundInv(s, i, m - 1, r[m - 1]) /\ r[m] = ReadQuoted(s, r[m - 1]) /\ r[m - 1] \in ReadStates(C)
    BY <1>2, <2>3 DEF QuotedRounds
  <2>5. RoundInv(s, i, m, r[m])
    BY <2>3, <2>4, RoundInvNext
  <2> QED BY <2>1, <2>5
<1>4. PICK x : x = r[Len(s)]
  OBVIOUS
<1>5. x \in ReadStates(C) /\ RoundInv(s, i, Len(s), x) /\ p = Closed(x)
  BY <1>1, <1>2, <1>3, <1>4 DEF QuotedRounds
<1>6. x.at \in Nat /\ x.id \in Seq(C) /\ x.open \in BOOLEAN
  BY <1>5 DEF ReadStates
<1>7. CASE x.open
  <2>1. p.ok = FALSE
    BY <1>5, <1>7 DEF Closed, Invalid
  <2>2. x.at \in i .. Len(s) + 1 /\ Inside(s, i, x.at) /\ (x.at >= i + Len(s) \/ x.at = Len(s) + 1)
    BY <1>5, <1>7, Zenon DEF RoundInv
  <2>3. x.at = Len(s) + 1
    BY <1>1, <1>6, <2>2
  <2> QED BY <2>1, <2>2, <2>3
<1>8. CASE ~x.open
  <2>1. /\ x.at \in i .. Len(s) + 1 /\ x.at > i /\ s[x.at - 1] = Quote /\ Char(s, x.at) # Quote
        /\ Inside(s, i, x.at - 1)
        /\ x.id = <<>> <=> x.at - 1 = i
    BY <1>5, <1>8, Zenon DEF RoundInv
  <2>2. CASE x.id = <<>>
    <3>1. p.ok = FALSE
      BY <1>5, <2>2 DEF Closed, Invalid
    <3>2. x.at = i + 1 /\ x.at - 1 = i /\ i <= Len(s)
      BY <1>1, <1>6, <2>1, <2>2
    <3> QED BY <2>1, <3>1, <3>2
  <2>3. CASE x.id # <<>>
    <3>1. p.ok = TRUE /\ p.id = x.id /\ p.at = x.at
      BY <1>5, <1>8, <2>3 DEF Closed, Parsed
    <3>2. x.at \in i + 2 .. Len(s) + 1
      BY <1>1, <1>6, <2>1, <2>3
    <3> QED BY <1>6, <2>1, <2>3, <3>1, <3>2
  <2> QED BY <2>2, <2>3
<1> QED BY <1>6, <1>7, <1>8

-----------------------------------------------------------------------------
(* Where a name ends.  A bare one.                                           *)
LEMMA BareIs ==
  ASSUME NEW C, NEW s \in Seq(C), NEW i \in 1 .. Len(s) + 1, NEW p, p = ParseBare(s, i)
  PROVE  /\ p.ok \in BOOLEAN /\ (Char(s, i) = "x" => p.ok)
         /\ p.ok => /\ p.at \in i + 1 .. Len(s) + 1 /\ p.id \in Seq(C) /\ p.id # <<>>
                    /\ BareAt(s, i, p.at) /\ Char(s, p.at) \notin {"x", "1"}
<1>1. Len(s) \in Nat /\ i \in Nat \ {0} /\ DOMAIN s = 1 .. Len(s) /\ \A j \in 1 .. Len(s) : s[j] \in C
  OBVIOUS
<1>2. CASE Char(s, i) # "x"
  <2>1. p = Invalid
    BY <1>2, Zenon DEF ParseBare
  <2> QED BY <1>2, <2>1 DEF Invalid
<1>3. CASE Char(s, i) = "x"
  <2> DEFINE S == {j \in i .. Len(s) + 1 : Char(s, j) \notin {"x", "1"}}
  <2>1. Len(s) + 1 \in S
    BY <1>1 DEF Char
  <2>2. PICK e \in S : \A j \in S : e <= j
    <3>1. S \subseteq Nat /\ S # {}
      BY <1>1, <2>1
    <3> HIDE DEF S
    <3> QED BY <3>1, LeastNatural
  <2>3. Min(S) \in S /\ \A j \in S : Min(S) <= j
    BY <2>2, Zenon DEF Min
  <2>4. PICK m : m = Min(S)
    OBVIOUS
  <2>5. p = Parsed(SubSeq(s, i, m - 1), m)
    BY <1>3, <2>4, Zenon DEF ParseBare
  <2>6. m \in i .. Len(s) + 1 /\ Char(s, m) \notin {"x", "1"} /\ m # i
    BY <1>3, <2>3, <2>4
  <2>7. \A j \in i .. m - 1 : j \in 1 .. Len(s) /\ Char(s, j) = s[j] /\ s[j] \in {"x", "1"}
    <3>1. ASSUME NEW j \in i .. m - 1 PROVE j \in 1 .. Len(s) /\ Char(s, j) = s[j] /\ s[j] \in {"x", "1"}
      <4>1. j \in 1 .. Len(s) /\ j \in i .. Len(s) + 1 /\ ~(m <= j)
        BY <1>1, <2>6
      <4>2. j \notin S
        BY <2>3, <2>4, <4>1
      <4> QED BY <1>1, <4>1, <4>2 DEF Char
    <3> QED BY <3>1
  <2>8. i \in i .. m - 1 /\ m \in i + 1 .. Len(s) + 1
    BY <1>1, <2>6
  <2>9. BareAt(s, i, m)
    BY <1>1, <1>3, <2>6, <2>7, <2>8 DEF BareAt
  <2>10. SubSeq(s, i, m - 1) \in Seq(C) /\ SubSeq(s, i, m - 1) # <<>>
    <3>1. \A j \in i .. m - 1 : s[j] \in C
      BY <1>1, <2>7
    <3>2. i \in Int /\ m - 1 \in Int /\ i <= m - 1
      BY <1>1, <2>8
    <3>3. SubSeq(s, i, m - 1) \in Seq(C) /\ Len(SubSeq(s, i, m - 1)) = m - 1 - i + 1
      BY <3>1, <3>2, SubSeqProperties
    <3>4. Len(SubSeq(s, i, m - 1)) # 0
      BY <3>2, <3>3
    <3>5. \A u : u = <<>> => Len(u) = 0
      OBVIOUS
    <3> QED BY <3>3, <3>4, <3>5, Zenon
  <2>11. p.ok = TRUE /\ p.at = m /\ p.id = SubSeq(s, i, m - 1)
    <3>1. \A x, n : Parsed(x, n).ok = TRUE /\ Parsed(x, n).at = n /\ Parsed(x, n).id = x
      BY DEF Parsed
    <3>2. PICK u : u = SubSeq(s, i, m - 1)
      OBVIOUS
    <3>3. p = Parsed(u, m)
      BY <2>5, <3>2, Zenon
    <3>4. p.ok = TRUE /\ p.at = m /\ p.id = u
      BY <3>3 DEF Parsed
    <3> QED BY <3>2, <3>4, Zenon
  <2> HIDE DEF S
  <2>12. p.at \in i + 1 .. Len(s) + 1 /\ p.id \in Seq(C) /\ p.id # <<>>
    BY <2>8, <2>10, <2>11
  <2>13. BareAt(s, i, p.at) /\ Char(s, p.at) \notin {"x", "1"}
    BY <2>6, <2>9, <2>11
  <2> QED BY <2>11, <2>12, <2>13
<1> QED BY <1>2, <1>3

(* Any name that the parser finds is a name.                                 *)
LEMMA PrefixEnds ==
  ASSUME NEW C, Quote \in C, NEW s \in Seq(C), NEW i \in 1 .. Len(s) + 1, NEW p, p = ParsePrefix(s, i)
  PROVE  /\ p.ok \in BOOLEAN
         /\ p.ok => /\ p.at \in i + 1 .. Len(s) + 1 /\ p.id \in Seq(C) /\ p.id # <<>>
                    /\ BareAt(s, i, p.at) \/ QuotedAt(s, i, p.at)
<1>1. Len(s) \in Nat /\ i \in Nat \ {0} /\ DOMAIN s = 1 .. Len(s)
  OBVIOUS
<1>2. CASE Char(s, i) # Quote
  <2>1. p = ParseBare(s, i)
    BY <1>2, Zenon DEF ParsePrefix
  <2> QED BY <2>1, BareIs
<1>3. CASE Char(s, i) = Quote
  <2>1. p = ParseQuoted(s, i + 1)
    BY <1>3, Zenon DEF ParsePrefix
  <2>2. i <= Len(s) /\ s[i] = Quote
    <3>1. "end" # Quote
      BY Zenon DEF Quote
    <3> QED BY <1>1, <1>3, <3>1 DEF Char
  <2>3. PICK j : j = i + 1 /\ j \in 1 .. Len(s) + 1
    BY <1>1, <2>2
  <2>4. /\ p.ok \in BOOLEAN
        /\ p.ok => /\ p.at \in j + 2 .. Len(s) + 1 /\ p.id \in Seq(C) /\ p.id # <<>>
                   /\ s[p.at - 1] = Quote /\ Inside(s, j, p.at - 1)
    BY <2>1, <2>3, QuotedEnds
  <2>5. ASSUME p.ok PROVE QuotedAt(s, i, p.at)
    <3>1. PICK e : e = p.at /\ e \in j + 2 .. Len(s) + 1 /\ s[e - 1] = Quote /\ Inside(s, j, e - 1)
      BY <2>4, <2>5
    <3>2. e - 1 \in Nat \ {0} /\ (e - 1) + 1 = e /\ e - i > 2
      BY <1>1, <2>3, <3>1
    <3>3. PICK a, b, c, d : a = Quotes(s, i) /\ b = Quotes(s, j) /\ c = Quotes(s, e - 1) /\ d = Quotes(s, e)
      OBVIOUS
    <3>4. a \in Nat /\ b = a + 1 /\ c \in Nat /\ d = c + 1
      BY <1>1, <2>2, <2>3, <3>1, <3>2, <3>3, QuotesNext
    <3>5. c % 2 = b % 2 /\ \A m \in j .. e - 1 - 1 : s[m] # Quote => Quotes(s, m) % 2 = b % 2
      BY <3>1, <3>3 DEF Inside
    <3>6. b % 2 = 1 - (a % 2) /\ d % 2 = 1 - (c % 2) /\ a % 2 \in {0, 1}
      BY <3>4, Parity
    <3>7. d % 2 = a % 2 /\ b % 2 # a % 2
      BY <3>4, <3>5, <3>6
    <3>8. \A m \in i .. e - 1 : m = i \/ m = e - 1 \/ m \in j .. e - 1 - 1
      BY <1>1, <2>3, <3>1
    <3>9. \A m \in i .. e - 1 : s[m] # Quote => Quotes(s, m) % 2 # a % 2
      BY <2>2, <3>1, <3>5, <3>7, <3>8
    <3>10. QuotedAt(s, i, e)
      BY <2>2, <3>1, <3>2, <3>3, <3>7, <3>9 DEF QuotedAt
    <3> QED BY <3>1, <3>10
  <2>6. p.ok => p.at \in i + 1 .. Len(s) + 1
    BY <1>1, <2>3, <2>4
  <2> QED BY <2>4, <2>5, <2>6
<1> QED BY <1>2, <1>3

(* The characters are different.                                             *)
LEMMA CharsDiffer ==
  /\ "end" # Quote /\ Dot # Quote
  /\ "x" # Quote /\ "1" # Quote /\ {"end", Dot} \cap {"x", "1"} = {}
<1>1. "end" # Quote /\ Dot # Quote /\ "x" # Quote /\ "1" # Quote
  BY Zenon DEF Quote, Dot
<1>2. "end" # "x" /\ "end" # "1" /\ Dot # "x" /\ Dot # "1"
  BY Zenon DEF Dot
<1> QED BY <1>1, <1>2

(* And any name that stands before a dot or the end is found.  A quoted part is *)
(* found whole if no quote follows it.                                       *)
LEMMA QuotedFound ==
  ASSUME NEW C, Quote \in C, NEW s \in Seq(C), NEW i \in 1 .. Len(s) + 1, NEW e \in i .. Len(s) + 1,
         QuotedAt(s, i, e), Char(s, e) # Quote, NEW p, p = ParseQuoted(s, i + 1)
  PROVE  p.ok /\ p.at = e
<1>1. /\ Len(s) \in Nat /\ i \in Nat \ {0} /\ DOMAIN s = 1 .. Len(s) /\ e - i > 2 /\ i <= Len(s)
      /\ s[i] = Quote /\ s[e - 1] = Quote /\ e \in Nat \ {0} /\ e <= Len(s) + 1
  BY DEF QuotedAt
<1>2. PICK j : j = i + 1 /\ j \in 1 .. Len(s) + 1 /\ j \in Nat \ {0} /\ j + 1 \in Nat \ {0} /\ j + 1 < e
  BY <1>1
<1>3. /\ p.ok \in BOOLEAN
      /\ p.ok => /\ p.at \in j + 2 .. Len(s) + 1
                 /\ s[p.at - 1] = Quote /\ Char(s, p.at) # Quote /\ Inside(s, j, p.at - 1)
      /\ ~p.ok => \/ Inside(s, j, Len(s) + 1)
                  \/ j <= Len(s) /\ s[j] = Quote /\ Char(s, j + 1) # Quote
  BY <1>2, QuotedEnds
<1>4. PICK a, b : a = Quotes(s, i) /\ b = Quotes(s, j)
  OBVIOUS
<1>5. a \in Nat /\ b = a + 1 /\ b % 2 = 1 - (a % 2) /\ a % 2 \in {0, 1}
  <2>1. a \in Nat /\ b = a + 1
    BY <1>1, <1>2, <1>4, QuotesNext
  <2> QED BY <2>1, Parity
<1>6. /\ Quotes(s, e) % 2 = a % 2
      /\ \A m \in i .. e - 1 : s[m] # Quote => Quotes(s, m) % 2 # a % 2
  BY <1>4 DEF QuotedAt
<1>7. e <= Len(s) => s[e] # Quote
  BY <1>1 DEF Char
<1>8. ASSUME Inside(s, j, Len(s) + 1) PROVE FALSE
  <2>1. Quotes(s, Len(s) + 1) % 2 = b % 2
        /\ \A m \in j .. Len(s) + 1 - 1 : s[m] # Quote => Quotes(s, m) % 2 = b % 2
    BY <1>4, <1>8 DEF Inside
  <2>2. Quotes(s, e) % 2 = b % 2
    <3>1. CASE e = Len(s) + 1
      BY <2>1, <3>1
    <3>2. CASE e # Len(s) + 1
      <4>1. e <= Len(s) /\ e \in j .. Len(s) + 1 - 1
        BY <1>1, <1>2, <3>2
      <4> QED BY <1>7, <2>1, <4>1
    <3> QED BY <3>1, <3>2
  <2> QED BY <1>5, <1>6, <2>2
<1>9. ASSUME j <= Len(s), s[j] = Quote, Char(s, j + 1) # Quote PROVE FALSE
  <2>1. j + 1 \in DOMAIN s /\ j + 1 \in i .. e - 1
    BY <1>1, <1>2
  <2>2. s[j + 1] # Quote
    BY <1>9, <2>1 DEF Char
  <2>3. Quotes(s, j + 1) = b + 1 /\ b \in Nat
    BY <1>2, <1>4, <1>5, <1>9, QuotesNext
  <2>4. (b + 1) % 2 = 1 - (b % 2)
    BY <2>3, Parity
  <2>5. Quotes(s, j + 1) % 2 = a % 2
    BY <1>5, <2>3, <2>4
  <2> QED BY <1>6, <2>1, <2>2, <2>5
<1>10. p.ok
  BY <1>3, <1>8, <1>9
<1>11. PICK f : /\ f = p.at /\ f \in j + 2 .. Len(s) + 1
                /\ s[f - 1] = Quote /\ Char(s, f) # Quote /\ Inside(s, j, f - 1)
  BY <1>3, <1>10
<1>12. /\ f \in Nat /\ f - 1 \in Nat \ {0} /\ (f - 1) + 1 = f
       /\ Quotes(s, f - 1) % 2 = b % 2
       /\ \A m \in j .. f - 1 - 1 : s[m] # Quote => Quotes(s, m) % 2 = b % 2
  BY <1>1, <1>2, <1>4, <1>11 DEF Inside
<1>13. CASE f < e
  <2>1. Quotes(s, f - 1) \in Nat /\ Quotes(s, f) = Quotes(s, f - 1) + 1
    BY <1>11, <1>12, QuotesNext
  <2>2. Quotes(s, f) % 2 = 1 - (Quotes(s, f - 1) % 2)
    BY <2>1, Parity
  <2>3. Quotes(s, f) % 2 = a % 2
    BY <1>5, <1>12, <2>1, <2>2
  <2>4. f \in DOMAIN s /\ f \in i .. e - 1
    BY <1>1, <1>2, <1>11, <1>12, <1>13
  <2>5. s[f] # Quote
    BY <1>11, <2>4 DEF Char
  <2> QED BY <1>6, <2>3, <2>4, <2>5
<1>14. CASE f > e
  <2>1. e <= Len(s) /\ s[e] # Quote
    BY <1>1, <1>7, <1>11, <1>12, <1>14
  <2>2. e # f - 1
    BY <1>11, <2>1
  <2>3. e \in j .. f - 1 - 1
    BY <1>1, <1>2, <1>12, <1>14, <2>2
  <2>4. Quotes(s, e) % 2 = b % 2
    BY <1>12, <2>1, <2>3
  <2> QED BY <1>5, <1>6, <2>4
<1> QED BY <1>1, <1>10, <1>11, <1>12, <1>13, <1>14

(* So any part that is a name is found before a dot and before the end.      *)
LEMMA PrefixFinds ==
  ASSUME NEW C, Quote \in C, NEW s \in Seq(C), NEW i \in 1 .. Len(s) + 1, NEW e \in i .. Len(s) + 1,
         BareAt(s, i, e) \/ QuotedAt(s, i, e), Char(s, e) \in {"end", Dot}, NEW p, p = ParsePrefix(s, i)
  PROVE  p.ok /\ p.at = e
<1>1. Len(s) \in Nat /\ i \in Nat \ {0} /\ DOMAIN s = 1 .. Len(s) /\ e \in Nat
  OBVIOUS
<1>2. CASE BareAt(s, i, e)
  <2>1. i < e /\ s[i] = "x" /\ \A m \in i .. e - 1 : s[m] \in {"x", "1"}
    BY <1>2, Zenon DEF BareAt
  <2>2. Char(s, i) = "x"
    BY <1>1, <2>1 DEF Char
  <2>3. p = ParseBare(s, i)
    BY <2>2, CharsDiffer, Zenon DEF ParsePrefix
  <2>4. p.ok /\ p.at \in i + 1 .. Len(s) + 1 /\ BareAt(s, i, p.at) /\ Char(s, p.at) \notin {"x", "1"}
    BY <2>2, <2>3, BareIs
  <2>5. PICK f : f = p.at /\ f \in i + 1 .. Len(s) + 1 /\ BareAt(s, i, f) /\ Char(s, f) \notin {"x", "1"}
    BY <2>4
  <2>6. \A m \in i .. f - 1 : s[m] \in {"x", "1"}
    BY <2>5 DEF BareAt
  <2>7. ~(f < e)
    <3>1. SUFFICES ASSUME f < e PROVE FALSE
      OBVIOUS
    <3>2. f \in DOMAIN s /\ f \in i .. e - 1
      BY <1>1, <2>5, <3>1
    <3> QED BY <2>1, <2>5, <3>2 DEF Char
  <2>8. ~(f > e)
    <3>1. SUFFICES ASSUME f > e PROVE FALSE
      OBVIOUS
    <3>2. e \in DOMAIN s /\ e \in i .. f - 1
      BY <1>1, <2>1, <2>5, <3>1
    <3>3. s[e] \in {"x", "1"} /\ Char(s, e) = s[e]
      BY <2>6, <3>2 DEF Char
    <3> QED BY <3>3, CharsDiffer
  <2> QED BY <1>1, <2>4, <2>5, <2>7, <2>8
<1>3. CASE QuotedAt(s, i, e)
  <2>1. Char(s, i) = Quote
    BY <1>1, <1>3 DEF QuotedAt, Char
  <2>2. p = ParseQuoted(s, i + 1)
    BY <2>1, Zenon DEF ParsePrefix
  <2>3. Char(s, e) # Quote
    BY CharsDiffer
  <2> QED BY <1>3, <2>2, <2>3, QuotedFound
<1> QED BY <1>2, <1>3

(* What has been written stays, and each character adds one or two.          *)
Kept(e, k, m) ==
  /\ Len(e[k]) \in k .. Len(e[m])
  /\ PartFrom(e[m], 0, e[k], Len(e[k]))

(* y is x followed by w.                                                     *)
Joined(C, x, w, y) ==
  /\ x \in Seq(C) /\ w \in Seq(C) /\ y \in Seq(C)
  /\ Len(x) \in Nat /\ Len(w) \in Nat /\ Len(y) = Len(x) + Len(w)
  /\ \A j \in 1 .. Len(x) : y[j] = x[j]
  /\ \A j \in 1 .. Len(w) : y[Len(x) + j] = w[j]

LEMMA JoinedIs ==
  ASSUME NEW C, NEW x \in Seq(C), NEW w \in Seq(C), NEW y, y = x \o w
  PROVE  Joined(C, x, w, y)
BY DEF Joined

(* What the next character of a name adds.                                   *)
LEMMA EscapingNext ==
  ASSUME NEW C, Quote \in C, NEW id \in Seq(C), NEW e \in [0 .. Len(id) -> Seq(C)], Escaping(id, e),
         NEW m \in 1 .. Len(id)
  PROVE  Joined(C, e[m - 1], Two(id[m]), e[m]) /\ Len(Two(id[m])) \in 1 .. 2
<1>1. id[m] \in C /\ m - 1 \in 0 .. Len(id) /\ m \in 0 .. Len(id)
  OBVIOUS
<1>2. e[m - 1] \in Seq(C)
  BY <1>1
<1>3. Two(id[m]) \in Seq(C) /\ Len(Two(id[m])) \in 1 .. 2
  BY <1>1, TwoIs
<1>4. e[m] = e[m - 1] \o Two(id[m])
  BY Zenon DEF Escaping
<1> QED BY <1>2, <1>3, <1>4, JoinedIs

LEMMA KeptNext ==
  ASSUME NEW C, Quote \in C, NEW id \in Seq(C), NEW e \in [0 .. Len(id) -> Seq(C)], Escaping(id, e),
         NEW m \in 1 .. Len(id), \A k \in 0 .. m - 1 : Kept(e, k, m - 1)
  PROVE  \A k \in 0 .. m : Kept(e, k, m)
<1>1. Len(id) \in Nat /\ m - 1 \in 0 .. m - 1 /\ m - 1 \in 0 .. Len(id) /\ m \in 0 .. Len(id)
  OBVIOUS
<1>2. PICK x, y, w : x = e[m - 1] /\ y = e[m] /\ w = Two(id[m])
  OBVIOUS
<1>3. Joined(C, x, w, y) /\ Len(w) \in 1 .. 2
  BY <1>2, EscapingNext
<1>4. /\ Len(y) = Len(x) + Len(w) /\ Len(x) \in Nat /\ Len(y) \in Nat
      /\ \A j \in 1 .. Len(x) : y[j] = x[j]
      /\ x \in Seq(C) /\ y \in Seq(C)
  BY <1>3 DEF Joined
<1>5. Len(x) >= m - 1
  BY <1>1, <1>2, <1>4 DEF Kept
<1>6. ASSUME NEW k \in 0 .. m PROVE Kept(e, k, m)
  <2>1. CASE k = m
    <3>1. Len(y) \in m .. Len(y)
      <4>1. PICK a, b, c : a = Len(x) /\ b = Len(w) /\ c = Len(y)
        OBVIOUS
      <4>2. a \in Nat /\ b \in 1 .. 2 /\ c = a + b /\ a >= m - 1 /\ m \in Nat
        BY <1>1, <1>3, <1>4, <1>5, <4>1
      <4>3. c \in m .. c
        BY <4>2
      <4> QED BY <4>1, <4>3
    <3>2. PartFrom(y, 0, y, Len(y))
      <4>1. \A j \in 1 .. Len(y) : 0 + j = j
        BY <1>4
      <4> QED BY <4>1 DEF PartFrom
    <3> QED BY <1>2, <2>1, <3>1, <3>2 DEF Kept
  <2>2. CASE k # m
    <3>1. k \in 0 .. m - 1 /\ k \in 0 .. Len(id)
      BY <1>1, <2>2
    <3>2. PICK z : z = e[k] /\ z \in Seq(C) /\ Len(z) \in k .. Len(x) /\ PartFrom(x, 0, z, Len(z))
      <4>1. Kept(e, k, m - 1) /\ e[k] \in Seq(C)
        BY <3>1
      <4> QED BY <1>2, <4>1 DEF Kept
    <3>3. Len(z) \in k .. Len(y)
      BY <1>3, <1>4, <3>2
    <3>4. \A j \in 1 .. Len(z) : j \in 1 .. Len(x) /\ 0 + j = j
      BY <1>4, <3>2
    <3>5. PartFrom(y, 0, z, Len(z))
      BY <1>4, <3>2, <3>4 DEF PartFrom
    <3> QED BY <1>2, <3>2, <3>3, <3>5 DEF Kept
  <2> QED BY <2>1, <2>2
<1> QED BY <1>6

(* All that was written is kept to the end.                                  *)
LEMMA KeptAll ==
  ASSUME NEW C, Quote \in C, NEW id \in Seq(C), NEW e \in [0 .. Len(id) -> Seq(C)], Escaping(id, e),
         NEW m \in 0 .. Len(id)
  PROVE  \A k \in 0 .. m : Kept(e, k, m)
<1> DEFINE T == {n \in 0 .. Len(id) : ~ \A k \in 0 .. n : Kept(e, k, n)}
<1> SUFFICES ASSUME T # {} PROVE FALSE
  <2>1. T = {} => \A n \in 0 .. Len(id) : \A k \in 0 .. n : Kept(e, k, n)
    BY Zenon
  <2> QED BY <2>1
<1>1. PICK n \in T : \A j \in T : n <= j
  <2>1. T \subseteq Nat
    OBVIOUS
  <2> HIDE DEF T
  <2> QED BY <2>1, LeastNatural
<1>2. Kept(e, 0, 0)
  <2>1. e[0] = <<>>
    BY DEF Escaping
  <2>2. Len(e[0]) = 0 /\ 0 \in 0 .. 0 /\ 1 .. 0 = {}
    BY <2>1
  <2> QED BY <2>2 DEF Kept, PartFrom
<1>3. n # 0 /\ T \subseteq 0 .. Len(id)
  BY <1>1, <1>2
<1>4. n \in 1 .. Len(id) /\ n - 1 \in 0 .. Len(id) /\ n - 1 \notin T
  <2> HIDE DEF T
  <2> QED BY <1>1, <1>3
<1>5. \A k \in 0 .. n - 1 : Kept(e, k, n - 1)
  BY <1>4, Zenon
<1>6. \A k \in 0 .. n : Kept(e, k, n)
  BY <1>4, <1>5, KeptNext
<1> QED BY <1>1, <1>6

(* A name as it is written.                                                  *)
LEMMA ShownIs ==
  ASSUME NEW C, Quote \in C, NEW id \in Seq(C), NEW u, u = Escaped(id), NEW t, t = ShowName(id)
  PROVE  /\ u \in Seq(C) /\ t \in Seq(C) /\ Len(u) \in Nat /\ Len(u) >= Len(id)
         /\ Len(t) = Len(u) + 2 /\ t[1] = Quote /\ t[Len(u) + 2] = Quote
         /\ \A j \in 1 .. Len(u) : t[j + 1] = u[j]
<1>1. PICK e \in [0 .. Len(id) -> Seq(C)] : Escaping(id, e) /\ u = e[Len(id)]
  BY EscapedIs
<1>2. Len(id) \in Nat /\ Len(id) \in 0 .. Len(id)
  OBVIOUS
<1>3. u \in Seq(C) /\ Len(u) >= Len(id)
  <2>1. Kept(e, Len(id), Len(id))
    BY <1>1, <1>2, KeptAll
  <2> QED BY <1>1, <1>2, <2>1 DEF Kept
<1>4. t = <<Quote>> \o u \o <<Quote>>
  BY Zenon DEF ShowName
<1>5. PICK q : q = <<Quote>> /\ q \in Seq(C) /\ Len(q) = 1 /\ q[1] = Quote
  OBVIOUS
<1>6. PICK v : v = q \o u
  OBVIOUS
<1>7. /\ v \in Seq(C) /\ Len(v) = Len(u) + 1 /\ v[1] = Quote
      /\ \A j \in 1 .. Len(u) : v[j + 1] = u[j]
  BY <1>3, <1>5, <1>6
<1>8. t = v \o q
  BY <1>4, <1>5, <1>6, Zenon
<1>9. t \in Seq(C) /\ Len(t) = Len(v) + 1 /\ t[Len(v) + 1] = q[1] /\ \A j \in 1 .. Len(v) : t[j] = v[j]
  BY <1>5, <1>7, <1>8
<1>10. \A j \in 1 .. Len(u) : j + 1 \in 1 .. Len(v)
  BY <1>3, <1>7
<1>11. 1 \in 1 .. Len(v) /\ Len(v) + 1 = Len(u) + 2 /\ Len(u) \in Nat
  BY <1>3, <1>7
<1> QED BY <1>3, <1>5, <1>7, <1>9, <1>10, <1>11

(* The loop has read the first k characters of the name.                     *)
ReadTo(id, e, h, k, x) == x.id = SubSeq(id, 1, k) /\ x.at = h + Len(e[k]) /\ x.open = TRUE

(* A round reads the next character.                                         *)
LEMMA ReadToNext ==
  ASSUME NEW C, Quote \in C, NEW id \in Seq(C), NEW e \in [0 .. Len(id) -> Seq(C)], Escaping(id, e),
         NEW s \in Seq(C), NEW h \in Nat \ {0}, PartFrom(s, h - 1, e[Len(id)], Len(e[Len(id)])),
         h + Len(e[Len(id)]) <= Len(s),
         NEW k \in 1 .. Len(id), NEW x \in ReadStates(C), ReadTo(id, e, h, k - 1, x),
         NEW y, y = ReadQuoted(s, x)
  PROVE  ReadTo(id, e, h, k, y)
<1>1. /\ Len(id) \in Nat /\ Len(s) \in Nat /\ k - 1 \in 0 .. Len(id) /\ k \in 0 .. Len(id) /\ id[k] \in C
      /\ k - 1 \in 0 .. k - 1 /\ k \in Nat
  OBVIOUS
<1>2. PICK u, v, w, z : u = e[Len(id)] /\ v = e[k - 1] /\ w = e[k] /\ z = Two(id[k])
  OBVIOUS
<1>12. Joined(C, v, z, w) /\ Len(z) \in 1 .. 2
  BY <1>2, EscapingNext
<1>3. u \in Seq(C) /\ v \in Seq(C) /\ w \in Seq(C) /\ z \in Seq(C)
  <2>1. Len(id) \in 0 .. Len(id)
    BY <1>1
  <2> QED BY <1>2, <1>12, <2>1 DEF Joined
<1>4. Len(w) = Len(v) + Len(z) /\ \A j \in 1 .. Len(z) : w[Len(v) + j] = z[j]
  BY <1>12 DEF Joined
<1>5. Len(w) <= Len(u) /\ \A j \in 1 .. Len(w) : u[j] = w[j]
  <2>1. Kept(e, k, Len(id))
    BY <1>1, KeptAll
  <2>2. Len(w) \in k .. Len(u) /\ PartFrom(u, 0, w, Len(w))
    BY <1>2, <2>1 DEF Kept
  <2>3. \A j \in 1 .. Len(w) : 0 + j = j
    BY <1>3
  <2> QED BY <1>1, <1>3, <2>2, <2>3 DEF PartFrom
<1>6. PICK a, b, c : a = Len(v) /\ b = Len(z) /\ c = Len(u)
  OBVIOUS
<1>7. a \in Nat /\ b \in 1 .. 2 /\ c \in Nat /\ a + b <= c /\ h + c <= Len(s)
  <2>1. a \in Nat /\ b \in 1 .. 2 /\ c \in Nat
    <3>1. Len(v) \in Nat /\ Len(u) \in Nat
      BY <1>3
    <3> QED BY <1>6, <1>12, <3>1, Zenon
  <2>2. a + b <= c
    BY <1>4, <1>5, <1>6
  <2>3. h + c <= Len(s)
    BY <1>2, <1>6
  <2> QED BY <2>1, <2>2, <2>3
<1>8. \A j \in 1 .. b : s[h + a + j - 1] = z[j]
  <2>1. ASSUME NEW j \in 1 .. b PROVE s[h + a + j - 1] = z[j]
    <3>1. a + j \in 1 .. c /\ a + j \in 1 .. Len(w) /\ h - 1 + (a + j) = h + a + j - 1
      <4>1. j \in Nat /\ j >= 1 /\ j <= b /\ h \in Nat
        BY <1>7
      <4>2. Len(w) = a + b
        BY <1>4, <1>6
      <4>3. a + j \in 1 .. a + b /\ a + j \in 1 .. c
        BY <1>7, <4>1
      <4>4. h - 1 + (a + j) = h + a + j - 1
        BY <1>7, <4>1
      <4> QED BY <4>2, <4>3, <4>4
    <3>2. s[h - 1 + (a + j)] = u[a + j]
      BY <1>2, <1>6, <3>1 DEF PartFrom
    <3>3. u[a + j] = w[a + j] /\ w[a + j] = z[j]
      BY <1>4, <1>5, <1>6, <3>1
    <3> QED BY <3>1, <3>2, <3>3
  <2> QED BY <2>1
<1>9. x.id = SubSeq(id, 1, k - 1) /\ x.at = h + a /\ x.open /\ x.open = TRUE
  BY <1>2, <1>6 DEF ReadTo
<1>10. h + a <= Len(s) /\ h + a \in Nat \ {0} /\ x.at <= Len(s)
  BY <1>7, <1>9
<1>11. Append(SubSeq(id, 1, k - 1), id[k]) = SubSeq(id, 1, k)
  BY <1>1
<1>15. s[h + a] = z[1]
  <2>1. 1 \in 1 .. b /\ h + a + 1 - 1 = h + a
    BY <1>7
  <2> QED BY <1>8, <2>1
<1>13. CASE id[k] # Quote
  <2>1. z = <<id[k]>>
    BY <1>2, <1>13, Zenon DEF Two
  <2>2. z[1] = id[k] /\ Len(z) = 1
    BY <2>1
  <2>3. s[x.at] # Quote /\ s[x.at] = id[k]
    BY <1>9, <1>15, <1>13, <2>2
  <2>4. y.id = Append(x.id, s[x.at]) /\ y.at = x.at + 1 /\ y.open
    <3>1. x.open /\ x.at <= Len(s) /\ s[x.at] # Quote
      BY <1>9, <1>10, <2>3
    <3> QED BY <3>1, ReadQuotedIn
  <2>5. y.id = SubSeq(id, 1, k)
    BY <1>9, <1>11, <2>3, <2>4
  <2>6. y.at = h + Len(e[k])
    BY <1>2, <1>4, <1>6, <1>7, <1>9, <2>2, <2>4
  <2>7. y \in ReadStates(C)
    BY ReadQuotedIn
  <2>8. y.open = TRUE
    BY <2>4, <2>7 DEF ReadStates
  <2> QED BY <2>5, <2>6, <2>8 DEF ReadTo
<1>14. CASE id[k] = Quote
  <2>1. z = <<Quote, Quote>>
    BY <1>2, <1>14, Zenon DEF Two
  <2>2. z[1] = Quote /\ z[2] = Quote /\ Len(z) = 2
    BY <2>1
  <2>3. s[x.at] = Quote
    BY <1>9, <1>15, <2>2
  <2>4. Char(s, x.at + 1) = Quote
    <3>1. 2 \in 1 .. b /\ h + a + 2 - 1 = x.at + 1 /\ x.at + 1 \in DOMAIN s
      BY <1>6, <1>7, <1>9, <2>2
    <3>2. s[x.at + 1] = Quote
      BY <1>8, <2>2, <3>1
    <3> QED BY <3>1, <3>2 DEF Char
  <2>5. y.id = Append(x.id, Quote) /\ y.at = x.at + 2 /\ y.open
    <3>1. x.open /\ x.at <= Len(s) /\ s[x.at] = Quote /\ Char(s, x.at + 1) = Quote
      BY <1>9, <1>10, <2>3, <2>4
    <3> QED BY <3>1, ReadQuotedIn
  <2>6. y.id = SubSeq(id, 1, k)
    BY <1>9, <1>11, <1>14, <2>5
  <2>7. y.at = h + Len(e[k])
    BY <1>2, <1>4, <1>6, <1>7, <1>9, <2>2, <2>5
  <2>8. y \in ReadStates(C)
    BY ReadQuotedIn
  <2>9. y.open = TRUE
    BY <2>5, <2>8 DEF ReadStates
  <2> QED BY <2>6, <2>7, <2>9 DEF ReadTo
<1> QED BY <1>13, <1>14

(* A name that was written is read back, where no quote follows.             *)
LEMMA ShownIsRead ==
  ASSUME NEW C, Quote \in C, NEW id \in Seq(C), id # <<>>, NEW s \in Seq(C), NEW i \in Nat,
         NEW t, t = ShowName(id), PartFrom(s, i, t, Len(t)), i + Len(t) <= Len(s),
         Char(s, i + Len(t) + 1) # Quote
  PROVE  ParsePrefix(s, i + 1) = Parsed(id, i + Len(t) + 1)
<1>1. PICK u : u = Escaped(id)
  OBVIOUS
<1>2. /\ u \in Seq(C) /\ Len(u) \in Nat /\ Len(u) >= Len(id) /\ Len(t) = Len(u) + 2
      /\ t[1] = Quote /\ t[Len(u) + 2] = Quote /\ \A j \in 1 .. Len(u) : t[j + 1] = u[j]
  BY <1>1, ShownIs
<1>3. PICK e \in [0 .. Len(id) -> Seq(C)] : Escaping(id, e) /\ u = e[Len(id)]
  BY <1>1, EscapedIs
<1>4. PICK n, h, l : n = Len(id) /\ h = i + 2 /\ l = Len(u)
  OBVIOUS
<1>5. /\ n \in Nat /\ n # 0 /\ h \in Nat \ {0} /\ l \in Nat /\ l >= n /\ Len(s) \in Nat /\ h + l <= Len(s)
      /\ Len(t) = l + 2 /\ i + Len(t) + 1 = h + l + 1 /\ i + 1 + 1 = h
  <2>1. n \in Nat /\ n # 0
    BY <1>4
  <2> QED BY <1>2, <1>4, <2>1
<1>6. s[i + 1] = Quote /\ s[h + l] = Quote /\ PartFrom(s, h - 1, u, l)
  <2>1. \A j \in 1 .. l + 2 : t[j] = s[i + j]
    BY <1>5 DEF PartFrom
  <2>2. 1 \in 1 .. l + 2 /\ l + 2 \in 1 .. l + 2 /\ i + (l + 2) = h + l
    BY <1>4, <1>5
  <2>3. \A j \in 1 .. l : j + 1 \in 1 .. l + 2 /\ i + (j + 1) = h - 1 + j
    BY <1>4, <1>5
  <2>4. s[i + 1] = Quote /\ s[h + l] = Quote
    BY <1>2, <1>4, <2>1, <2>2
  <2>5. \A j \in 1 .. l : u[j] = s[h - 1 + j]
    BY <1>2, <1>4, <2>1, <2>3
  <2> QED BY <2>4, <2>5 DEF PartFrom
<1>7. ParsePrefix(s, i + 1) = ParseQuoted(s, h)
  <2>1. i + 1 \in DOMAIN s
    BY <1>5
  <2>2. Char(s, i + 1) = Quote
    BY <1>6, <2>1 DEF Char
  <2> QED BY <1>5, <2>2, Zenon DEF ParsePrefix
<1>8. PICK r \in [0 .. Len(s) -> ReadStates(C)] : QuotedRounds(s, h, r)
  BY <1>5, QuotedIs
<1>9. \A k \in 0 .. n : ReadTo(id, e, h, k, r[k])
  <2> DEFINE T == {k \in 0 .. n : ~ReadTo(id, e, h, k, r[k])}
  <2> SUFFICES ASSUME T # {} PROVE FALSE
    OBVIOUS
  <2>1. PICK m \in T : \A j \in T : m <= j
    <3>1. T \subseteq Nat
      OBVIOUS
    <3> HIDE DEF T
    <3> QED BY <3>1, LeastNatural
  <2>2. ReadTo(id, e, h, 0, r[0])
    <3>1. r[0] = Opened(h) /\ e[0] = <<>>
      BY <1>3, <1>8, Zenon DEF QuotedRounds, Escaping
    <3>2. SubSeq(id, 1, 0) = <<>> /\ h + Len(<<>>) = h
      <4>1. SubSeq(id, 1, 0) = <<>>
        <5>1. PICK v : v = SubSeq(id, 1, 0)
          OBVIOUS
        <5>2. v \in Seq(C) /\ Len(v) = 0
          BY <5>1, SubSeqProperties
        <5>3. v = <<>>
          BY <5>2
        <5> QED BY <5>1, <5>3
      <4> QED BY <1>5, <4>1
    <3>3. r[0].id = <<>> /\ r[0].at = h /\ r[0].open = TRUE
      BY <3>1 DEF Opened
    <3> QED BY <3>1, <3>2, <3>3, Zenon DEF ReadTo
  <2>3. m # 0 /\ T \subseteq 0 .. n
    BY <2>1, <2>2
  <2>4. m \in 1 .. n /\ m - 1 \in 0 .. n /\ m - 1 \notin T
    <3> HIDE DEF T
    <3> QED BY <1>5, <2>1, <2>3
  <2>5. ReadTo(id, e, h, m - 1, r[m - 1])
    BY <2>4
  <2>6. r[m - 1] \in ReadStates(C) /\ r[m] = ReadQuoted(s, r[m - 1])
    <3>1. m - 1 \in 0 .. Len(s) /\ m \in 1 .. Len(s)
      BY <1>5, <2>4
    <3> QED BY <1>8, <3>1 DEF QuotedRounds
  <2>7. PICK x, y : x = r[m - 1] /\ y = r[m]
    OBVIOUS
  <2>8. PartFrom(s, h - 1, e[Len(id)], Len(e[Len(id)])) /\ h + Len(e[Len(id)]) <= Len(s) /\ m \in 1 .. Len(id)
    BY <1>3, <1>4, <1>5, <1>6, <2>4
  <2>9. x \in ReadStates(C) /\ ReadTo(id, e, h, m - 1, x) /\ y = ReadQuoted(s, x)
    BY <2>5, <2>6, <2>7
  <2>10. ReadTo(id, e, h, m, y)
    BY <1>3, <1>5, <2>8, <2>9, ReadToNext
  <2> QED BY <2>1, <2>7, <2>10
<1>10. n + 1 \in 1 .. Len(s) /\ n \in 0 .. n /\ n \in 0 .. Len(s)
  BY <1>5
<1>11. /\ r[n] \in ReadStates(C) /\ r[n].id = id /\ r[n].at = h + l /\ r[n].open
       /\ r[n + 1] = ReadQuoted(s, r[n])
  <2>1. r[n] \in ReadStates(C)
    BY <1>8, <1>10
  <2>2. r[n + 1] = ReadQuoted(s, r[n])
    <3>1. n + 1 - 1 = n
      BY <1>5
    <3> QED BY <1>8, <1>10, <3>1 DEF QuotedRounds
  <2>3. r[n].id = SubSeq(id, 1, n) /\ r[n].at = h + Len(e[n]) /\ r[n].open = TRUE
    BY <1>9, <1>10 DEF ReadTo
  <2>4. SubSeq(id, 1, n) = id
    BY <1>4
  <2> QED BY <1>3, <1>4, <2>1, <2>2, <2>3, <2>4
<1>12. PICK y : y = r[n + 1]
  OBVIOUS
<1>13. y \in ReadStates(C) /\ y.id = id /\ y.at = h + l + 1 /\ ~y.open
  <2>1. PICK x : x = r[n]
    OBVIOUS
  <2>2. x \in ReadStates(C) /\ x.open /\ x.at <= Len(s) /\ s[x.at] = Quote /\ Char(s, x.at + 1) # Quote
        /\ y = ReadQuoted(s, x) /\ x.id = id /\ x.at = h + l
    BY <1>5, <1>6, <1>11, <1>12, <2>1
  <2>3. y \in ReadStates(C) /\ y.id = x.id /\ y.at = x.at + 1 /\ ~y.open
    BY <2>2, ReadQuotedIn
  <2> QED BY <2>2, <2>3
<1>14. \A k \in n + 1 .. Len(s) : r[k] = y
  <2> DEFINE T == {k \in n + 1 .. Len(s) : r[k] # y}
  <2> SUFFICES ASSUME T # {} PROVE FALSE
    OBVIOUS
  <2>1. PICK m \in T : \A j \in T : m <= j
    <3>1. T \subseteq Nat
      BY <1>5
    <3> HIDE DEF T
    <3> QED BY <3>1, LeastNatural
  <2>2. m # n + 1 /\ T \subseteq n + 1 .. Len(s)
    BY <1>12, <2>1
  <2>3. m \in 1 .. Len(s) /\ m - 1 \in n + 1 .. Len(s) /\ m - 1 \notin T
    <3> HIDE DEF T
    <3> QED BY <1>5, <2>1, <2>2
  <2>4. r[m - 1] = y /\ r[m] = ReadQuoted(s, r[m - 1])
    BY <1>8, <2>3 DEF QuotedRounds
  <2>5. r[m] = y
    BY <1>13, <2>4, ReadQuotedIn
  <2> QED BY <2>1, <2>5
<1>15. r[Len(s)] = y
  BY <1>5, <1>10, <1>14
<1>16. ParseQuoted(s, h) = Closed(y)
  BY <1>8, <1>15 DEF QuotedRounds
<1>17. Closed(y) = Parsed(id, h + l + 1)
  BY <1>13, Zenon DEF Closed
<1> QED BY <1>5, <1>7, <1>16, <1>17

(* A name, and two with a dot between them, in positions of the text.        *)
NameIn(s, i, e) == BareAt(s, i, e) \/ QuotedAt(s, i, e)

TwoNames(s, f) == s[f] = Dot /\ NameIn(s, 1, f) /\ NameIn(s, f + 1, Len(s) + 1)

(* What IsNamePart and IsPath say, in positions.                             *)
LEMMA WholeIs ==
  ASSUME NEW C, NEW s \in Seq(C)
  PROVE  /\ IsNamePart(s) <=> NameIn(s, 1, Len(s) + 1)
         /\ IsPath(s) <=> NameIn(s, 1, Len(s) + 1) \/ \E f \in DOMAIN s : TwoNames(s, f)
<1>1. Len(s) \in Nat /\ DOMAIN s = 1 .. Len(s) /\ SubSeq(s, 1, Len(s)) = s /\ Len(s) + 1 - 1 = Len(s)
      /\ 1 \in 1 .. Len(s) + 1 /\ Len(s) + 1 \in 1 .. Len(s) + 1
  OBVIOUS
<1>2. IsNamePart(s) <=> NameIn(s, 1, Len(s) + 1)
  <2>1. IsNamePart(SubSeq(s, 1, Len(s) + 1 - 1)) <=> NameIn(s, 1, Len(s) + 1)
    BY <1>1, PartAt DEF NameIn
  <2> QED BY <1>1, <2>1
<1>3. ASSUME NEW f \in DOMAIN s
      PROVE  /\ IsNamePart(SubSeq(s, 1, f - 1)) <=> NameIn(s, 1, f)
             /\ IsNamePart(SubSeq(s, f + 1, Len(s))) <=> NameIn(s, f + 1, Len(s) + 1)
  <2>1. f \in 1 .. Len(s) + 1 /\ f + 1 \in 1 .. Len(s) + 1 /\ Len(s) + 1 \in f + 1 .. Len(s) + 1
    BY <1>1
  <2>2. IsNamePart(SubSeq(s, 1, f - 1)) <=> NameIn(s, 1, f)
    BY <1>1, <2>1, PartAt DEF NameIn
  <2>3. IsNamePart(SubSeq(s, f + 1, Len(s) + 1 - 1)) <=> NameIn(s, f + 1, Len(s) + 1)
    <3>1. PICK i, e : i = f + 1 /\ e = Len(s) + 1
      OBVIOUS
    <3>2. i \in 1 .. Len(s) + 1 /\ e \in i .. Len(s) + 1
      BY <2>1, <3>1
    <3>3. IsNamePart(SubSeq(s, i, e - 1)) <=> NameIn(s, i, e)
      BY <3>2, PartAt DEF NameIn
    <3> QED BY <3>1, <3>3
  <2> QED BY <1>1, <2>2, <2>3, Zenon
<1> QED BY <1>2, <1>3, Zenon DEF IsPath, TwoNames

(* A name is accepted exactly if it is one,                                  *)
LEMMA NameReads ==
  ASSUME NEW C, Quote \in C, NEW s \in Seq(C), NEW n, n = ParseName(s)
  PROVE  (n # <<>>) <=> IsNamePart(s)
<1>1. PICK p : p = ParsePrefix(s, 1)
  OBVIOUS
<1>2. 1 \in 1 .. Len(s) + 1 /\ Len(s) + 1 \in 1 .. Len(s) + 1
  OBVIOUS
<1>3. p.ok \in BOOLEAN /\ (p.ok => NameIn(s, 1, p.at))
  BY <1>1, <1>2, PrefixEnds DEF NameIn
<1>4. Char(s, Len(s) + 1) \in {"end", Dot}
  BY DEF Char
<1>5. NameIn(s, 1, Len(s) + 1) => p.ok /\ p.at = Len(s) + 1
  BY <1>1, <1>2, <1>4, PrefixFinds DEF NameIn
<1>6. p.ok /\ p.at = Len(s) + 1 <=> NameIn(s, 1, Len(s) + 1)
  BY <1>3, <1>5
<1>7. n = IF p.ok /\ p.at = Len(s) + 1 THEN <<p.id>> ELSE <<>>
  BY <1>1, Zenon DEF ParseName
<1>8. <<p.id>> # <<>>
  OBVIOUS
<1>9. IsNamePart(s) <=> NameIn(s, 1, Len(s) + 1)
  BY WholeIs
<1> QED BY <1>6, <1>7, <1>8, <1>9, Zenon

(* A path that is read.                                                      *)
PathOf(C, s, p) ==
  \/ NameIn(s, 1, Len(s) + 1) /\ \E a \in Seq(C) : a # <<>> /\ p = <<a>>
  \/ /\ \E f \in DOMAIN s : TwoNames(s, f)
     /\ \E a, b \in Seq(C) : a # <<>> /\ b # <<>> /\ p = <<a, b>>

(* and so is a path.                                                         *)
LEMMA PathReads ==
  ASSUME NEW C, Quote \in C, NEW s \in Seq(C), NEW p, p = ParsePath(s)
  PROVE  /\ p # <<>> => PathOf(C, s, p)
         /\ (p # <<>>) <=> IsPath(s)
<1>1. PICK x, y : x = ParsePrefix(s, 1) /\ y = ParsePrefix(s, x.at + 1)
  OBVIOUS
<1>2. Len(s) \in Nat /\ DOMAIN s = 1 .. Len(s) /\ 1 \in 1 .. Len(s) + 1 /\ Len(s) + 1 \in 1 .. Len(s) + 1
  OBVIOUS
<1>3. /\ x.ok \in BOOLEAN
      /\ x.ok => x.at \in 2 .. Len(s) + 1 /\ x.id \in Seq(C) /\ x.id # <<>> /\ NameIn(s, 1, x.at)
  BY <1>1, <1>2, PrefixEnds DEF NameIn
<1>4. ASSUME x.ok, x.at # Len(s) + 1
      PROVE  /\ x.at \in DOMAIN s /\ x.at + 1 \in 1 .. Len(s) + 1
             /\ y.ok => y.id \in Seq(C) /\ y.id # <<>> /\ NameIn(s, x.at + 1, y.at)
  <2>1. PICK i : i = x.at + 1
    OBVIOUS
  <2>2. x.at \in DOMAIN s /\ i \in 1 .. Len(s) + 1
    BY <1>2, <1>3, <1>4, <2>1
  <2>3. y.ok => y.id \in Seq(C) /\ y.id # <<>> /\ NameIn(s, i, y.at)
    BY <1>1, <2>1, <2>2, PrefixEnds DEF NameIn
  <2> QED BY <2>1, <2>2, <2>3
<1>5. p = IF ~x.ok THEN <<>>
          ELSE IF x.at = Len(s) + 1 THEN <<x.id>>
          ELSE IF s[x.at] = Dot /\ y.ok /\ y.at = Len(s) + 1 THEN <<x.id, y.id>> ELSE <<>>
  BY <1>1, Zenon DEF ParsePath
<1>6. \A a, b : <<a>> # <<>> /\ <<a, b>> # <<>>
  OBVIOUS
<1>7. Char(s, Len(s) + 1) \in {"end", Dot}
  BY DEF Char
<1>8. ASSUME p # <<>> PROVE PathOf(C, s, p)
  <2>1. x.ok
    BY <1>5, <1>8, Zenon
  <2>2. CASE x.at = Len(s) + 1
    <3>1. p = <<x.id>>
      BY <1>5, <2>1, <2>2, Zenon
    <3> QED BY <1>3, <2>1, <2>2, <3>1 DEF PathOf
  <2>3. CASE x.at # Len(s) + 1
    <3>1. p = <<x.id, y.id>> /\ s[x.at] = Dot /\ y.ok /\ y.at = Len(s) + 1
      BY <1>5, <1>8, <2>1, <2>3, Zenon
    <3>2. x.at \in DOMAIN s /\ TwoNames(s, x.at)
      BY <1>3, <1>4, <2>1, <2>3, <3>1, Zenon DEF TwoNames
    <3>3. x.id \in Seq(C) /\ x.id # <<>> /\ y.id \in Seq(C) /\ y.id # <<>>
      BY <1>3, <1>4, <2>1, <2>3, <3>1, Zenon
    <3> QED BY <3>1, <3>2, <3>3, Zenon DEF PathOf
  <2> QED BY <2>2, <2>3
<1>9. ASSUME NameIn(s, 1, Len(s) + 1) PROVE p # <<>>
  <2>1. x.ok /\ x.at = Len(s) + 1
    BY <1>1, <1>2, <1>7, <1>9, PrefixFinds DEF NameIn
  <2> QED BY <1>5, <1>6, <2>1, Zenon
<1>10. ASSUME NEW f \in DOMAIN s, TwoNames(s, f) PROVE p # <<>>
  <2>1. f \in 1 .. Len(s) + 1 /\ f # Len(s) + 1
    BY <1>2
  <2>2. s[f] = Dot /\ Char(s, f) \in {"end", Dot} /\ NameIn(s, 1, f) /\ NameIn(s, f + 1, Len(s) + 1)
    BY <1>10 DEF TwoNames, Char
  <2>3. x.ok /\ x.at = f
    BY <1>1, <1>2, <2>1, <2>2, PrefixFinds DEF NameIn
  <2>4. PICK i : i = f + 1 /\ i \in 1 .. Len(s) + 1 /\ Len(s) + 1 \in i .. Len(s) + 1
    BY <1>2
  <2>5. y = ParsePrefix(s, i) /\ NameIn(s, i, Len(s) + 1)
    BY <1>1, <2>2, <2>3, <2>4
  <2>6. y.ok /\ y.at = Len(s) + 1
    BY <1>7, <2>4, <2>5, PrefixFinds DEF NameIn
  <2>7. p = <<x.id, y.id>>
    BY <1>5, <2>1, <2>2, <2>3, <2>6, Zenon
  <2> QED BY <1>6, <2>7, Zenon
<1>11. IsPath(s) <=> NameIn(s, 1, Len(s) + 1) \/ \E f \in DOMAIN s : TwoNames(s, f)
  BY WholeIs
<1>12. PathOf(C, s, p) => IsPath(s)
  BY <1>11, Zenon DEF PathOf
<1> QED BY <1>8, <1>9, <1>10, <1>11, <1>12, Zenon

(* What is written is quoted.                                                *)
LEMMA ShownIsQuoted ==
  ASSUME NEW C, Quote \in C, NEW id \in Seq(C), id # <<>>, NEW s \in Seq(C), NEW i \in Nat,
         NEW t, t = ShowName(id), PartFrom(s, i, t, Len(t)), i + Len(t) <= Len(s),
         Char(s, i + Len(t) + 1) # Quote
  PROVE  QuotedAt(s, i + 1, i + Len(t) + 1)
<1>1. PICK p : p = ParsePrefix(s, i + 1)
  OBVIOUS
<1>2. p.ok = TRUE /\ p.at = i + Len(t) + 1
  <2>1. p = Parsed(id, i + Len(t) + 1)
    BY <1>1, ShownIsRead
  <2> QED BY <2>1 DEF Parsed
<1>3. PICK u : u = Escaped(id)
  OBVIOUS
<1>4. Len(t) \in Nat /\ Len(t) >= 1 /\ t[1] = Quote
  <2>1. Len(u) \in Nat /\ Len(t) = Len(u) + 2 /\ t[1] = Quote
    BY <1>3, ShownIs
  <2> QED BY <2>1
<1>5. s[i + 1] = Quote
  <2>1. 1 \in 1 .. Len(t)
    BY <1>4
  <2> QED BY <1>4, <2>1 DEF PartFrom
<1>6. i + 1 \in 1 .. Len(s) + 1
  BY <1>4
<1>7. BareAt(s, i + 1, p.at) \/ QuotedAt(s, i + 1, p.at)
  BY <1>1, <1>2, <1>6, PrefixEnds
<1>8. ~BareAt(s, i + 1, p.at)
  BY <1>5, CharsDiffer DEF BareAt
<1> QED BY <1>2, <1>7, <1>8

(* What is written of a path: read back as the path, and nothing but its dot *)
(* stands outside the quotes.                                                *)
WrittenWell(shown, path) ==
  /\ ParsePath(shown) = path
  /\ Quotes(shown, Len(shown) + 1) % 2 = 0
  /\ \A i \in Outside(shown) : shown[i] = Dot
  /\ Cardinality(Outside(shown)) = Len(path) - 1

(* One name is written well,                                                 *)
LEMMA OneWritten ==
  ASSUME NEW C, Quote \in C, NEW a \in Seq(C), a # <<>>, NEW t, t = ShowPath(<<a>>)
  PROVE  WrittenWell(t, <<a>>)
<1>1. PICK x, u : x = ShowName(a) /\ u = Escaped(a)
  OBVIOUS
<1>2. x \in Seq(C) /\ Len(x) \in Nat
  <2>1. x \in Seq(C)
    BY <1>1, ShownIs
  <2> QED BY <2>1
<1>3. t = x
  <2>1. <<a>>[1] = a /\ Len(<<a>>) # 2
    OBVIOUS
  <2>2. t = x \o <<>>
    BY <1>1, <2>1, Zenon DEF ShowPath
  <2> QED BY <1>2, <2>2
<1>4. t \in Seq(C) /\ Len(t) \in Nat /\ DOMAIN t = 1 .. Len(t) /\ t = ShowName(a)
  BY <1>1, <1>2, <1>3
<1>5. PartFrom(t, 0, t, Len(t)) /\ 0 + Len(t) <= Len(t) /\ Char(t, 0 + Len(t) + 1) = "end"
      /\ 0 + Len(t) + 1 = Len(t) + 1
  <2>1. \A j \in 1 .. Len(t) : 0 + j = j
    BY <1>4
  <2>2. 0 + Len(t) + 1 \notin DOMAIN t
    BY <1>4
  <2> QED BY <1>4, <2>1, <2>2 DEF PartFrom, Char
<1>6. Char(t, 0 + Len(t) + 1) # Quote
  BY <1>5, CharsDiffer
<1>7. ParsePrefix(t, 0 + 1) = Parsed(a, 0 + Len(t) + 1)
  BY <1>4, <1>5, <1>6, ShownIsRead
<1>8. ParsePath(t) = <<a>>
  <2>1. PICK p : p = ParsePrefix(t, 1)
    OBVIOUS
  <2>2. p.ok = TRUE /\ p.id = a /\ p.at = Len(t) + 1
    <3>1. p = Parsed(a, Len(t) + 1)
      BY <1>5, <1>7, <2>1
    <3> QED BY <3>1 DEF Parsed
  <2> QED BY <2>1, <2>2, Zenon DEF ParsePath
<1>9. QuotedAt(t, 0 + 1, 0 + Len(t) + 1)
  BY <1>4, <1>5, <1>6, ShownIsQuoted
<1>10. QuotedAt(t, 1, Len(t) + 1)
  BY <1>5, <1>9
<1>11. Quotes(t, 1) = 0
  BY QuotesNext
<1>12. Quotes(t, Len(t) + 1) % 2 = 0 /\ Outside(t) = {}
  <2>1. Quotes(t, 1) % 2 = 0
    BY <1>11
  <2>2. /\ Quotes(t, Len(t) + 1) % 2 = 0
        /\ \A m \in 1 .. Len(t) + 1 - 1 : t[m] # Quote => Quotes(t, m) % 2 # 0
    BY <1>10, <2>1 DEF QuotedAt
  <2>3. Len(t) + 1 - 1 = Len(t)
    BY <1>4
  <2> QED BY <1>4, <2>2, <2>3 DEF Outside
<1>13. Cardinality(Outside(t)) = Len(<<a>>) - 1
  <2>1. Cardinality(Outside(t)) = 0
    BY <1>12, FS_EmptySet
  <2>2. Len(<<a>>) = 1
    OBVIOUS
  <2> QED BY <2>1, <2>2
<1> QED BY <1>8, <1>12, <1>13 DEF WrittenWell

(* and so are two.                                                           *)
LEMMA TwoWritten ==
  ASSUME NEW C, {Quote, Dot} \subseteq C, NEW a \in Seq(C), a # <<>>, NEW b \in Seq(C), b # <<>>,
         NEW t, t = ShowPath(<<a, b>>)
  PROVE  WrittenWell(t, <<a, b>>)
<1>0. Quote \in C
  OBVIOUS
<1>1. PICK x, y, u, v : x = ShowName(a) /\ y = ShowName(b) /\ u = Escaped(a) /\ v = Escaped(b)
  OBVIOUS
<1>2. x \in Seq(C) /\ Len(x) \in Nat /\ y \in Seq(C) /\ Len(y) \in Nat
  <2>1. x \in Seq(C)
    BY <1>0, <1>1, ShownIs
  <2>2. y \in Seq(C)
    BY <1>0, <1>1, ShownIs
  <2> QED BY <2>1, <2>2
<1>3. PICK d, z : d = <<Dot>> /\ z = d \o y
  OBVIOUS
<1>4. t = x \o z
  <2>1. <<a, b>>[1] = a /\ <<a, b>>[2] = b /\ Len(<<a, b>>) = 2
    OBVIOUS
  <2> QED BY <1>1, <1>3, <2>1, Zenon DEF ShowPath
<1>5. d \in Seq(C) /\ Len(d) = 1 /\ d[1] = Dot
  BY <1>3
<1>6. Joined(C, d, y, z)
  BY <1>2, <1>3, <1>5, JoinedIs
<1>7. z \in Seq(C)
  BY <1>6 DEF Joined
<1>8. Joined(C, x, z, t)
  BY <1>2, <1>4, <1>7, JoinedIs
<1>9. PICK n, m : n = Len(x) /\ m = Len(y)
  OBVIOUS
<1>10. n \in Nat /\ m \in Nat
  BY <1>2, <1>9
<1>11. /\ Len(z) = 1 + m /\ z[1] = Dot /\ \A j \in 1 .. m : z[1 + j] = y[j]
  <2>1. /\ Len(z) = Len(d) + Len(y) /\ \A j \in 1 .. Len(d) : z[j] = d[j]
        /\ \A j \in 1 .. Len(y) : z[Len(d) + j] = y[j]
    BY <1>6 DEF Joined
  <2> QED BY <1>5, <1>9, <1>10, <2>1
<1>12. /\ t \in Seq(C) /\ Len(t) = n + (1 + m) /\ t[n + 1] = Dot
       /\ \A j \in 1 .. n : t[j] = x[j]
       /\ \A j \in 1 .. m : t[n + 1 + j] = y[j]
  <2>1. /\ t \in Seq(C) /\ Len(t) = Len(x) + Len(z) /\ \A j \in 1 .. Len(x) : t[j] = x[j]
        /\ \A j \in 1 .. Len(z) : t[Len(x) + j] = z[j]
    BY <1>8 DEF Joined
  <2>2. \A j \in 1 .. m : 1 + j \in 1 .. 1 + m /\ n + (1 + j) = n + 1 + j
    BY <1>10
  <2>3. 1 \in 1 .. 1 + m
    BY <1>10
  <2>4. t[n + 1] = Dot
    BY <1>9, <1>10, <1>11, <2>1, <2>3
  <2>5. ASSUME NEW j \in 1 .. m PROVE t[n + 1 + j] = y[j]
    BY <1>9, <1>11, <2>1, <2>2
  <2> QED BY <1>9, <1>11, <2>1, <2>4, <2>5
<1>13. Len(t) \in Nat /\ DOMAIN t = 1 .. Len(t) /\ n + 1 \in DOMAIN t /\ n + 1 \in Nat /\ n + 1 # Len(t) + 1
  BY <1>10, <1>12
<1>14. PartFrom(t, 0, x, Len(x)) /\ 0 + Len(x) <= Len(t) /\ 0 + Len(x) + 1 = n + 1
       /\ Char(t, 0 + Len(x) + 1) = Dot
  <2>1. \A j \in 1 .. n : 0 + j = j
    BY <1>10
  <2>2. PartFrom(t, 0, x, Len(x))
    BY <1>9, <1>12, <2>1 DEF PartFrom
  <2>3. 0 + Len(x) <= Len(t) /\ 0 + Len(x) + 1 = n + 1
    BY <1>9, <1>10, <1>12
  <2>4. Char(t, n + 1) = Dot
    BY <1>12, <1>13 DEF Char
  <2> QED BY <2>2, <2>3, <2>4
<1>15. /\ PartFrom(t, n + 1, y, Len(y)) /\ n + 1 + Len(y) <= Len(t) /\ n + 1 + Len(y) + 1 = Len(t) + 1
       /\ Char(t, n + 1 + Len(y) + 1) = "end"
  <2>1. PartFrom(t, n + 1, y, Len(y))
    BY <1>9, <1>12 DEF PartFrom
  <2>2. n + 1 + Len(y) <= Len(t) /\ n + 1 + Len(y) + 1 = Len(t) + 1
    <3>1. Len(y) = m /\ Len(t) = n + (1 + m)
      BY <1>9, <1>12
    <3> QED BY <1>10, <3>1
  <2>3. Char(t, Len(t) + 1) = "end"
    BY <1>13 DEF Char
  <2> QED BY <2>1, <2>2, <2>3
<1>16. Char(t, 0 + Len(x) + 1) # Quote /\ Char(t, n + 1 + Len(y) + 1) # Quote
  BY <1>14, <1>15, CharsDiffer
<1>17. ParsePrefix(t, 1) = Parsed(a, n + 1)
  <2>1. ParsePrefix(t, 0 + 1) = Parsed(a, 0 + Len(x) + 1)
    BY <1>0, <1>1, <1>12, <1>14, <1>16, ShownIsRead
  <2>2. 0 + 1 = 1
    OBVIOUS
  <2> QED BY <1>14, <2>1, <2>2
<1>18. ParsePrefix(t, n + 1 + 1) = Parsed(b, Len(t) + 1)
  <2>1. ParsePrefix(t, n + 1 + 1) = Parsed(b, n + 1 + Len(y) + 1)
    BY <1>0, <1>1, <1>12, <1>13, <1>15, <1>16, ShownIsRead
  <2> QED BY <1>15, <2>1
<1>19. ParsePath(t) = <<a, b>>
  <2>1. PICK p, q : p = ParsePrefix(t, 1) /\ q = ParsePrefix(t, p.at + 1)
    OBVIOUS
  <2>2. p.ok = TRUE /\ p.id = a /\ p.at = n + 1
    <3>1. p = Parsed(a, n + 1)
      BY <1>17, <2>1
    <3> QED BY <3>1 DEF Parsed
  <2>3. q.ok = TRUE /\ q.id = b /\ q.at = Len(t) + 1
    <3>1. q = Parsed(b, Len(t) + 1)
      BY <1>18, <2>1, <2>2
    <3> QED BY <3>1 DEF Parsed
  <2>4. p.at # Len(t) + 1 /\ t[p.at] = Dot
    BY <1>12, <1>13, <2>2
  <2> QED BY <2>1, <2>2, <2>3, <2>4, Zenon DEF ParsePath
<1>20. QuotedAt(t, 1, n + 1)
  <2>1. QuotedAt(t, 0 + 1, 0 + Len(x) + 1)
    BY <1>0, <1>1, <1>12, <1>14, <1>16, ShownIsQuoted
  <2>2. 0 + 1 = 1
    OBVIOUS
  <2> QED BY <1>14, <2>1, <2>2
<1>21. QuotedAt(t, n + 1 + 1, Len(t) + 1)
  <2>1. QuotedAt(t, n + 1 + 1, n + 1 + Len(y) + 1)
    BY <1>0, <1>1, <1>12, <1>13, <1>15, <1>16, ShownIsQuoted
  <2> QED BY <1>15, <2>1
<1>22. /\ Quotes(t, n + 1) % 2 = 0
       /\ \A k \in 1 .. n + 1 - 1 : t[k] # Quote => Quotes(t, k) % 2 # 0
  <2>1. Quotes(t, 1) = 0
    BY QuotesNext
  <2>2. Quotes(t, 1) % 2 = 0
    BY <2>1
  <2>3. Quotes(t, n + 1) % 2 = Quotes(t, 1) % 2
    BY <1>20 DEF QuotedAt
  <2>4. \A k \in 1 .. n + 1 - 1 : t[k] # Quote => Quotes(t, k) % 2 # Quotes(t, 1) % 2
    <3>1. PICK e : e = n + 1
      OBVIOUS
    <3>2. QuotedAt(t, 1, e)
      BY <1>20, <3>1
    <3>3. \A k \in 1 .. e - 1 : t[k] # Quote => Quotes(t, k) % 2 # Quotes(t, 1) % 2
      BY <3>2 DEF QuotedAt
    <3> QED BY <1>10, <3>1, <3>3
  <2> QED BY <2>2, <2>3, <2>4
<1>23. t[n + 1] # Quote
  BY <1>12, CharsDiffer
<1>24. Quotes(t, n + 1 + 1) = Quotes(t, n + 1)
  <2>1. n + 1 \in Nat \ {0}
    BY <1>10
  <2> QED BY <1>23, <2>1, QuotesNext
<1>25. /\ Quotes(t, Len(t) + 1) % 2 = 0
       /\ \A k \in n + 1 + 1 .. Len(t) + 1 - 1 : t[k] # Quote => Quotes(t, k) % 2 # 0
  <2>1. Quotes(t, n + 1 + 1) % 2 = 0
    BY <1>22, <1>24
  <2>2. Quotes(t, Len(t) + 1) % 2 = Quotes(t, n + 1 + 1) % 2
    BY <1>21, Zenon DEF QuotedAt
  <2>3. \A k \in n + 1 + 1 .. Len(t) + 1 - 1 :
          t[k] # Quote => Quotes(t, k) % 2 # Quotes(t, n + 1 + 1) % 2
    <3>1. PICK lo, hi : lo = n + 1 + 1 /\ hi = Len(t) + 1
      OBVIOUS
    <3>2. QuotedAt(t, lo, hi)
      BY <1>21, <3>1
    <3>3. \A k \in lo .. hi - 1 : t[k] # Quote => Quotes(t, k) % 2 # Quotes(t, lo) % 2
      BY <3>2 DEF QuotedAt
    <3>4. lo .. hi - 1 = n + 1 + 1 .. Len(t) + 1 - 1 /\ Quotes(t, lo) = Quotes(t, n + 1 + 1)
      BY <3>1
    <3> QED BY <3>3, <3>4, Zenon
  <2> QED BY <2>1, <2>2, <2>3, Zenon
<1>26. Outside(t) = {n + 1}
  <2>1. n + 1 \in Outside(t)
    BY <1>13, <1>22, <1>23 DEF Outside
  <2>2. ASSUME NEW k \in Outside(t) PROVE k = n + 1
    <3>1. k \in 1 .. Len(t) /\ t[k] # Quote /\ Quotes(t, k) % 2 = 0
      BY <1>13 DEF Outside
    <3>2. k \notin 1 .. n + 1 - 1
      BY <1>22, <3>1
    <3>3. k \notin n + 1 + 1 .. Len(t) + 1 - 1
      BY <1>25, <3>1
    <3>4. ~(k < n + 1) /\ ~(k > n + 1)
      BY <1>10, <1>13, <3>1, <3>2, <3>3
    <3> QED BY <1>10, <3>1, <3>4
  <2> QED BY <2>1, <2>2
<1>27. Cardinality(Outside(t)) = Len(<<a, b>>) - 1
  <2>1. Cardinality(Outside(t)) = 1
    BY <1>26, FS_Singleton
  <2>2. Len(<<a, b>>) = 2
    OBVIOUS
  <2> QED BY <2>1, <2>2
<1> QED BY <1>12, <1>19, <1>25, <1>26, <1>27 DEF WrittenWell

(* The inductive invariant: a caller writes names in the characters of names. *)
TextInv == kind = "name" => text \in Seq(NameChars)

(* The property, of any text in these characters.                            *)
LEMMA QuotedStays == ASSUME TextInv PROVE NameStaysQuoted
<1> SUFFICES ASSUME kind = "name", NEW p, p = ParsePath(text), NEW t, t = ShowPath(p)
             PROVE  /\ (p # <<>>) <=> IsPath(text)
                    /\ (ParseName(text) # <<>>) <=> IsNamePart(text)
                    /\ p # <<>> => WrittenWell(t, p)
  BY Zenon DEF NameStaysQuoted, WrittenWell
<1>1. PICK C : C = NameChars \cup {Quote, Dot}
  OBVIOUS
<1>2. {Quote, Dot} \subseteq C /\ Quote \in C /\ NameChars \subseteq C
  BY <1>1
<1>3. text \in Seq(C)
  <2>1. text \in Seq(NameChars)
    BY DEF TextInv
  <2> QED BY <1>2, <2>1
<1>4. (p # <<>> => PathOf(C, text, p)) /\ ((p # <<>>) <=> IsPath(text))
  BY <1>2, <1>3, PathReads
<1>5. (ParseName(text) # <<>>) <=> IsNamePart(text)
  BY <1>2, <1>3, NameReads
<1>6. ASSUME p # <<>> PROVE WrittenWell(t, p)
  <2>1. \/ \E a \in Seq(C) : a # <<>> /\ p = <<a>>
        \/ \E a, b \in Seq(C) : a # <<>> /\ b # <<>> /\ p = <<a, b>>
    BY <1>4, <1>6, Zenon DEF PathOf
  <2>2. ASSUME NEW a \in Seq(C), a # <<>>, p = <<a>> PROVE WrittenWell(t, p)
    BY <1>2, <2>2, OneWritten
  <2>3. ASSUME NEW a \in Seq(C), NEW b \in Seq(C), a # <<>>, b # <<>>, p = <<a, b>> PROVE WrittenWell(t, p)
    BY <1>2, <2>3, TwoWritten
  <2> QED BY <2>1, <2>2, <2>3
<1> QED BY <1>4, <1>5, <1>6

(* What is accepted as a name, of any length, is one or two names, each bare *)
(* or quoted whole, and what of it is written into a statement stays inside  *)
(* the quotes and stands for the same name (SqliteIdentifierPath,            *)
(* insert_migration_row).                                                    *)
THEOREM NamesStayQuoted == TextSpec => []NameStaysQuoted
<1>1. TextInit => TextInv
  <2>1. <<>> \in Seq(NameChars)
    OBVIOUS
  <2> QED BY <2>1 DEF TextInit, TextInv
<1>2. TextInv /\ [TextNext]_<<kind, text, size>> => TextInv'
  <2> SUFFICES ASSUME TextInv, [TextNext]_<<kind, text, size>> PROVE TextInv'
    OBVIOUS
  <2>1. CASE WriteSql
    BY <2>1 DEF WriteSql, TextInv
  <2>2. CASE WriteName
    <3>1. PICK c \in NameChars : text' = Append(text, c)
      BY <2>2 DEF WriteName
    <3>2. text \in Seq(NameChars)
      BY <2>2 DEF WriteName, TextInv
    <3> QED BY <3>1, <3>2 DEF TextInv
  <2>3. CASE UNCHANGED <<kind, text, size>>
    BY <2>3 DEF TextInv
  <2> QED BY <2>1, <2>2, <2>3 DEF TextNext
<1>3. TextInv => NameStaysQuoted
  BY QuotedStays
<1> QED BY <1>1, <1>2, <1>3, PTL DEF TextSpec

-----------------------------------------------------------------------------
(* SQL.  Inductions are by least and greatest numbers, as above: of a place in *)
(* a text, or of a round of the loop.                                        *)

(* A function that at each number goes on at a greater one, or stops.        *)
Jumping(g, n, S, next, b) ==
  g \in [1 .. n -> S] /\ \A j \in 1 .. n : g[j] = IF next[j] > n THEN b[j] ELSE g[next[j]]

(* The jumps end, so there is such a function.                               *)
LEMMA Jumps ==
  ASSUME NEW S, NEW n \in Nat, NEW next \in [1 .. n -> Nat], NEW b \in [1 .. n -> S],
         \A j \in 1 .. n : next[j] > j
  PROVE  \E g : Jumping(g, n, S, next, b)
<1> DEFINE Back(g, m) ==
             /\ g \in [n - m + 1 .. n -> S]
             /\ \A j \in n - m + 1 .. n : g[j] = IF next[j] > n THEN b[j] ELSE g[next[j]]
           T == {m \in 0 .. n : ~ \E g : Back(g, m)}
<1> SUFFICES ASSUME T # {} PROVE FALSE
  <2>1. T = {} => \E g : Back(g, n)
    <3> HIDE DEF Back
    <3> QED OBVIOUS
  <2>2. n - n + 1 = 1
    OBVIOUS
  <2>3. ASSUME NEW g, Back(g, n) PROVE Jumping(g, n, S, next, b)
    BY <2>2, <2>3 DEF Jumping
  <2> HIDE DEF Back, T
  <2> QED BY <2>1, <2>3
<1>1. PICK m \in T : \A j \in T : m <= j
  <2>1. T \subseteq Nat
    OBVIOUS
  <2> HIDE DEF T
  <2> QED BY <2>1, LeastNatural
<1>2. m # 0
  <2> DEFINE g == [k \in n - 0 + 1 .. n |-> S]
  <2>1. n - 0 + 1 .. n = {}
    OBVIOUS
  <2>2. Back(g, 0)
    BY <2>1
  <2> HIDE DEF g, Back
  <2> QED BY <1>1, <2>2
<1>3. m - 1 \in 0 .. n /\ m \in 1 .. n /\ m - 1 \notin T
  <2>1. T \subseteq 0 .. n
    OBVIOUS
  <2> HIDE DEF T
  <2> QED BY <1>1, <1>2, <2>1
<1>4. PICK h : Back(h, m - 1)
  BY <1>3
<1>5. PICK l : l = n - m + 1
  OBVIOUS
<1>6. /\ l \in 1 .. n /\ n - (m - 1) + 1 = l + 1 /\ next[l] \in Nat /\ next[l] > l
      /\ n - m + 1 = l
  BY <1>3, <1>5
<1>7. /\ h \in [l + 1 .. n -> S]
      /\ \A j \in l + 1 .. n : h[j] = IF next[j] > n THEN b[j] ELSE h[next[j]]
  BY <1>4, <1>6
<1> DEFINE v == IF next[l] > n THEN b[l] ELSE h[next[l]]
           g == [j \in l .. n |-> IF j = l THEN v ELSE h[j]]
<1>8. v \in S
  <2>1. next[l] > n \/ next[l] \in l + 1 .. n
    BY <1>6
  <2> QED BY <1>6, <1>7, <2>1
<1>9. g \in [l .. n -> S]
  <2>1. \A j \in l .. n : j = l \/ j \in l + 1 .. n
    BY <1>6
  <2> HIDE DEF v
  <2> QED BY <1>7, <1>8, <2>1
<1>10. ASSUME NEW j \in l .. n PROVE g[j] = IF next[j] > n THEN b[j] ELSE g[next[j]]
  <2>1. next[j] \in Nat /\ next[j] > j /\ (next[j] > n \/ next[j] \in l + 1 .. n)
    BY <1>6
  <2>2. next[j] \in l + 1 .. n => next[j] \in l .. n /\ next[j] # l
    BY <1>6
  <2>3. next[j] \in l + 1 .. n => g[next[j]] = h[next[j]]
    <3> HIDE DEF v
    <3> QED BY <2>2
  <2>4. next[j] \in l + 1 .. n => ~(next[j] > n)
    BY <1>6
  <2>5. CASE j = l
    <3>1. g[j] = v
      <4> HIDE DEF v
      <4> QED BY <2>5
    <3> HIDE DEF g
    <3> QED BY <2>1, <2>3, <2>4, <2>5, <3>1
  <2>6. CASE j # l
    <3>1. j \in l + 1 .. n
      BY <1>6, <2>6
    <3>2. g[j] = h[j]
      <4> HIDE DEF v
      <4> QED BY <2>6
    <3> HIDE DEF g
    <3> QED BY <1>7, <2>1, <2>3, <2>4, <3>1, <3>2
  <2> QED BY <2>5, <2>6
<1>11. Back(g, m)
  <2> HIDE DEF g
  <2> QED BY <1>6, <1>9, <1>10
<1> QED
  <2> HIDE DEF Back, g
  <2> QED BY <1>1, <1>11

(* What holds at a and stays, holds up to b.                                 *)
Staying(f, Z, a, b) == \A m \in a .. b - 1 : f[m] \in Z => f[m + 1] \in Z
Stayed(f, Z, a, b) == \A m \in a .. b : f[m] \in Z

(* The least place at which it failed would follow one at which it held.     *)
LEMMA Stays ==
  ASSUME NEW f, NEW Z, NEW a \in Nat, NEW b \in Nat, f[a] \in Z, Staying(f, Z, a, b)
  PROVE  Stayed(f, Z, a, b)
<1> DEFINE T == {m \in a .. b : f[m] \notin Z}
<1> SUFFICES ASSUME T # {} PROVE FALSE
  BY DEF Stayed
<1>1. PICK m \in T : \A j \in T : m <= j
  <2>1. T \subseteq Nat
    OBVIOUS
  <2> HIDE DEF T
  <2> QED BY <2>1, LeastNatural
<1>2. m # a /\ T \subseteq a .. b
  BY <1>1
<1>3. m - 1 \in a .. b - 1 /\ m - 1 \in a .. b /\ m - 1 \notin T /\ m - 1 + 1 = m
  <2> HIDE DEF T
  <2> QED BY <1>1, <1>2
<1>4. f[m - 1] \in Z
  BY <1>3
<1>5. f[m] \in Z
  BY <1>3, <1>4 DEF Staying
<1> QED BY <1>1, <1>5

(* The place after the first stop from i on, of those up to n + 1.           *)
Stops(stops, n) == stops \subseteq 1 .. n + 1
IsAfter(n, i, stops, q) ==
  \/ q \in i + 1 .. n + 2 /\ q - 1 \in stops /\ \A j \in i .. q - 2 : j \notin stops
  \/ q = n + 1 /\ \A j \in stops : j < i

(* It is what After gives.                                                   *)
LEMMA AfterIs ==
  ASSUME NEW s, NEW n \in Nat, Len(s) = n, NEW i \in Nat, NEW stops, Stops(stops, n),
         NEW q, q = After(s, i, stops)
  PROVE  IsAfter(n, i, stops, q)
<1>0. stops \subseteq 1 .. n + 1
  BY DEF Stops
<1> DEFINE S == {j \in stops : j >= i}
<1>1. CASE S # {}
  <2>1. S \subseteq Nat
    <3>1. S \subseteq stops /\ stops \subseteq Nat
      BY <1>0
    <3> HIDE DEF S
    <3> QED BY <3>1
  <2>2. PICK e \in S : \A j \in S : e <= j
    <3> HIDE DEF S
    <3> QED BY <1>1, <2>1, LeastNatural
  <2>3. Min(S) \in S /\ \A j \in S : Min(S) <= j
    BY <2>2, Zenon DEF Min
  <2>4. PICK m : m = Min(S)
    OBVIOUS
  <2>5. q = m + 1
    <3>1. \E j \in stops : j >= i
      BY <1>1
    <3> QED BY <2>4, <3>1, Zenon DEF After
  <2>6. m \in stops /\ m >= i /\ m \in 1 .. n + 1
    BY <1>0, <2>3, <2>4
  <2>7. \A j \in i .. m - 1 : j \notin stops
    <3>1. ASSUME NEW j \in i .. m - 1, j \in stops PROVE FALSE
      <4>1. j \in S
        BY <3>1
      <4>2. m <= j
        BY <2>3, <2>4, <4>1
      <4> QED BY <2>6, <3>1, <4>2
    <3> QED BY <3>1
  <2>8. q \in i + 1 .. n + 2 /\ q - 1 = m /\ q - 2 = m - 1
    BY <2>5, <2>6
  <2> QED BY <2>6, <2>7, <2>8 DEF IsAfter
<1>2. CASE S = {}
  <2>1. ~ \E j \in stops : j >= i
    BY <1>2
  <2>2. q = n + 1
    BY <2>1, Zenon DEF After
  <2>3. \A j \in stops : j < i
    BY <1>0, <2>1
  <2> QED BY <2>2, <2>3 DEF IsAfter
<1> QED BY <1>1, <1>2

(* The engine's modes: one after each character, beginning in code.          *)
ModeSet == Quotings \cup {"code", "open", "line", "block", "starred"}

(* The modes are these.                                                      *)
LEMMA NextModeIn ==
  ASSUME NEW s, NEW k, NEW m \in ModeSet
  PROVE  NextMode(s, k, m) \in ModeSet
<1>1. \A c \in {"quote", "dquote", "tick"} : c \in ModeSet
  BY DEF ModeSet, Quotings
<1>2. {"code", "open", "line", "block", "starred", "closing"} \subseteq ModeSet
  BY DEF ModeSet, Quotings
<1> QED BY <1>1, <1>2 DEF NextMode

(* What the reference is: the modes of a text, one after the other.          *)
Moded(s, M) ==
  /\ M \in [1 .. Len(s) -> ModeSet]
  /\ Len(s) > 0 => M[1] = "code"
  /\ \A k \in 1 .. Len(s) - 1 : M[k + 1] = NextMode(s, k, M[k])

(* It is that: its recursion has a solution.                                 *)
LEMMA ModesAre ==
  ASSUME NEW s, Len(s) \in Nat
  PROVE  Moded(s, Modes(s))
<1> DEFINE n == Len(s)
           Rec(m) == m = [k \in 1 .. n |-> IF k = 1 THEN "code" ELSE NextMode(s, k - 1, m[k - 1])]
           mode == CHOOSE m : Rec(m)
           f == [p \in (1 .. n) \X ModeSet |-> NextMode(s, p[1], p[2])]
<1>1. n \in Nat /\ "code" \in ModeSet
  BY DEF ModeSet
<1>2. f \in [(1 .. n) \X ModeSet -> ModeSet]
  <2>1. ASSUME NEW p \in (1 .. n) \X ModeSet PROVE NextMode(s, p[1], p[2]) \in ModeSet
    <3>1. PICK m : m = p[2] /\ m \in ModeSet
      OBVIOUS
    <3>2. NextMode(s, p[1], m) \in ModeSet
      BY <3>1, NextModeIn
    <3> QED BY <3>1, <3>2
  <2> HIDE DEF n
  <2> QED BY <2>1
<1>3. \A k \in 1 .. n, m \in ModeSet : f[<<k, m>>] = NextMode(s, k, m)
  OBVIOUS
<1> HIDE DEF f, n
<1>4. PICK r : Iterated(r, ModeSet, n, "code", f)
  BY <1>1, <1>2, Iterates
<1>5. /\ r \in [0 .. n -> ModeSet] /\ r[0] = "code"
      /\ \A k \in 1 .. n : r[k] = f[<<k, r[k - 1]>>]
  BY <1>4, Zenon DEF Iterated
<1>6. \A k \in 1 .. n : r[k] = NextMode(s, k, r[k - 1])
  <2>1. \A k \in 1 .. n : k - 1 \in 0 .. n
    BY <1>1
  <2> QED BY <1>3, <1>5, <2>1
<1>7. \E m : Rec(m)
  <2> DEFINE m == [k \in 1 .. n |-> r[k - 1]]
             h == [k \in 1 .. n |-> IF k = 1 THEN "code" ELSE NextMode(s, k - 1, m[k - 1])]
  <2>1. ASSUME NEW k \in 1 .. n PROVE m[k] = h[k]
    <3>1. CASE k = 1
      BY <1>5, <3>1
    <3>2. CASE k # 1
      <4>1. k - 1 \in 1 .. n
        BY <1>1, <3>2
      <4>2. m[k - 1] = r[k - 1 - 1] /\ r[k - 1] = NextMode(s, k - 1, r[k - 1 - 1])
        BY <1>6, <4>1
      <4> QED BY <3>2, <4>2
    <3> QED BY <3>1, <3>2
  <2>2. m = h
    BY <2>1
  <2>3. Rec(m)
    BY <2>2
  <2> QED BY <2>3
<1>8. Rec(mode)
  BY <1>7
<1>9. Modes(s) = mode
  BY Zenon DEF Modes, n
<1> HIDE DEF mode
<1>10. PICK M : M = Modes(s)
  OBVIOUS
<1>11. M = [k \in 1 .. n |-> IF k = 1 THEN "code" ELSE NextMode(s, k - 1, M[k - 1])]
  <2>1. Rec(M)
    <3>1. M = mode
      BY <1>9, <1>10
    <3> HIDE DEF Rec
    <3> QED BY <1>8, <3>1
  <2> QED BY <2>1
<1>12. n > 0 => M[1] = "code"
  BY <1>1, <1>11
<1>13. \A k \in 1 .. n - 1 : M[k + 1] = NextMode(s, k, M[k])
  <2>1. ASSUME NEW k \in 1 .. n - 1 PROVE M[k + 1] = NextMode(s, k, M[k])
    <3>1. PICK j : j = k + 1
      OBVIOUS
    <3>2. j \in 1 .. n /\ j # 1 /\ j - 1 = k
      BY <1>1, <3>1
    <3>3. M[j] = NextMode(s, j - 1, M[j - 1])
      BY <1>11, <3>2
    <3> QED BY <3>1, <3>2, <3>3
  <2> QED BY <2>1
<1>14. M \in [1 .. n -> ModeSet]
  <2> DEFINE T == {k \in 1 .. n : M[k] \notin ModeSet}
  <2>1. M = [k \in 1 .. n |-> M[k]]
    BY <1>11
  <2> SUFFICES ASSUME T # {} PROVE FALSE
    BY <2>1
  <2>2. PICK k \in T : \A j \in T : k <= j
    <3>1. T \subseteq Nat
      OBVIOUS
    <3> HIDE DEF T
    <3> QED BY <3>1, LeastNatural
  <2>3. k # 1 /\ T \subseteq 1 .. n
    <3>1. T \subseteq 1 .. n
      OBVIOUS
    <3>2. k = 1 => M[k] \in ModeSet
      BY <1>1, <1>12, <2>2
    <3> QED BY <2>2, <3>1, <3>2
  <2>4. k - 1 \in 1 .. n - 1 /\ k - 1 \in 1 .. n /\ k - 1 \notin T /\ k - 1 + 1 = k
    <3> HIDE DEF T
    <3> QED BY <1>1, <2>2, <2>3
  <2>5. M[k - 1] \in ModeSet /\ M[k] = NextMode(s, k - 1, M[k - 1])
    BY <1>13, <2>4
  <2>6. M[k] \in ModeSet
    BY <2>5, NextModeIn
  <2> QED BY <2>2, <2>6
<1> QED BY <1>10, <1>12, <1>13, <1>14 DEF Moded, n

(* The mode of a character, and that of the one after it.                    *)
Mode(s, k) == Modes(s)[k]

(* Every character has a mode,                                               *)
LEMMA ModeIn ==
  ASSUME NEW s, Len(s) \in Nat, NEW k \in 1 .. Len(s)
  PROVE  Mode(s, k) \in ModeSet
<1>1. Modes(s) \in [1 .. Len(s) -> ModeSet]
  BY ModesAre, Zenon DEF Moded
<1> QED BY <1>1 DEF Mode

(* which makes that of the next.                                             *)
LEMMA ModeNext ==
  ASSUME NEW s, Len(s) \in Nat, NEW k \in Nat, k >= 1, k < Len(s)
  PROVE  Mode(s, k + 1) = NextMode(s, k, Mode(s, k))
<1>1. k \in 1 .. Len(s) - 1
  OBVIOUS
<1>2. \A j \in 1 .. Len(s) - 1 : Modes(s)[j + 1] = NextMode(s, j, Modes(s)[j])
  BY ModesAre, Zenon DEF Moded
<1> QED BY <1>1, <1>2, Zenon DEF Mode

(* What each mode goes on with.                                              *)
LEMMA NextModeIs ==
  ASSUME NEW s, NEW k
  PROVE  /\ BlockComment(s, k) => NextMode(s, k, "code") = "open"
         /\ LineComment(s, k) => NextMode(s, k, "code") = "line"
         /\ ~BlockComment(s, k) /\ ~LineComment(s, k) =>
              /\ s[k] \in {"quote", "dquote", "tick"} => NextMode(s, k, "code") = s[k]
              /\ s[k] = "bracket" => NextMode(s, k, "code") = "closing"
              /\ s[k] \notin {"quote", "dquote", "tick", "bracket"} => NextMode(s, k, "code") = "code"
         /\ \A m \in Quotings : NextMode(s, k, m) = IF s[k] = m THEN "code" ELSE m
         /\ NextMode(s, k, "line") = IF s[k] = "nl" THEN "code" ELSE "line"
         /\ NextMode(s, k, "open") = "block"
         /\ NextMode(s, k, "block") = IF s[k] = "star" THEN "starred" ELSE "block"
         /\ NextMode(s, k, "starred") =
              IF s[k] = "star" THEN "starred" ELSE IF s[k] = "slash" THEN "code" ELSE "block"
<1>1. LineComment(s, k) => ~BlockComment(s, k)
  BY DEF LineComment, BlockComment
<1> QED BY <1>1 DEF NextMode, Quotings

(* A position at which no literal and no comment is open.                    *)
CodeAt(s, p) == p = Len(s) + 1 \/ (p \in 1 .. Len(s) /\ Mode(s, p) = "code")

(* All characters from a to before b are in these modes.                     *)
InModes(s, Z, a, b) == \A m \in a .. b - 1 : Mode(s, m) \in Z

(* The first stop from i on, and what is before it.                          *)
StopsAt(s, c, i, q) ==
  /\ q \in i .. Len(s) + 1
  /\ \A m \in i .. q - 2 : s[m] # c
  /\ q <= Len(s) => q > i /\ s[q - 1] = c

(* What a skip to a character does.                                          *)
LEMMA SkipTo ==
  ASSUME NEW C, NEW s \in Seq(C), NEW i \in 1 .. Len(s) + 1, NEW c, NEW q, q = After(s, i, Where(s, {c}))
  PROVE  StopsAt(s, c, i, q)
<1>1. PICK n : n = Len(s)
  OBVIOUS
<1>2. n \in Nat /\ DOMAIN s = 1 .. n /\ i \in 1 .. n + 1
  BY <1>1
<1>3. PICK S : S = Where(s, {c})
  OBVIOUS
<1>4. S \subseteq 1 .. n + 1 /\ S \subseteq 1 .. n /\ \A j \in 1 .. n : j \in S <=> s[j] = c
  BY <1>2, <1>3 DEF Where
<1>5. \/ q \in i + 1 .. n + 2 /\ q - 1 \in S /\ \A j \in i .. q - 2 : j \notin S
      \/ q = n + 1 /\ \A j \in S : j < i
  <2>1. i \in Nat /\ q = After(s, i, S) /\ Len(s) = n
    BY <1>1, <1>2, <1>3
  <2>2. n \in Nat /\ Stops(S, n)
    BY <1>2, <1>4 DEF Stops
  <2>3. IsAfter(n, i, S, q)
    BY <2>1, <2>2, AfterIs
  <2> QED BY <2>3, Zenon DEF IsAfter
<1>6. CASE q \in i + 1 .. n + 2 /\ q - 1 \in S /\ \A j \in i .. q - 2 : j \notin S
  <2>1. q - 1 \in 1 .. n /\ s[q - 1] = c
    BY <1>4, <1>6
  <2>2. q \in i .. n + 1 /\ q > i
    BY <1>2, <1>6, <2>1
  <2>3. \A m \in i .. q - 2 : s[m] # c
    <3>1. \A m \in i .. q - 2 : m \in 1 .. n
      BY <1>2, <2>2
    <3> QED BY <1>4, <1>6, <3>1
  <2> QED BY <1>1, <2>1, <2>2, <2>3 DEF StopsAt
<1>7. CASE q = n + 1 /\ \A j \in S : j < i
  <2>1. \A m \in i .. q - 2 : m \in 1 .. n /\ ~(m < i)
    BY <1>2, <1>7
  <2>2. \A m \in i .. q - 2 : s[m] # c
    BY <1>4, <1>7, <2>1
  <2>3. q \in i .. n + 1 /\ ~(q <= n)
    BY <1>2, <1>7
  <2> QED BY <1>1, <2>2, <2>3 DEF StopsAt
<1> QED BY <1>5, <1>6, <1>7

(* What a skip has passed: characters in these modes, and code again.        *)
Passed(s, Z, a, q) == q \in a .. Len(s) + 1 /\ CodeAt(s, q) /\ InModes(s, Z, a, q)

(* A mode that ends after a character.                                       *)
LEMMA PassedTo ==
  ASSUME NEW C, NEW s \in Seq(C), NEW a \in 1 .. Len(s) + 1, NEW i \in {a, a + 1}, i <= Len(s) + 1, NEW c, NEW z,
         a <= Len(s) => Mode(s, a) = z, i = a + 1 => s[a] # c,
         \A k \in 1 .. Len(s) : NextMode(s, k, z) = (IF s[k] = c THEN "code" ELSE z),
         NEW q, StopsAt(s, c, i, q)
  PROVE  Passed(s, {z}, a, q)
<1>1. PICK n : n = Len(s)
  OBVIOUS
<1>2. /\ n \in Nat /\ DOMAIN s = 1 .. n /\ a \in Nat /\ a >= 1 /\ a <= n + 1 /\ i \in Nat /\ i >= a
      /\ q \in i .. n + 1 /\ q \in Nat /\ q \in a .. n + 1
  BY <1>1 DEF StopsAt
<1>3. CASE a = n + 1
  <2>1. q = n + 1 /\ a .. q - 1 = {}
    BY <1>2, <1>3
  <2> QED BY <1>1, <1>2, <2>1 DEF Passed, CodeAt, InModes
<1>4. CASE a <= n
  <2>1. \A m \in a .. q - 2 : s[m] # c
    <3>1. \A m \in a .. q - 2 : m \in i .. q - 2 \/ (m = a /\ i = a + 1)
      BY <1>2
    <3> QED BY <3>1 DEF StopsAt
  <2>2. Staying(Modes(s), {z}, a, q - 1)
    <3>1. ASSUME NEW m \in a .. q - 1 - 1, Modes(s)[m] = z PROVE Modes(s)[m + 1] = z
      <4>1. m \in a .. q - 2 /\ m \in Nat /\ m >= 1 /\ m < Len(s) /\ m \in 1 .. Len(s)
        BY <1>1, <1>2
      <4>2. Mode(s, m + 1) = NextMode(s, m, Mode(s, m))
        BY <1>1, <1>2, <4>1, ModeNext
      <4>3. Mode(s, m) = z /\ s[m] # c
        BY <2>1, <3>1, <4>1 DEF Mode
      <4>4. NextMode(s, m, z) = z
        BY <4>1, <4>3
      <4> QED BY <4>2, <4>3, <4>4 DEF Mode
    <3> QED BY <3>1 DEF Staying
  <2>3. Stayed(Modes(s), {z}, a, q - 1)
    <3>1. q - 1 \in Nat /\ Modes(s)[a] \in {z}
      BY <1>1, <1>2, <1>4 DEF Mode
    <3> QED BY <1>2, <2>2, <3>1, Stays
  <2>4. InModes(s, {z}, a, q)
    BY <2>3 DEF InModes, Stayed, Mode
  <2>5. CodeAt(s, q)
    <3>1. CASE q = n + 1
      BY <1>1, <3>1 DEF CodeAt
    <3>2. CASE q <= n
      <4>1. q > i /\ s[q - 1] = c
        BY <1>1, <3>2 DEF StopsAt
      <4>2. PICK m : m = q - 1
        OBVIOUS
      <4>3. m \in Nat /\ m >= 1 /\ m < Len(s) /\ m \in a .. q - 1 /\ m \in 1 .. Len(s) /\ m + 1 = q /\ s[m] = c
        BY <1>1, <1>2, <3>2, <4>1, <4>2
      <4>4. Mode(s, m) = z
        BY <2>4, <4>3 DEF InModes
      <4>5. Mode(s, q) = NextMode(s, m, z)
        BY <1>1, <1>2, <4>3, <4>4, ModeNext
      <4>6. Mode(s, q) = "code"
        BY <4>3, <4>5
      <4> QED BY <1>1, <1>2, <3>2, <4>6 DEF CodeAt
    <3> QED BY <1>2, <3>1, <3>2
  <2> QED BY <1>1, <1>2, <2>4, <2>5 DEF Passed
<1> QED BY <1>2, <1>3, <1>4

(* After a character of code.                                                *)
LEMMA CodeNext ==
  ASSUME NEW C, NEW s \in Seq(C), NEW p \in 1 .. Len(s), Mode(s, p) = "code"
  PROVE  p + 1 <= Len(s) => Mode(s, p + 1) = NextMode(s, p, "code")
<1>1. Len(s) \in Nat /\ p \in Nat /\ p >= 1
  OBVIOUS
<1>2. p + 1 <= Len(s) => p < Len(s)
  BY <1>1
<1>3. p < Len(s) => Mode(s, p + 1) = NextMode(s, p, Mode(s, p))
  BY <1>1, ModeNext
<1> QED BY <1>2, <1>3

(* A literal or name in quotes that do not double.                           *)
LEMMA QuotedSkipped ==
  ASSUME NEW C, NEW s \in Seq(C), NEW p \in 1 .. Len(s), Mode(s, p) = "code",
         NEW c \in {"dquote", "tick", "closing"},
         s[p] = IF c = "closing" THEN "bracket" ELSE c,
         NEW q, q = SkipQuoted(s, p + 1, c)
  PROVE  Passed(s, {c}, p + 1, q)
<1>1. PICK a : a = p + 1
  OBVIOUS
<1>2. a \in 1 .. Len(s) + 1 /\ a \in {a, a + 1} /\ a <= Len(s) + 1 /\ a # a + 1
  BY <1>1
<1>3. ~BlockComment(s, p) /\ ~LineComment(s, p)
  BY DEF BlockComment, LineComment, At
<1>4. NextMode(s, p, "code") = c
  BY <1>3, NextModeIs
<1>5. a <= Len(s) => Mode(s, a) = c
  BY <1>1, <1>4, CodeNext
<1>6. StopsAt(s, c, a, q)
  BY <1>1, <1>2, SkipTo DEF SkipQuoted
<1>7. \A k \in 1 .. Len(s) : NextMode(s, k, c) = (IF s[k] = c THEN "code" ELSE c)
  BY NextModeIs DEF Quotings
<1>8. a = a + 1 => s[a] # c
  BY <1>2
<1>9. Passed(s, {c}, a, q)
  BY <1>2, <1>5, <1>6, <1>7, <1>8, PassedTo
<1> QED BY <1>1, <1>9

(* A comment up to the end of its line: its second dash is no newline.       *)
LEMMA LineSkipped ==
  ASSUME NEW C, NEW s \in Seq(C), NEW p \in 1 .. Len(s), Mode(s, p) = "code", LineComment(s, p),
         NEW q, q = SkipLineComment(s, p + 2)
  PROVE  Passed(s, {"line"}, p + 1, q)
<1>1. PICK a : a = p + 1
  OBVIOUS
<1>2. a <= Len(s) /\ s[a] = "dash" /\ a \in 1 .. Len(s)
  BY <1>1 DEF LineComment, At
<1>3. /\ a \in 1 .. Len(s) + 1 /\ a + 1 \in {a, a + 1} /\ a + 1 <= Len(s) + 1
      /\ a + 1 \in 1 .. Len(s) + 1 /\ p + 2 = a + 1
  BY <1>1, <1>2
<1>4. NextMode(s, p, "code") = "line"
  BY NextModeIs
<1>5. a <= Len(s) => Mode(s, a) = "line"
  BY <1>1, <1>4, CodeNext
<1>6. StopsAt(s, "nl", a + 1, q)
  BY <1>3, SkipTo DEF SkipLineComment
<1>7. \A k \in 1 .. Len(s) : NextMode(s, k, "line") = (IF s[k] = "nl" THEN "code" ELSE "line")
  BY NextModeIs
<1>8. a + 1 = a + 1 => s[a] # "nl"
  BY <1>2
<1>9. Passed(s, {"line"}, a, q)
  BY <1>3, <1>5, <1>6, <1>7, <1>8, PassedTo
<1> QED BY <1>1, <1>9

(* A block comment: the star that opens it does not close it.                *)
BlockModes == {"open", "block", "starred"}

(* The modes in a block comment that opens at p.                             *)
BlockMode(s, p, m) == IF m > p + 2 /\ s[m - 1] = "star" THEN "starred" ELSE "block"

(* The skip ends where the engine leaves the comment.                        *)
LEMMA BlockSkipped ==
  ASSUME NEW C, NEW s \in Seq(C), NEW p \in 1 .. Len(s), Mode(s, p) = "code", BlockComment(s, p),
         NEW q, q = SkipBlockComment(s, p + 2)
  PROVE  Passed(s, BlockModes, p + 1, q)
<1>1. PICK n : n = Len(s)
  OBVIOUS
<1>2. /\ n \in Nat /\ DOMAIN s = 1 .. n /\ p \in Nat /\ p >= 1 /\ p + 1 <= n
      /\ s[p] = "slash" /\ s[p + 1] = "star"
  BY <1>1 DEF BlockComment, At
<1>3. PICK b : b = p + 2
  OBVIOUS
<1>4. b \in Nat /\ b <= n + 1 /\ p + 1 = b - 1 /\ b - 1 \in 1 .. n /\ b >= 3
  BY <1>2, <1>3
<1> DEFINE T == {j \in Where(s, {"slash"}) : j > b /\ At(s, j - 1) = "star"}
<1>5. PICK S : S = T
  OBVIOUS
<1>6. \A j \in 1 .. n : j \in S <=> s[j] = "slash" /\ j > b /\ s[j - 1] = "star"
  <2>1. \A j \in 1 .. n : j > b => j - 1 \in 1 .. n
    BY <1>2, <1>4
  <2>2. \A j \in 1 .. n : j \in Where(s, {"slash"}) <=> s[j] = "slash"
    BY <1>2 DEF Where
  <2>3. ASSUME NEW j \in 1 .. n, j > b PROVE At(s, j - 1) = s[j - 1]
    <3>1. PICK k : k = j - 1
      OBVIOUS
    <3>2. k \in DOMAIN s
      BY <1>2, <2>1, <2>3, <3>1
    <3> QED BY <3>1, <3>2 DEF At
  <2> QED BY <1>5, <2>2, <2>3
<1>7. S \subseteq 1 .. n /\ \A j \in S : j > b
  BY <1>2, <1>5 DEF Where
<1>8. q = After(s, b, S)
  BY <1>3, <1>5, Zenon DEF SkipBlockComment
<1> HIDE DEF T
<1>9. IsAfter(n, b, S, q)
  <2>1. Stops(S, n)
    BY <1>2, <1>7 DEF Stops
  <2> QED BY <1>1, <1>2, <1>4, <1>8, <2>1, AfterIs
<1>10. /\ q \in b .. n + 1 /\ \A m \in b .. q - 2 : m \notin S
       /\ q <= n => q - 1 \in S
  <2>1. CASE q \in b + 1 .. n + 2 /\ q - 1 \in S /\ \A j \in b .. q - 2 : j \notin S
    <3>1. q - 1 \in 1 .. n
      BY <1>7, <2>1
    <3> QED BY <1>2, <1>4, <2>1, <3>1
  <2>2. CASE q = n + 1 /\ \A j \in S : j < b
    <3>1. \A m \in S : FALSE
      <4>1. \A m \in S : m > b /\ m < b /\ m \in 1 .. n
        BY <1>7, <2>2
      <4> QED BY <1>2, <1>4, <4>1
    <3> QED BY <1>2, <1>4, <2>2, <3>1
  <2> QED BY <1>9, <2>1, <2>2, Zenon DEF IsAfter
<1>11. p + 1 \in 1 .. n /\ Mode(s, p + 1) = "open"
  <2>1. NextMode(s, p, "code") = "open"
    BY NextModeIs
  <2> QED BY <1>1, <1>2, <2>1, CodeNext
<1>12. b <= n => Mode(s, b) = "block"
  <2>1. PICK a : a = p + 1
    OBVIOUS
  <2>2. a \in Nat /\ a >= 1 /\ a + 1 = b
    BY <1>2, <1>3, <2>1
  <2>3. a < Len(s) => Mode(s, a + 1) = NextMode(s, a, Mode(s, a))
    BY <1>1, <1>2, <2>2, ModeNext
  <2>4. NextMode(s, a, "open") = "block"
    BY NextModeIs
  <2> QED BY <1>1, <1>2, <1>11, <2>1, <2>2, <2>3, <2>4
<1>13. \A m \in b .. q - 1 : Mode(s, m) = BlockMode(s, p, m)
  <2> DEFINE W == {m \in b .. q - 1 : Mode(s, m) # BlockMode(s, p, m)}
  <2> SUFFICES ASSUME W # {} PROVE FALSE
    OBVIOUS
  <2>1. W \subseteq b .. q - 1 /\ W \subseteq Nat
    BY <1>4, <1>10
  <2>2. \A m \in b .. q - 1 : m \notin W => Mode(s, m) = BlockMode(s, p, m)
    OBVIOUS
  <2>3. \A m \in W : Mode(s, m) # BlockMode(s, p, m)
    OBVIOUS
  <2> HIDE DEF W
  <2>4. PICK m \in W : \A j \in W : m <= j
    BY <2>1, LeastNatural
  <2>5. m \in Nat /\ m >= b /\ m <= n /\ m \in b .. q - 1
    BY <1>2, <1>4, <1>10, <2>1, <2>4
  <2>6. m # b
    <3>1. BlockMode(s, p, b) = "block"
      BY <1>3, <1>4 DEF BlockMode
    <3> QED BY <1>12, <2>3, <2>4, <2>5, <3>1
  <2>7. PICK j : j = m - 1
    OBVIOUS
  <2>8. j \in Nat /\ j >= b /\ j + 1 = m /\ j \in b .. q - 1 /\ j \in b .. q - 2 /\ j \in 1 .. n /\ j < n /\ j >= 1
    BY <1>2, <1>4, <1>10, <2>5, <2>6, <2>7
  <2>9. Mode(s, j) = BlockMode(s, p, j)
    <3>1. j \notin W
      <4>1. ~ (m <= j)
        BY <2>8
      <4> QED BY <2>4, <4>1
    <3> QED BY <2>2, <2>8, <3>1
  <2>10. Mode(s, m) = NextMode(s, j, Mode(s, j))
    BY <1>1, <1>2, <2>8, ModeNext
  <2>11. ~ (s[j] = "slash" /\ j > b /\ s[j - 1] = "star")
    BY <1>6, <1>10, <2>8
  <2>12. BlockMode(s, p, m) = IF s[j] = "star" THEN "starred" ELSE "block"
    <3>1. m > p + 2 /\ m - 1 = j
      BY <1>3, <2>7, <2>8
    <3> QED BY <3>1 DEF BlockMode
  <2>13. BlockMode(s, p, j) = IF j > b /\ s[j - 1] = "star" THEN "starred" ELSE "block"
    BY <1>3 DEF BlockMode
  <2>14. CASE j > b /\ s[j - 1] = "star"
    <3>1. Mode(s, m) = NextMode(s, j, "starred")
      BY <2>9, <2>10, <2>13, <2>14
    <3>2. Mode(s, m) = BlockMode(s, p, m)
      BY <2>11, <2>12, <2>14, <3>1, NextModeIs
    <3> QED BY <2>3, <2>4, <3>2
  <2>15. CASE ~ (j > b /\ s[j - 1] = "star")
    <3>1. Mode(s, m) = NextMode(s, j, "block")
      BY <2>9, <2>10, <2>13, <2>15
    <3>2. Mode(s, m) = BlockMode(s, p, m)
      BY <2>12, <3>1, NextModeIs
    <3> QED BY <2>3, <2>4, <3>2
  <2> QED BY <2>14, <2>15
<1>14. InModes(s, BlockModes, p + 1, q)
  <2>1. \A m \in p + 1 .. q - 1 : m = p + 1 \/ m \in b .. q - 1
    BY <1>2, <1>3, <1>10
  <2>2. \A m : BlockMode(s, p, m) \in BlockModes
    BY DEF BlockMode, BlockModes
  <2>3. "open" \in BlockModes
    BY DEF BlockModes
  <2> QED BY <1>11, <1>13, <2>1, <2>2, <2>3 DEF InModes
<1>15. CodeAt(s, q)
  <2>1. CASE q = n + 1
    BY <1>1, <2>1 DEF CodeAt
  <2>2. CASE q <= n
    <3>1. PICK m : m = q - 1
      OBVIOUS
    <3>2. m \in S
      BY <1>10, <2>2, <3>1
    <3>3. m \in 1 .. n /\ m \in Nat /\ m > b /\ m + 1 = q /\ m < n /\ m \in b .. q - 1 /\ m >= 1
      BY <1>2, <1>4, <1>7, <1>10, <2>2, <3>1, <3>2
    <3>4. s[m] = "slash" /\ s[m - 1] = "star"
      BY <1>6, <3>2, <3>3
    <3>5. Mode(s, m) = "starred"
      <4>1. m > p + 2
        BY <1>3, <3>3
      <4> QED BY <1>13, <3>3, <3>4, <4>1 DEF BlockMode
    <3>6. Mode(s, q) = NextMode(s, m, "starred")
      BY <1>1, <1>2, <3>3, <3>5, ModeNext
    <3>7. Mode(s, q) = "code"
      BY <3>4, <3>6, NextModeIs
    <3> QED BY <1>1, <1>2, <1>4, <1>10, <2>2, <3>7 DEF CodeAt
  <2> QED BY <1>2, <1>4, <1>10, <2>1, <2>2
<1>16. q \in p + 1 .. Len(s) + 1
  BY <1>1, <1>2, <1>4, <1>10
<1> QED BY <1>14, <1>15, <1>16 DEF Passed

(* The place after the first quote from j on, and whether another follows.   *)
QuoteAfter(s, j) == After(s, j, Where(s, {"quote"}))
Doubled(s, j) ==
  /\ QuoteAfter(s, j) > j /\ At(s, QuoteAfter(s, j) - 1) = "quote"
  /\ At(s, QuoteAfter(s, j)) = "quote"

(* What it is.                                                               *)
LEMMA QuoteAfterIs ==
  ASSUME NEW C, NEW s \in Seq(C), NEW j \in 1 .. Len(s) + 1
  PROVE  /\ StopsAt(s, "quote", j, QuoteAfter(s, j))
         /\ QuoteAfter(s, j) \in 1 .. Len(s) + 1 /\ QuoteAfter(s, j) >= j
         /\ Doubled(s, j) => QuoteAfter(s, j) \in 1 .. Len(s) /\ s[QuoteAfter(s, j)] = "quote"
<1>1. PICK k : k = QuoteAfter(s, j)
  OBVIOUS
<1>2. StopsAt(s, "quote", j, k)
  BY <1>1, SkipTo DEF QuoteAfter
<1>3. k \in 1 .. Len(s) + 1 /\ k >= j
  BY <1>2 DEF StopsAt
<1>4. Doubled(s, j) => k \in 1 .. Len(s) /\ s[k] = "quote"
  <2>1. Doubled(s, j) => At(s, k) = "quote"
    BY <1>1 DEF Doubled
  <2> QED BY <2>1 DEF At
<1> QED BY <1>1, <1>2, <1>3, <1>4

(* Where the literal ends, as the code has it: a function of where it begins. *)
QuoteEnds(s, e) ==
  e = [j \in 1 .. Len(s) + 1 |-> IF Doubled(s, j) THEN e[QuoteAfter(s, j) + 1] ELSE QuoteAfter(s, j)]

(* There is one: it goes on only to a greater place.                         *)
LEMMA QuoteEndsExist ==
  ASSUME NEW C, NEW s \in Seq(C)
  PROVE  \E e : QuoteEnds(s, e)
<1>1. PICK N : N = Len(s) + 1
  OBVIOUS
<1>2. N \in Nat
  BY <1>1
<1> DEFINE next == [j \in 1 .. N |-> IF Doubled(s, j) THEN QuoteAfter(s, j) + 1 ELSE N + 1]
           b == [j \in 1 .. N |-> QuoteAfter(s, j)]
<1>3. \A j \in 1 .. N : /\ QuoteAfter(s, j) \in 1 .. N /\ QuoteAfter(s, j) >= j
                        /\ Doubled(s, j) => QuoteAfter(s, j) + 1 <= N
  BY <1>1, QuoteAfterIs
<1>4. \A j \in 1 .. N : /\ QuoteAfter(s, j) \in Nat /\ QuoteAfter(s, j) + 1 \in Nat
                        /\ QuoteAfter(s, j) + 1 > j /\ N + 1 > j
  BY <1>2, <1>3
<1>5. next \in [1 .. N -> Nat] /\ b \in [1 .. N -> Nat] /\ \A j \in 1 .. N : next[j] > j
  BY <1>2, <1>4
<1>6. \A j \in 1 .. N : /\ next[j] = IF Doubled(s, j) THEN QuoteAfter(s, j) + 1 ELSE N + 1
                        /\ b[j] = QuoteAfter(s, j)
  OBVIOUS
<1> HIDE DEF next, b
<1>7. PICK g : Jumping(g, N, Nat, next, b)
  BY <1>2, <1>5, Jumps
<1>8. g \in [1 .. N -> Nat] /\ \A j \in 1 .. N : g[j] = IF next[j] > N THEN b[j] ELSE g[next[j]]
  BY <1>7, Zenon DEF Jumping
<1> DEFINE h == [j \in 1 .. N |-> IF Doubled(s, j) THEN g[QuoteAfter(s, j) + 1] ELSE QuoteAfter(s, j)]
<1>9. ASSUME NEW j \in 1 .. N PROVE g[j] = h[j]
  <2>1. CASE Doubled(s, j)
    <3>1. next[j] = QuoteAfter(s, j) + 1 /\ ~ (next[j] > N)
      BY <1>2, <1>3, <1>6, <2>1
    <3>2. g[j] = g[next[j]]
      BY <1>8, <3>1, Zenon
    <3> QED BY <2>1, <3>1, <3>2
  <2>2. CASE ~Doubled(s, j)
    <3>1. next[j] > N /\ b[j] = QuoteAfter(s, j)
      BY <1>2, <1>6, <2>2
    <3>2. g[j] = b[j]
      BY <1>8, <3>1, Zenon
    <3> QED BY <2>2, <3>1, <3>2
  <2> QED BY <2>1, <2>2
<1>10. g = h
  BY <1>8, <1>9
<1>11. QuoteEnds(s, g)
  BY <1>1, <1>10 DEF QuoteEnds
<1> QED BY <1>11

(* So the skip of a literal goes on where it says.                           *)
LEMMA SingleQuotedIs ==
  ASSUME NEW C, NEW s \in Seq(C), NEW j \in 1 .. Len(s) + 1
  PROVE  SkipSingleQuoted(s, j) =
           IF Doubled(s, j) THEN SkipSingleQuoted(s, QuoteAfter(s, j) + 1) ELSE QuoteAfter(s, j)
<1> DEFINE end == CHOOSE e : QuoteEnds(s, e)
<1>1. QuoteEnds(s, end)
  BY QuoteEndsExist, Zenon
<1>2. end = CHOOSE e : e = [i \in 1 .. Len(s) + 1 |->
                              IF Doubled(s, i) THEN e[QuoteAfter(s, i) + 1] ELSE QuoteAfter(s, i)]
  BY Zenon DEF QuoteEnds
<1>3. \A i : SkipSingleQuoted(s, i) = end[i]
  BY <1>2, Zenon DEF SkipSingleQuoted, Doubled, QuoteAfter
<1> HIDE DEF end
<1>4. end[j] = IF Doubled(s, j) THEN end[QuoteAfter(s, j) + 1] ELSE QuoteAfter(s, j)
  BY <1>1, Zenon DEF QuoteEnds
<1> QED BY <1>3, <1>4

(* A bounded set of numbers has a greatest one, for what is shown from the end *)
(* of a text on.                                                             *)
LEMMA GreatestNatural ==
  ASSUME NEW N \in Nat, NEW T, T \subseteq 1 .. N, T # {}
  PROVE  \E x \in T : \A y \in T : y <= x
<1> DEFINE U == {x \in Nat : N - x \in T}
<1>1. U # {}
  <2>1. PICK y : y \in T
    OBVIOUS
  <2>2. PICK x : x = N - y
    OBVIOUS
  <2>3. x \in Nat /\ N - x = y
    BY <2>1, <2>2
  <2> QED BY <2>1, <2>3
<1>2. PICK x \in U : \A y \in U : x <= y
  <2>1. U \subseteq Nat
    OBVIOUS
  <2> HIDE DEF U
  <2> QED BY <1>1, <2>1, LeastNatural
<1>3. ASSUME NEW y \in T PROVE y <= N - x
  <2>1. PICK z : z = N - y
    OBVIOUS
  <2>2. z \in Nat /\ N - z = y /\ y \in 1 .. N
    BY <2>1
  <2>3. z \in U
    BY <2>2
  <2>4. x <= z /\ x \in Nat
    BY <1>2, <2>3
  <2> QED BY <2>2, <2>4
<1> QED BY <1>2, <1>3

(* A literal in single quotes: the first of two quotes closes it for the     *)
(* engine, and the second opens it again.                                    *)
InLiteral(s, m) == Mode(s, m) = "quote" \/ (Mode(s, m) = "code" /\ s[m] = "quote")
LiteralPassed(s, a, q) ==
  q \in a .. Len(s) + 1 /\ CodeAt(s, q) /\ \A m \in a .. q - 1 : InLiteral(s, m)

(* A place at which a literal is open, or the end.                           *)
QuoteOpen(s, j) == j <= Len(s) => Mode(s, j) = "quote"

(* Up to the next quote the literal is passed.                               *)
LEMMA ToQuote ==
  ASSUME NEW C, NEW s \in Seq(C), NEW j \in 1 .. Len(s) + 1, QuoteOpen(s, j),
         NEW k, k = QuoteAfter(s, j)
  PROVE  LiteralPassed(s, j, k)
<1>1. StopsAt(s, "quote", j, k)
  BY QuoteAfterIs
<1>2. j \in {j, j + 1} /\ j <= Len(s) + 1 /\ j # j + 1
  OBVIOUS
<1>3. j <= Len(s) => Mode(s, j) = "quote"
  BY DEF QuoteOpen
<1>4. j = j + 1 => s[j] # "quote"
  BY <1>2
<1>5. \A m \in 1 .. Len(s) : NextMode(s, m, "quote") = (IF s[m] = "quote" THEN "code" ELSE "quote")
  BY NextModeIs DEF Quotings
<1>6. Passed(s, {"quote"}, j, k)
  BY <1>1, <1>2, <1>3, <1>4, <1>5, PassedTo
<1> QED BY <1>6, Zenon DEF Passed, InModes, LiteralPassed, InLiteral

(* And so up to where it ends, however many quotes are doubled in it.        *)
LEMMA LiteralEnds ==
  ASSUME NEW C, NEW s \in Seq(C), NEW j \in 1 .. Len(s) + 1, QuoteOpen(s, j)
  PROVE  LiteralPassed(s, j, SkipSingleQuoted(s, j))
<1> DEFINE T == {i \in 1 .. Len(s) + 1 : QuoteOpen(s, i) /\ ~LiteralPassed(s, i, SkipSingleQuoted(s, i))}
<1> SUFFICES ASSUME T # {} PROVE FALSE
  OBVIOUS
<1>1. PICK N : N = Len(s) + 1
  OBVIOUS
<1>2. N \in Nat /\ Len(s) \in Nat /\ Len(s) = N - 1 /\ T \subseteq 1 .. N
  BY <1>1
<1>3. /\ \A i \in T : QuoteOpen(s, i) /\ ~LiteralPassed(s, i, SkipSingleQuoted(s, i))
      /\ \A i \in 1 .. N : i \notin T /\ QuoteOpen(s, i) => LiteralPassed(s, i, SkipSingleQuoted(s, i))
  BY <1>1
<1> HIDE DEF T
<1>4. PICK i \in T : \A y \in T : y <= i
  BY <1>2, GreatestNatural
<1>5. i \in 1 .. N /\ i \in 1 .. Len(s) + 1 /\ QuoteOpen(s, i)
  BY <1>1, <1>2, <1>3, <1>4
<1>6. PICK k : k = QuoteAfter(s, i)
  OBVIOUS
<1>7. LiteralPassed(s, i, k)
  BY <1>5, <1>6, ToQuote
<1>8. PICK q : q = SkipSingleQuoted(s, i)
  OBVIOUS
<1>9. q = IF Doubled(s, i) THEN SkipSingleQuoted(s, k + 1) ELSE k
  BY <1>5, <1>6, <1>8, SingleQuotedIs
<1>10. CASE ~Doubled(s, i)
  BY <1>3, <1>4, <1>7, <1>8, <1>9, <1>10
<1>11. CASE Doubled(s, i)
  <2>1. k \in 1 .. Len(s) /\ s[k] = "quote" /\ k >= i
    BY <1>5, <1>6, <1>11, QuoteAfterIs
  <2>2. PICK l : l = k + 1
    OBVIOUS
  <2>3. l \in 1 .. N /\ ~ (l <= i) /\ l \in Nat /\ k \in Nat /\ i \in Nat
    BY <1>2, <1>5, <2>1, <2>2
  <2>4. Mode(s, k) = "code"
    <3>1. CodeAt(s, k) /\ k # Len(s) + 1
      BY <1>2, <1>7, <2>1 DEF LiteralPassed
    <3> QED BY <3>1 DEF CodeAt
  <2>5. QuoteOpen(s, l)
    <3>1. ~BlockComment(s, k) /\ ~LineComment(s, k)
      BY <2>1 DEF BlockComment, LineComment, At
    <3>2. NextMode(s, k, "code") = "quote"
      BY <2>1, <3>1, NextModeIs
    <3>3. k + 1 <= Len(s) => Mode(s, k + 1) = "quote"
      BY <2>1, <2>4, <3>2, CodeNext
    <3> QED BY <2>2, <3>3 DEF QuoteOpen
  <2>6. LiteralPassed(s, l, q)
    <3>1. l \notin T
      BY <1>4, <2>3
    <3> QED BY <1>3, <1>9, <1>11, <2>2, <2>3, <2>5, <3>1
  <2>7. /\ q \in l .. N /\ CodeAt(s, q) /\ \A m \in l .. q - 1 : InLiteral(s, m)
        /\ \A m \in i .. k - 1 : InLiteral(s, m)
    BY <1>1, <1>7, <2>6, Zenon DEF LiteralPassed
  <2>8. InLiteral(s, k)
    BY <2>1, <2>4 DEF InLiteral
  <2>9. \A m \in i .. q - 1 : m \in l .. q - 1 \/ m = k \/ m \in i .. k - 1
    BY <1>2, <2>1, <2>2, <2>3, <2>7
  <2>10. q \in i .. N
    BY <1>2, <2>1, <2>2, <2>3, <2>7
  <2>11. LiteralPassed(s, i, q)
    BY <1>1, <2>7, <2>8, <2>9, <2>10 DEF LiteralPassed
  <2> QED BY <1>3, <1>4, <1>8, <2>11
<1> QED BY <1>10, <1>11

(* A run of name characters.                                                 *)
RunOfNames(s, i, q) ==
  /\ q \in i .. Len(s) + 1 /\ \A m \in i .. q - 1 : IsName(s[m])
  /\ q <= Len(s) => ~IsName(s[q])

(* What reading the name of a placeholder stops at.                          *)
LEMMA NameEndIs ==
  ASSUME NEW C, NEW s \in Seq(C), NEW i \in 1 .. Len(s) + 1, NEW q, q = NameEnd(s, i)
  PROVE  RunOfNames(s, i, q)
<1>1. PICK n : n = Len(s)
  OBVIOUS
<1>2. n \in Nat /\ i \in Nat /\ i <= n + 1 /\ DOMAIN s = 1 .. n /\ i >= 1
  BY <1>1
<1>3. PICK S : S = {j \in 1 .. n + 1 : ~IsName(At(s, j))}
  OBVIOUS
<1>4. PICK r : r = After(s, i, S)
  OBVIOUS
<1>5. q = r - 1
  BY <1>1, <1>3, <1>4, Zenon DEF NameEnd
<1>6. Stops(S, n)
  BY <1>3 DEF Stops
<1>7. IsAfter(n, i, S, r)
  BY <1>1, <1>2, <1>4, <1>6, AfterIs
<1>8. n + 1 \in S
  <2>1. At(s, n + 1) = "end"
    BY <1>2 DEF At
  <2>2. ~IsName("end")
    BY DEF IsName
  <2> QED BY <1>2, <1>3, <2>1, <2>2
<1>9. ~ \A j \in S : j < i
  BY <1>2, <1>8
<1>10. r \in i + 1 .. n + 2 /\ r - 1 \in S /\ \A j \in i .. r - 2 : j \notin S
  BY <1>7, <1>9 DEF IsAfter
<1>11. q \in i .. n + 1 /\ q \in S /\ \A j \in i .. q - 1 : j \notin S
  BY <1>2, <1>5, <1>10
<1>12. \A m \in 1 .. n : m \in S <=> ~IsName(s[m])
  <2>1. \A m \in 1 .. n : At(s, m) = s[m] /\ m \in 1 .. n + 1
    BY <1>2 DEF At
  <2> QED BY <1>3, <2>1
<1>13. \A m \in i .. q - 1 : m \in 1 .. n
  BY <1>2, <1>11
<1>14. q <= n => q \in 1 .. n
  BY <1>2, <1>11
<1> QED BY <1>1, <1>11, <1>12, <1>13, <1>14 DEF RunOfNames

(* The engine stays in code over it.                                         *)
LEMMA NamesAreCode ==
  ASSUME NEW C, NEW s \in Seq(C), NEW i \in 1 .. Len(s) + 1, i <= Len(s) => Mode(s, i) = "code",
         NEW q, RunOfNames(s, i, q)
  PROVE  Passed(s, {"code"}, i, q)
<1>1. PICK n : n = Len(s)
  OBVIOUS
<1>2. n \in Nat /\ i \in Nat /\ i <= n + 1 /\ q \in i .. n + 1 /\ i >= 1 /\ q \in Nat
  BY <1>1 DEF RunOfNames
<1>3. CASE i = n + 1
  <2>1. q = n + 1 /\ \A m \in i .. q - 1 : FALSE
    BY <1>2, <1>3
  <2> QED BY <1>1, <1>2, <2>1 DEF Passed, CodeAt, InModes
<1>4. CASE i <= n
  <2>1. \A m \in i .. q - 1 : m \in 1 .. n /\ IsName(s[m])
    BY <1>1, <1>2 DEF RunOfNames
  <2>2. PICK t : t = (IF q = n + 1 THEN n ELSE q)
    OBVIOUS
  <2>3. t \in Nat /\ t <= n /\ \A m \in i .. t - 1 : m \in i .. q - 1 /\ m < n
    BY <1>2, <2>2
  <2>4. Staying(Modes(s), {"code"}, i, t)
    <3>1. ASSUME NEW m \in i .. t - 1, Modes(s)[m] = "code" PROVE Modes(s)[m + 1] = "code"
      <4>1. m \in Nat /\ m >= 1 /\ m < n /\ m \in 1 .. n /\ IsName(s[m])
        BY <1>2, <2>1, <2>3
      <4>2. Mode(s, m + 1) = NextMode(s, m, Mode(s, m)) /\ Mode(s, m) = "code"
        BY <1>1, <3>1, <4>1, ModeNext DEF Mode
      <4>3. ~BlockComment(s, m) /\ ~LineComment(s, m)
        BY <1>1, <4>1 DEF BlockComment, LineComment, IsName, At
      <4>4. NextMode(s, m, "code") = "code"
        BY <4>1, <4>3, NextModeIs DEF IsName
      <4> QED BY <4>2, <4>4 DEF Mode
    <3> QED BY <3>1 DEF Staying
  <2>5. Stayed(Modes(s), {"code"}, i, t)
    BY <1>1, <1>2, <1>4, <2>3, <2>4, Stays DEF Mode
  <2>6. \A m \in i .. t : Mode(s, m) = "code"
    BY <2>5 DEF Stayed, Mode
  <2>7. InModes(s, {"code"}, i, q)
    <3>1. \A m \in i .. q - 1 : m \in i .. t
      BY <1>2, <2>2
    <3> QED BY <2>6, <3>1 DEF InModes
  <2>8. CodeAt(s, q)
    <3>1. q <= n => q \in i .. t /\ q \in 1 .. n
      BY <1>2, <2>2
    <3> QED BY <1>1, <1>2, <2>6, <3>1 DEF CodeAt
  <2> QED BY <1>1, <1>2, <2>7, <2>8 DEF Passed
<1> QED BY <1>2, <1>3, <1>4

(* A placeholder that is no position, by the names the scan knows.           *)
NamedAt(s, i) ==
  LET run == {j \in DOMAIN s : j > i /\ \A k \in i + 1 .. j : IsName(s[k])}
  IN  \/ s[i] = "dollar" /\ ~(run # {} /\ \A j \in run : s[j] = "1")
      \/ s[i] \in {"colon", "at"} /\ run # {}

(* Its name is what the scan reads.                                          *)
LEMMA NamedIs ==
  ASSUME NEW C, NEW s \in Seq(C), NEW p \in 1 .. Len(s), NEW q, RunOfNames(s, p + 1, q)
  PROVE  NamedAt(s, p) <=> \/ s[p] = "dollar" /\ ~(q > p + 1 /\ \A j \in p + 1 .. q - 1 : s[j] = "1")
                           \/ s[p] \in {"colon", "at"} /\ q > p + 1
<1>1. PICK n : n = Len(s)
  OBVIOUS
<1>2. n \in Nat /\ p \in Nat /\ p <= n /\ DOMAIN s = 1 .. n /\ p >= 1
  BY <1>1
<1>3. /\ q \in p + 1 .. n + 1 /\ q \in Nat /\ \A m \in p + 1 .. q - 1 : IsName(s[m])
      /\ q <= n => ~IsName(s[q])
  BY <1>1, <1>2 DEF RunOfNames
<1>4. PICK run : run = {j \in DOMAIN s : j > p /\ \A k \in p + 1 .. j : IsName(s[k])}
  OBVIOUS
<1>5. \A j : j \in run <=> j \in p + 1 .. q - 1
  <2>1. ASSUME NEW j \in run PROVE j \in p + 1 .. q - 1
    <3>1. j \in 1 .. n /\ j > p /\ \A k \in p + 1 .. j : IsName(s[k])
      BY <1>2, <1>4
    <3>2. ~ (q <= j)
      <4>1. q <= j => q \in p + 1 .. j /\ q <= n
        BY <1>2, <1>3, <3>1
      <4> QED BY <1>3, <3>1, <4>1
    <3> QED BY <1>2, <1>3, <3>1, <3>2
  <2>2. ASSUME NEW j \in p + 1 .. q - 1 PROVE j \in run
    <3>1. j \in 1 .. n /\ j > p
      BY <1>2, <1>3
    <3>2. \A k \in p + 1 .. j : k \in p + 1 .. q - 1
      BY <1>2, <1>3
    <3>3. \A k \in p + 1 .. j : IsName(s[k])
      BY <1>3, <3>2
    <3> QED BY <1>2, <1>4, <3>1, <3>3
  <2> QED BY <2>1, <2>2
<1>6. run # {} <=> q > p + 1
  <2>1. q > p + 1 => p + 1 \in p + 1 .. q - 1
    BY <1>2, <1>3
  <2>2. \A j \in p + 1 .. q - 1 : q > p + 1
    BY <1>2, <1>3
  <2> QED BY <1>5, <2>1, <2>2
<1>7. (\A j \in run : s[j] = "1") <=> \A j \in p + 1 .. q - 1 : s[j] = "1"
  BY <1>5
<1>8. NamedAt(s, p) <=> \/ s[p] = "dollar" /\ ~(run # {} /\ \A j \in run : s[j] = "1")
                        \/ s[p] \in {"colon", "at"} /\ run # {}
  BY <1>4, Zenon DEF NamedAt
<1> QED BY <1>6, <1>7, <1>8

(* And the scan notices it if it is no position.                             *)
LEMMA UnsupportedIs ==
  ASSUME NEW C, NEW s \in Seq(C), NEW p \in 1 .. Len(s)
  PROVE  (Unsupported(s, p) # None <=> NamedAt(s, p)) /\ Unsupported(s, p) \in Seq(C)
<1>1. PICK q : q = NameEnd(s, p + 1)
  OBVIOUS
<1>2. RunOfNames(s, p + 1, q)
  <2>1. p + 1 \in 1 .. Len(s) + 1
    OBVIOUS
  <2> QED BY <1>1, <2>1, NameEndIs
<1>3. PICK n : n = Len(s)
  OBVIOUS
<1>4. n \in Nat /\ p \in Nat /\ p >= 1 /\ q \in p + 1 .. n + 1 /\ q \in Nat /\ q - 1 >= p
  BY <1>2, <1>3 DEF RunOfNames
<1>5. PICK name : name = SubSeq(s, p + 1, q - 1)
  OBVIOUS
<1>6. /\ name \in Seq(C) /\ Len(name) = q - 1 - p /\ DOMAIN name = 1 .. q - 1 - p
      /\ \A i \in 1 .. q - 1 - p : name[i] = s[p + i]
  <2>1. PICK a : a = p + 1
    OBVIOUS
  <2>2. PICK b : b = q - 1
    OBVIOUS
  <2>3. a \in 1 .. n + 1 /\ b \in a - 1 .. n /\ b \in Nat /\ a \in Nat
    BY <1>4, <2>1, <2>2
  <2>4. /\ SubSeq(s, a, b) \in Seq(C)
        /\ Len(SubSeq(s, a, b)) = (IF a <= b THEN b - a + 1 ELSE 0)
        /\ \A i \in 1 .. b - a + 1 : SubSeq(s, a, b)[i] = s[a + i - 1]
    BY <1>3, <2>3, SubSeqProperties
  <2>5. b - a + 1 = q - 1 - p /\ (~(a <= b) => q - 1 - p = 0)
    BY <1>4, <2>1, <2>2
  <2>6. Len(name) = q - 1 - p /\ name \in Seq(C)
    BY <1>5, <2>1, <2>2, <2>4, <2>5
  <2>7. \A i \in 1 .. q - 1 - p : a + i - 1 = p + i
    BY <1>4, <2>1
  <2> QED BY <1>5, <2>1, <2>2, <2>4, <2>5, <2>6, <2>7
<1>7. name # <<>> <=> q > p + 1
  BY <1>4, <1>6
<1>8. IsNumber(name) <=> q > p + 1 /\ \A j \in p + 1 .. q - 1 : s[j] = "1"
  <2>1. (\A i \in DOMAIN name : name[i] = "1") <=> \A j \in p + 1 .. q - 1 : s[j] = "1"
    <3>1. ASSUME \A i \in DOMAIN name : name[i] = "1", NEW j \in p + 1 .. q - 1 PROVE s[j] = "1"
      <4>1. PICK i : i = j - p
        OBVIOUS
      <4>2. i \in 1 .. q - 1 - p /\ p + i = j
        BY <1>4, <4>1
      <4> QED BY <1>6, <3>1, <4>2
    <3>2. ASSUME \A j \in p + 1 .. q - 1 : s[j] = "1", NEW i \in DOMAIN name PROVE name[i] = "1"
      <4>1. i \in 1 .. q - 1 - p /\ p + i \in p + 1 .. q - 1
        BY <1>4, <1>6
      <4> QED BY <1>6, <3>2, <4>1
    <3> QED BY <3>1, <3>2
  <2> QED BY <1>7, <2>1 DEF IsNumber
<1>9. NamedAt(s, p) <=> \/ s[p] = "dollar" /\ ~IsNumber(name)
                        \/ s[p] \in {"colon", "at"} /\ name # <<>>
  BY <1>2, <1>7, <1>8, NamedIs
<1>10. Unsupported(s, p) = IF \/ s[p] = "dollar" /\ ~IsNumber(name)
                              \/ s[p] \in {"colon", "at"} /\ name # <<>>
                           THEN <<s[p]>> \o name ELSE None
  BY <1>1, <1>5, Zenon DEF Unsupported
<1>11. <<s[p]>> \o name # None /\ <<s[p]>> \o name \in Seq(C) /\ None \in Seq(C)
  <2>1. s[p] \in C
    OBVIOUS
  <2>2. <<s[p]>> \in Seq(C) /\ Len(<<s[p]>>) = 1
    BY <2>1
  <2>3. Len(<<s[p]>> \o name) = 1 + Len(name) /\ <<s[p]>> \o name \in Seq(C) /\ Len(name) \in Nat
    BY <1>6, <2>2, ConcatProperties
  <2>4. Len(<<s[p]>> \o name) # 0
    BY <2>3
  <2>5. Len(None) = 0 /\ None \in Seq(C)
    BY DEF None
  <2> QED BY <2>3, <2>4, <2>5
<1> QED BY <1>9, <1>10, <1>11

(* Code, ends and words, a character at a time.                              *)
LEMMA MembersAre ==
  ASSUME NEW C, NEW s \in Seq(C), NEW m \in 1 .. Len(s)
  PROVE  /\ m \in Code(s) <=> Mode(s, m) = "code" /\ ~LineComment(s, m) /\ ~BlockComment(s, m)
         /\ m \in Ends(s) <=> m \in Code(s) /\ s[m] = "semicolon"
         /\ m \in Words(s) <=> \/ m \in Code(s) /\ s[m] \notin {"semicolon", "nl"}
                               \/ Mode(s, m) \in Quotings
<1>1. m \in DOMAIN s
  OBVIOUS
<1>2. m \in Code(s) <=> Mode(s, m) = "code" /\ ~LineComment(s, m) /\ ~BlockComment(s, m)
  BY <1>1, Zenon DEF Code, Mode
<1>3. m \in Ends(s) <=> m \in Code(s) /\ s[m] = "semicolon"
  BY Zenon DEF Ends
<1>4. m \in Words(s) <=> \/ m \in Code(s) /\ s[m] \notin {"semicolon", "nl"}
                         \/ Mode(s, m) \in Quotings
  BY <1>1, Zenon DEF Words, Mode
<1> QED BY <1>2, <1>3, <1>4

(* They are characters of the text.                                          *)
LEMMA MembersIn ==
  ASSUME NEW C, NEW s \in Seq(C)
  PROVE  Code(s) \subseteq 1 .. Len(s) /\ Ends(s) \subseteq 1 .. Len(s) /\ Words(s) \subseteq 1 .. Len(s)
<1>1. DOMAIN s = 1 .. Len(s)
  OBVIOUS
<1>2. Code(s) \subseteq DOMAIN s
  BY Zenon DEF Code
<1>3. Ends(s) \subseteq Code(s) /\ Words(s) \subseteq Code(s) \cup DOMAIN s
  BY Zenon DEF Ends, Words
<1> QED BY <1>1, <1>2, <1>3

(* What a placeholder begins with.                                           *)
LEMMA NamedBegins ==
  ASSUME NEW s, NEW m, NamedAt(s, m)
  PROVE  s[m] \in {"dollar", "colon", "at"}
BY Zenon DEF NamedAt

(* InToken a token no statement ends and no placeholder begins.              *)
InToken(s, m) == m \notin Ends(s) /\ ~(m \in Code(s) /\ NamedAt(s, m))

(* So are characters out of code, quotes and those of a name.                *)
LEMMA InTokenIs ==
  ASSUME NEW C, NEW s \in Seq(C), NEW m \in 1 .. Len(s),
         Mode(s, m) # "code" \/ s[m] \in {"quote", "x", "1"}
  PROVE  InToken(s, m)
<1>1. s[m] \in {"quote", "x", "1"} => ~NamedAt(s, m)
  BY NamedBegins
<1> QED BY <1>1, MembersAre DEF InToken

(* What is known of the token at p, which q follows.                         *)
Token(s, p, q) ==
  /\ q \in p + 1 .. Len(s) + 1 /\ CodeAt(s, q)
  /\ \A m \in p + 1 .. q - 1 : InToken(s, m)
  /\ ~IsText(s, p) => \A m \in p + 1 .. q - 1 : m \notin Words(s)

(* What the scan makes of the character a token begins with.                 *)
Begin(s, p) ==
  /\ IsText(s, p) <=> p \in Words(s) \cup Ends(s)
  /\ p \in Ends(s) <=> s[p] = "semicolon"
  /\ NamedAt(s, p) => p \in Code(s)

(* It is right.                                                              *)
LEMMA BeginIs ==
  ASSUME NEW C, NEW s \in Seq(C), NEW p \in 1 .. Len(s), Mode(s, p) = "code"
  PROVE  Begin(s, p)
<1>1. "code" \notin Quotings
  BY DEF Quotings
<1>2. IsText(s, p) <=> p \in Words(s) \cup Ends(s)
  BY <1>1, MembersAre DEF IsText
<1>3. LineComment(s, p) => s[p] = "dash"
  BY DEF LineComment, At
<1>4. BlockComment(s, p) => s[p] = "slash"
  BY DEF BlockComment, At
<1>5. p \in Ends(s) <=> s[p] = "semicolon"
  BY <1>3, <1>4, MembersAre
<1>6. NamedAt(s, p) => p \in Code(s)
  BY <1>3, <1>4, NamedBegins, MembersAre
<1> QED BY <1>2, <1>5, <1>6 DEF Begin

(* A token whose characters are in modes that are not code.                  *)
LEMMA PassedIsToken ==
  ASSUME NEW C, NEW s \in Seq(C), NEW p \in 1 .. Len(s), NEW Z, NEW q, Passed(s, Z, p + 1, q),
         "code" \notin Z, IsText(s, p) \/ Z \cap Quotings = {}
  PROVE  Token(s, p, q)
<1>1. q \in p + 1 .. Len(s) + 1 /\ CodeAt(s, q) /\ \A m \in p + 1 .. q - 1 : Mode(s, m) \in Z
  BY Zenon DEF Passed, InModes
<1>2. \A m \in p + 1 .. q - 1 : m \in 1 .. Len(s)
  BY <1>1
<1>3. \A m \in p + 1 .. q - 1 : Mode(s, m) # "code"
  BY <1>1
<1>4. \A m \in p + 1 .. q - 1 : InToken(s, m)
  BY <1>2, <1>3, InTokenIs
<1>5. ASSUME ~IsText(s, p), NEW m \in p + 1 .. q - 1 PROVE m \notin Words(s)
  <2>1. Mode(s, m) \notin Quotings
    BY <1>1, <1>5
  <2> QED BY <1>2, <1>3, <2>1, MembersAre
<1> QED BY <1>1, <1>4, <1>5 DEF Token

(* Every token ends where the engine is in code again.                       *)
LEMMA TokenIs ==
  ASSUME NEW C, NEW s \in Seq(C), NEW p \in 1 .. Len(s), Mode(s, p) = "code", NEW q, q = TokenEnd(s, p)
  PROVE  Token(s, p, q) /\ (s[p] = "semicolon" => q = p + 1)
<1>1. LineComment(s, p) => s[p] = "dash" /\ p + 1 <= Len(s)
  BY DEF LineComment, At
<1>2. BlockComment(s, p) => s[p] = "slash" /\ p + 1 <= Len(s)
  BY DEF BlockComment, At
<1>3. s[p] \notin {"dash", "slash", "nl"} => IsText(s, p)
  BY <1>1, <1>2 DEF IsText
<1>4. p + 1 \in 1 .. Len(s) + 1
  OBVIOUS
<1>5. CASE s[p] = "quote"
  <2>1. q = SkipSingleQuoted(s, p + 1)
    BY <1>5 DEF TokenEnd
  <2>2. QuoteOpen(s, p + 1)
    <3>1. NextMode(s, p, "code") = "quote"
      BY <1>1, <1>2, <1>5, NextModeIs
    <3> QED BY <3>1, CodeNext DEF QuoteOpen
  <2>3. LiteralPassed(s, p + 1, q)
    BY <1>4, <2>1, <2>2, LiteralEnds
  <2>4. q \in p + 1 .. Len(s) + 1 /\ CodeAt(s, q) /\ \A m \in p + 1 .. q - 1 : InLiteral(s, m)
    BY <2>3, Zenon DEF LiteralPassed
  <2>5. \A m \in p + 1 .. q - 1 : m \in 1 .. Len(s)
    BY <2>4
  <2>6. \A m \in p + 1 .. q - 1 : InToken(s, m)
    BY <2>4, <2>5, InTokenIs DEF InLiteral
  <2> QED BY <1>3, <1>5, <2>4, <2>6 DEF Token
<1>6. CASE s[p] \in {"dquote", "tick", "bracket"}
  <2>1. PICK c : c = IF s[p] = "bracket" THEN "closing" ELSE s[p]
    OBVIOUS
  <2>2. /\ c \in {"dquote", "tick", "closing"} /\ s[p] = IF c = "closing" THEN "bracket" ELSE c
        /\ "code" \notin {c}
    BY <1>6, <2>1
  <2>3. q = SkipQuoted(s, p + 1, c)
    BY <1>6, <2>1 DEF TokenEnd
  <2>4. Passed(s, {c}, p + 1, q)
    BY <2>2, <2>3, QuotedSkipped
  <2>5. Token(s, p, q)
    BY <1>3, <1>6, <2>2, <2>4, PassedIsToken
  <2> QED BY <1>6, <2>5
<1>7. CASE LineComment(s, p)
  <2>1. q = SkipLineComment(s, p + 2)
    BY <1>1, <1>7 DEF TokenEnd
  <2>2. Passed(s, {"line"}, p + 1, q)
    BY <1>7, <2>1, LineSkipped
  <2>3. "code" \notin {"line"} /\ {"line"} \cap Quotings = {}
    BY DEF Quotings
  <2>4. Token(s, p, q)
    BY <2>2, <2>3, PassedIsToken
  <2> QED BY <1>1, <1>7, <2>4
<1>8. CASE BlockComment(s, p)
  <2>1. q = SkipBlockComment(s, p + 2)
    BY <1>1, <1>2, <1>8 DEF TokenEnd
  <2>2. Passed(s, BlockModes, p + 1, q)
    BY <1>8, <2>1, BlockSkipped
  <2>3. "code" \notin BlockModes /\ BlockModes \cap Quotings = {}
    BY DEF Quotings, BlockModes
  <2>4. Token(s, p, q)
    BY <2>2, <2>3, PassedIsToken
  <2> QED BY <1>2, <1>8, <2>4
<1>9. CASE s[p] \in {"dollar", "colon", "at"}
  <2>1. q = NameEnd(s, p + 1)
    BY <1>1, <1>2, <1>9 DEF TokenEnd
  <2>2. RunOfNames(s, p + 1, q)
    BY <1>4, <2>1, NameEndIs
  <2>3. p + 1 <= Len(s) => Mode(s, p + 1) = "code"
    <3>1. NextMode(s, p, "code") = "code"
      BY <1>1, <1>2, <1>9, NextModeIs
    <3> QED BY <3>1, CodeNext
  <2>4. Passed(s, {"code"}, p + 1, q)
    BY <1>4, <2>2, <2>3, NamesAreCode
  <2>5. q \in p + 1 .. Len(s) + 1 /\ CodeAt(s, q)
    BY <2>4, Zenon DEF Passed
  <2>6. \A m \in p + 1 .. q - 1 : m \in 1 .. Len(s) /\ s[m] \in {"x", "1"}
    BY <2>2, <2>5 DEF RunOfNames, IsName
  <2>7. \A m \in p + 1 .. q - 1 : InToken(s, m)
    BY <2>6, InTokenIs
  <2> QED BY <1>3, <1>9, <2>5, <2>7 DEF Token
<1>10. CASE /\ ~LineComment(s, p) /\ ~BlockComment(s, p)
            /\ s[p] \notin {"quote", "dquote", "tick", "bracket", "dollar", "colon", "at"}
  <2>1. q = p + 1
    BY <1>10 DEF TokenEnd
  <2>2. p + 1 <= Len(s) => Mode(s, p + 1) = "code"
    <3>1. NextMode(s, p, "code") = "code"
      BY <1>10, NextModeIs
    <3> QED BY <3>1, CodeNext
  <2>3. CodeAt(s, q) /\ q \in p + 1 .. Len(s) + 1
    BY <1>4, <2>1, <2>2 DEF CodeAt
  <2>4. \A m \in p + 1 .. q - 1 : FALSE
    BY <2>1
  <2> QED BY <2>1, <2>3, <2>4 DEF Token
<1> QED BY <1>5, <1>6, <1>7, <1>8, <1>9, <1>10

(* A comment ends after its opening, wherever it is looked for.              *)
LEMMA CommentsEnd ==
  ASSUME NEW C, NEW s \in Seq(C), NEW j \in 1 .. Len(s)
  PROVE  /\ LineComment(s, j) => SkipLineComment(s, j + 2) \in j + 2 .. Len(s) + 1
         /\ BlockComment(s, j) => SkipBlockComment(s, j + 2) \in j + 2 .. Len(s) + 1
<1>1. PICK n : n = Len(s)
  OBVIOUS
<1>2. n \in Nat /\ DOMAIN s = 1 .. n /\ j \in Nat /\ j >= 1
  BY <1>1
<1>3. ASSUME LineComment(s, j) PROVE SkipLineComment(s, j + 2) \in j + 2 .. n + 1
  <2>1. j + 1 \in 1 .. n
    BY <1>2, <1>3 DEF LineComment, At
  <2>2. j + 2 \in 1 .. n + 1
    BY <1>2, <2>1
  <2>3. StopsAt(s, "nl", j + 2, SkipLineComment(s, j + 2))
    BY <1>1, <2>2, SkipTo DEF SkipLineComment
  <2> QED BY <1>1, <2>3 DEF StopsAt
<1>4. ASSUME BlockComment(s, j) PROVE SkipBlockComment(s, j + 2) \in j + 2 .. n + 1
  <2>1. j + 1 \in 1 .. n
    BY <1>2, <1>4 DEF BlockComment, At
  <2>2. PICK b : b = j + 2
    OBVIOUS
  <2>3. b \in Nat /\ b <= n + 1
    BY <1>2, <2>1, <2>2
  <2> DEFINE T == {k \in Where(s, {"slash"}) : k > b /\ At(s, k - 1) = "star"}
  <2>4. PICK S : S = T
    OBVIOUS
  <2>5. S \subseteq 1 .. n
    BY <1>2, <2>4 DEF Where
  <2>6. SkipBlockComment(s, b) = After(s, b, S)
    BY <2>4, Zenon DEF SkipBlockComment
  <2> HIDE DEF T
  <2>7. PICK q : q = After(s, b, S)
    OBVIOUS
  <2>8. IsAfter(n, b, S, q)
    <3>1. Stops(S, n)
      BY <1>2, <2>5 DEF Stops
    <3> QED BY <1>1, <1>2, <2>3, <2>7, <3>1, AfterIs
  <2>9. q \in b .. n + 1
    <3>1. CASE q \in b + 1 .. n + 2 /\ q - 1 \in S
      <4>1. q - 1 \in 1 .. n
        BY <2>5, <3>1
      <4> QED BY <1>2, <2>3, <3>1, <4>1
    <3>2. CASE q = n + 1
      BY <1>2, <2>3, <3>2
    <3> QED BY <2>8, <3>1, <3>2, Zenon DEF IsAfter
  <2> QED BY <2>2, <2>6, <2>7, <2>9
<1> QED BY <1>1, <1>3, <1>4

(* A character that a statement is not made of, and where the look for one   *)
(* goes on.                                                                  *)
Between(s, j) == s[j] \in {"nl", "semicolon"}
Commented(s, j) == LineComment(s, j) \/ BlockComment(s, j)
CommentEnd(s, j) == IF LineComment(s, j) THEN SkipLineComment(s, j + 2) ELSE SkipBlockComment(s, j + 2)

(* Booleans that imply each other are equal.                                 *)
LEMMA SameBoolean ==
  ASSUME NEW u \in BOOLEAN, NEW v \in BOOLEAN, u <=> v
  PROVE  u = v
BY Zenon

(* Whether anything remains, as the code has it: a function of the place.    *)
Remains(s, e) ==
  e = [j \in 1 .. Len(s) + 1 |->
        IF j > Len(s) THEN FALSE
        ELSE IF LineComment(s, j) THEN e[SkipLineComment(s, j + 2)]
        ELSE IF BlockComment(s, j) THEN e[SkipBlockComment(s, j + 2)]
        ELSE s[j] \notin {"nl", "semicolon"} \/ e[j + 1]]

(* There is one: it goes on only to a greater place.                         *)
LEMMA RemainsExists ==
  ASSUME NEW C, NEW s \in Seq(C)
  PROVE  \E e : Remains(s, e)
<1>1. PICK n : n = Len(s)
  OBVIOUS
<1>2. PICK N : N = n + 1
  OBVIOUS
<1>3. n \in Nat /\ N \in Nat /\ n = N - 1
  BY <1>1, <1>2
<1> DEFINE next == [j \in 1 .. N |-> IF j > n THEN N + 1
                                     ELSE IF Commented(s, j) THEN CommentEnd(s, j)
                                     ELSE IF Between(s, j) THEN j + 1 ELSE N + 1]
           b == [j \in 1 .. N |-> ~(j > n)]
<1>4. ASSUME NEW j \in 1 .. N, ~(j > n), Commented(s, j) PROVE CommentEnd(s, j) \in j + 2 .. N
  <2>1. j \in 1 .. Len(s)
    BY <1>1, <1>3, <1>4
  <2> QED BY <1>1, <1>2, <1>4, <2>1, CommentsEnd DEF Commented, CommentEnd
<1>5. next \in [1 .. N -> Nat] /\ \A j \in 1 .. N : next[j] > j
  <2>1. \A j \in 1 .. N : ~(j > n) /\ Commented(s, j) => CommentEnd(s, j) \in Nat /\ CommentEnd(s, j) > j
    BY <1>3, <1>4
  <2>2. \A j \in 1 .. N : N + 1 \in Nat /\ N + 1 > j /\ j + 1 \in Nat /\ j + 1 > j
    BY <1>3
  <2> QED BY <2>1, <2>2
<1>6. b \in [1 .. N -> BOOLEAN]
  BY Zenon
<1>7. \A j \in 1 .. N :
        /\ j > n => next[j] = N + 1
        /\ ~(j > n) /\ Commented(s, j) => next[j] = CommentEnd(s, j)
        /\ ~(j > n) /\ ~Commented(s, j) /\ Between(s, j) => next[j] = j + 1
        /\ ~(j > n) /\ ~Commented(s, j) /\ ~Between(s, j) => next[j] = N + 1
  BY Zenon
<1>8. \A j \in 1 .. N : b[j] = ~(j > n)
  BY Zenon
<1> HIDE DEF next, b
<1>9. PICK g : Jumping(g, N, BOOLEAN, next, b)
  BY <1>3, <1>5, <1>6, Jumps
<1>10. g \in [1 .. N -> BOOLEAN] /\ \A j \in 1 .. N : g[j] = IF next[j] > N THEN b[j] ELSE g[next[j]]
  BY <1>9, Zenon DEF Jumping
<1>11. /\ N + 1 > N
       /\ \A j \in 1 .. N : ~(j > n) => ~(j + 1 > N)
       /\ \A j \in 1 .. N : ~(j > n) /\ Commented(s, j) => ~(CommentEnd(s, j) > N)
  BY <1>3, <1>4
<1> DEFINE h == [j \in 1 .. N |->
                  IF j > n THEN FALSE
                  ELSE IF LineComment(s, j) THEN g[SkipLineComment(s, j + 2)]
                  ELSE IF BlockComment(s, j) THEN g[SkipBlockComment(s, j + 2)]
                  ELSE s[j] \notin {"nl", "semicolon"} \/ g[j + 1]]
<1>12. ASSUME NEW j \in 1 .. N PROVE g[j] = h[j]
  <2>1. g[j] \in BOOLEAN
    BY <1>10, Zenon
  <2>2. CASE j > n
    <3>1. g[j] = b[j] /\ b[j] = FALSE
      BY <1>7, <1>8, <1>10, <1>11, <2>2, Zenon
    <3> QED BY <2>2, <3>1, Zenon
  <2>3. CASE ~(j > n) /\ Commented(s, j)
    <3>1. g[j] = g[CommentEnd(s, j)]
      <4>1. next[j] = CommentEnd(s, j) /\ ~(CommentEnd(s, j) > N)
        BY <1>7, <1>11, <2>3, Zenon
      <4>2. ~(next[j] > N)
        BY <4>1
      <4>3. g[j] = g[next[j]]
        BY <1>10, <4>2, Zenon
      <4> QED BY <4>1, <4>3
    <3>2. CASE LineComment(s, j)
      BY <2>3, <3>1, <3>2, Zenon DEF CommentEnd
    <3>3. CASE ~LineComment(s, j)
      <4>1. BlockComment(s, j)
        BY <2>3, <3>3, Zenon DEF Commented
      <4> QED BY <2>3, <3>1, <3>3, <4>1, Zenon DEF CommentEnd
    <3> QED BY <3>2, <3>3
  <2>4. CASE ~(j > n) /\ ~Commented(s, j)
    <3>1. ~LineComment(s, j) /\ ~BlockComment(s, j)
      BY <2>4, Zenon DEF Commented
    <3>2. h[j] = (s[j] \notin {"nl", "semicolon"} \/ g[j + 1])
      BY <2>4, <3>1, Zenon
    <3>3. CASE Between(s, j)
      <4>1. g[j] = g[j + 1]
        <5>1. next[j] = j + 1 /\ ~(j + 1 > N)
          BY <1>7, <1>11, <2>4, <3>3, Zenon
        <5>2. ~(next[j] > N)
          BY <5>1
        <5>3. g[j] = g[next[j]]
          BY <1>10, <5>2, Zenon
        <5> QED BY <5>1, <5>3
      <4>2. ~(s[j] \notin {"nl", "semicolon"})
        BY <3>3, Zenon DEF Between
      <4>3. h[j] <=> g[j]
        BY <3>2, <4>1, <4>2, Zenon
      <4>4. h[j] \in BOOLEAN
        BY <3>2, Zenon
      <4> HIDE DEF h
      <4> QED BY <2>1, <4>3, <4>4, SameBoolean, Zenon
    <3>4. CASE ~Between(s, j)
      <4>1. g[j] = b[j] /\ b[j] = TRUE
        BY <1>7, <1>8, <1>10, <1>11, <2>4, <3>4, Zenon
      <4>2. s[j] \notin {"nl", "semicolon"}
        BY <3>4, Zenon DEF Between
      <4> HIDE DEF h
      <4> QED BY <3>2, <4>1, <4>2, Zenon
    <3> QED BY <3>3, <3>4
  <2> QED BY <2>2, <2>3, <2>4
<1>13. g = h
  <2>1. DOMAIN g = 1 .. N /\ g = [j \in 1 .. N |-> g[j]]
    BY <1>10, Zenon
  <2> QED BY <1>12, <2>1, Zenon
<1>14. Remains(s, g)
  BY <1>1, <1>2, <1>13, Zenon DEF Remains
<1> QED BY <1>14

(* So the look goes on where it says.                                        *)
LEMMA RemainingAt ==
  ASSUME NEW C, NEW s \in Seq(C), NEW j \in 1 .. Len(s) + 1
  PROVE  /\ j > Len(s) => ~HasRemaining(s, j)
         /\ ~(j > Len(s)) /\ Commented(s, j) => (HasRemaining(s, j) <=> HasRemaining(s, CommentEnd(s, j)))
         /\ ~(j > Len(s)) /\ ~Commented(s, j) =>
              (HasRemaining(s, j) <=> (~Between(s, j) \/ HasRemaining(s, j + 1)))
<1> DEFINE e == CHOOSE f : Remains(s, f)
<1>1. Remains(s, e)
  BY RemainsExists, Zenon
<1>2. e = CHOOSE f : f = [i \in 1 .. Len(s) + 1 |->
        IF i > Len(s) THEN FALSE
        ELSE IF LineComment(s, i) THEN f[SkipLineComment(s, i + 2)]
        ELSE IF BlockComment(s, i) THEN f[SkipBlockComment(s, i + 2)]
        ELSE s[i] \notin {"nl", "semicolon"} \/ f[i + 1]]
  BY Zenon DEF Remains
<1>3. \A i : HasRemaining(s, i) = e[i]
  BY <1>2, Zenon DEF HasRemaining
<1> HIDE DEF e
<1>4. e[j] = IF j > Len(s) THEN FALSE
             ELSE IF LineComment(s, j) THEN e[SkipLineComment(s, j + 2)]
             ELSE IF BlockComment(s, j) THEN e[SkipBlockComment(s, j + 2)]
             ELSE s[j] \notin {"nl", "semicolon"} \/ e[j + 1]
  BY <1>1, Zenon DEF Remains
<1>5. j > Len(s) => ~e[j]
  BY <1>4, Zenon
<1>6. ~(j > Len(s)) /\ Commented(s, j) => e[j] = e[CommentEnd(s, j)]
  BY <1>4, Zenon DEF Commented, CommentEnd
<1>7. ~(j > Len(s)) /\ ~Commented(s, j) => (e[j] <=> (~Between(s, j) \/ e[j + 1]))
  BY <1>4, Zenon DEF Commented, Between
<1> QED BY <1>3, <1>5, <1>6, <1>7, Zenon

(* Whether a word comes.                                                     *)
WordFrom(s, i) == \E k \in Words(s) : k >= i

(* No word from i to before q.                                               *)
LEMMA WordLater ==
  ASSUME NEW C, NEW s \in Seq(C), NEW i \in Nat, NEW q \in Nat, q >= i, \A m \in i .. q - 1 : m \notin Words(s)
  PROVE  WordFrom(s, i) <=> WordFrom(s, q)
<1>1. \A k \in Words(s) : k \in Nat
  BY MembersIn
<1>2. \A k \in Words(s) : k >= i => k >= q
  BY <1>1
<1>3. \A k \in Words(s) : k >= q => k >= i
  BY <1>1
<1> QED BY <1>2, <1>3 DEF WordFrom

(* In code, something remains exactly if a word comes.                       *)
LEMMA RemainingIs ==
  ASSUME NEW C, NEW s \in Seq(C), NEW i \in 1 .. Len(s) + 1, CodeAt(s, i)
  PROVE  HasRemaining(s, i) <=> WordFrom(s, i)
<1> DEFINE Right(j) == HasRemaining(s, j) <=> WordFrom(s, j)
           T == {j \in 1 .. Len(s) + 1 : CodeAt(s, j) /\ ~Right(j)}
<1> SUFFICES ASSUME T # {} PROVE FALSE
  OBVIOUS
<1>1. PICK n : n = Len(s)
  OBVIOUS
<1>2. n \in Nat /\ n + 1 \in Nat /\ T \subseteq 1 .. n + 1
  BY <1>1
<1>3. /\ \A j \in T : CodeAt(s, j) /\ ~Right(j)
      /\ \A j \in 1 .. n + 1 : j \notin T /\ CodeAt(s, j) => Right(j)
  BY <1>1, Zenon
<1> HIDE DEF T
<1>4. PICK j \in T : \A y \in T : y <= j
  BY <1>2, GreatestNatural
<1>5. j \in 1 .. n + 1 /\ j \in 1 .. Len(s) + 1 /\ CodeAt(s, j) /\ ~Right(j) /\ j \in Nat
  BY <1>1, <1>2, <1>3, <1>4
<1>6. \A q \in 1 .. n + 1 : q > j /\ CodeAt(s, q) => Right(q)
  <2>1. ASSUME NEW q \in 1 .. n + 1, q > j, CodeAt(s, q) PROVE Right(q)
    <3>1. ~ (q <= j)
      BY <1>5, <2>1
    <3>2. q \notin T
      BY <1>4, <3>1
    <3> QED BY <1>3, <2>1, <3>2
  <2> QED BY <2>1
<1>7. CASE j > n
  <2>1. ~HasRemaining(s, j)
    BY <1>1, <1>5, <1>7, RemainingAt
  <2>2. \A k \in Words(s) : k \in 1 .. n /\ ~ (k >= j)
    BY <1>1, <1>2, <1>5, <1>7, MembersIn
  <2>3. ~WordFrom(s, j)
    BY <2>2 DEF WordFrom
  <2> QED BY <1>5, <2>1, <2>3
<1>8. CASE ~ (j > n)
  <2>1. j \in 1 .. n /\ j \in 1 .. Len(s) /\ Mode(s, j) = "code" /\ ~ (j > Len(s))
    BY <1>1, <1>2, <1>5, <1>8 DEF CodeAt
  <2>2. Begin(s, j)
    BY <2>1, BeginIs
  <2>3. PICK q : q = TokenEnd(s, j)
    OBVIOUS
  <2>4. Token(s, j, q) /\ (s[j] = "semicolon" => q = j + 1)
    BY <2>1, <2>3, TokenIs
  <2>5. q \in j + 1 .. n + 1 /\ CodeAt(s, q)
    BY <1>1, <2>4 DEF Token
  <2>6. q \in 1 .. n + 1 /\ q > j /\ q \in Nat /\ q >= j
    BY <1>2, <1>5, <2>5
  <2>7. Right(q)
    BY <1>6, <2>5, <2>6
  <2>8. LineComment(s, j) => s[j] = "dash"
    BY DEF LineComment, At
  <2>9. BlockComment(s, j) => s[j] = "slash"
    BY DEF BlockComment, At
  <2>10. CASE Commented(s, j)
    <3>1. q = CommentEnd(s, j)
      BY <2>3, <2>8, <2>9, <2>10 DEF TokenEnd, Commented, CommentEnd
    <3>2. HasRemaining(s, j) <=> HasRemaining(s, q)
      BY <1>5, <2>1, <2>10, <3>1, RemainingAt
    <3>3. ~IsText(s, j)
      BY <2>10 DEF Commented, IsText
    <3>4. \A m \in j .. q - 1 : m \notin Words(s)
      <4>1. \A m \in j .. q - 1 : m = j \/ m \in j + 1 .. q - 1
        BY <1>5, <2>6
      <4> QED BY <2>2, <2>4, <3>3, <4>1 DEF Token, Begin
    <3>5. WordFrom(s, j) <=> WordFrom(s, q)
      BY <1>5, <2>6, <3>4, WordLater
    <3> QED BY <1>5, <2>7, <3>2, <3>5
  <2>11. CASE ~Commented(s, j) /\ ~Between(s, j)
    <3>1. HasRemaining(s, j)
      BY <1>5, <2>1, <2>11, RemainingAt
    <3>2. IsText(s, j) /\ s[j] # "semicolon"
      BY <2>11 DEF Commented, Between, IsText
    <3>3. j \in Words(s)
      BY <2>2, <3>2 DEF Begin
    <3>4. WordFrom(s, j)
      BY <1>5, <3>3 DEF WordFrom
    <3> QED BY <1>5, <3>1, <3>4
  <2>12. CASE ~Commented(s, j) /\ Between(s, j)
    <3>1. HasRemaining(s, j) <=> HasRemaining(s, j + 1)
      BY <1>5, <2>1, <2>12, RemainingAt
    <3>2. s[j] \in {"nl", "semicolon"}
      BY <2>12 DEF Between
    <3>3. q = j + 1
      BY <2>3, <2>12, <3>2 DEF TokenEnd, Commented
    <3>4. j \notin Words(s)
      <4>1. Mode(s, j) \notin Quotings
        BY <2>1 DEF Quotings
      <4> QED BY <2>1, <3>2, <4>1, MembersAre
    <3>5. \A m \in j .. q - 1 : m \notin Words(s)
      BY <1>5, <3>3, <3>4
    <3>6. WordFrom(s, j) <=> WordFrom(s, q)
      BY <1>5, <2>6, <3>5, WordLater
    <3> QED BY <1>5, <2>7, <3>1, <3>3, <3>6
  <2> QED BY <2>10, <2>11, <2>12
<1> QED BY <1>7, <1>8

(* Whether a word or an end came, and whether a named placeholder did.       *)
MarkBefore(s, i) == \E m \in Words(s) \cup Ends(s) : m < i
NamedBefore(s, i) == \E m \in Code(s) : NamedAt(s, m) /\ m < i

(* An end with something before it and a word after it.                      *)
SplitAt(s, j) == j \in Ends(s) /\ MarkBefore(s, j) /\ WordFrom(s, j + 1)
NoSplitBefore(s, i) == \A j \in Ends(s) : j < i => ~SplitAt(s, j)
SomeSplit(s) == \E j \in Ends(s) : SplitAt(s, j)

(* What a round keeps.                                                       *)
Sound(s, at, saw, multiple, placeholder) ==
  /\ CodeAt(s, at)
  /\ saw <=> MarkBefore(s, at)
  /\ placeholder # None <=> NamedBefore(s, at)
  /\ IF multiple THEN SomeSplit(s) ELSE NoSplitBefore(s, at)

(* The states of the loop.                                                   *)
Inspections(C, s) ==
  {r \in [at : 1 .. Len(s) + 1, saw : BOOLEAN, multiple : BOOLEAN, placeholder : Seq(C)] :
     Sound(s, r.at, r.saw, r.multiple, r.placeholder)}

(* What a token adds to what came before it.                                 *)
LEMMA MarkLater ==
  ASSUME NEW C, NEW s \in Seq(C), NEW p \in 1 .. Len(s), NEW q, Token(s, p, q), Begin(s, p)
  PROVE  /\ MarkBefore(s, q) <=> MarkBefore(s, p) \/ IsText(s, p)
         /\ NamedBefore(s, q) <=> NamedBefore(s, p) \/ NamedAt(s, p)
         /\ NoSplitBefore(s, q) <=> NoSplitBefore(s, p) /\ ~SplitAt(s, p)
<1>1. q \in p + 1 .. Len(s) + 1 /\ \A m \in p + 1 .. q - 1 : InToken(s, m)
  BY DEF Token
<1>2. Words(s) \subseteq 1 .. Len(s) /\ Ends(s) \subseteq 1 .. Len(s) /\ Code(s) \subseteq 1 .. Len(s)
  BY MembersIn
<1>3. \A m \in 1 .. Len(s) : m < q <=> m < p \/ m = p \/ m \in p + 1 .. q - 1
  BY <1>1
<1>4. MarkBefore(s, q) <=> MarkBefore(s, p) \/ IsText(s, p)
  <2>1. ASSUME NEW m \in Words(s) \cup Ends(s), m < q PROVE MarkBefore(s, p) \/ IsText(s, p)
    <3>1. m < p \/ m = p \/ m \in p + 1 .. q - 1
      BY <1>2, <1>3, <2>1
    <3>2. CASE m < p
      BY <2>1, <3>2 DEF MarkBefore
    <3>3. CASE m = p
      BY <2>1, <3>3 DEF Begin
    <3>4. CASE m \in p + 1 .. q - 1
      BY <1>1, <2>1, <3>4 DEF InToken, Token
    <3> QED BY <3>1, <3>2, <3>3, <3>4
  <2>2. MarkBefore(s, q) => MarkBefore(s, p) \/ IsText(s, p)
    BY <2>1 DEF MarkBefore
  <2>3. MarkBefore(s, p) => MarkBefore(s, q)
    BY <1>2, <1>3 DEF MarkBefore
  <2>4. IsText(s, p) => MarkBefore(s, q)
    <3>1. p < q
      BY <1>1
    <3> QED BY <3>1 DEF Begin, MarkBefore
  <2> QED BY <2>2, <2>3, <2>4
<1>5. NamedBefore(s, q) <=> NamedBefore(s, p) \/ NamedAt(s, p)
  <2>1. ASSUME NEW m \in Code(s), NamedAt(s, m), m < q PROVE NamedBefore(s, p) \/ NamedAt(s, p)
    <3>1. m < p \/ m = p \/ m \in p + 1 .. q - 1
      BY <1>2, <1>3, <2>1
    <3>2. CASE m < p
      BY <2>1, <3>2 DEF NamedBefore
    <3>3. CASE m = p
      BY <2>1, <3>3
    <3>4. CASE m \in p + 1 .. q - 1
      BY <1>1, <2>1, <3>4 DEF InToken
    <3> QED BY <3>1, <3>2, <3>3, <3>4
  <2>2. NamedBefore(s, q) => NamedBefore(s, p) \/ NamedAt(s, p)
    BY <2>1 DEF NamedBefore
  <2>3. NamedBefore(s, p) => NamedBefore(s, q)
    BY <1>2, <1>3 DEF NamedBefore
  <2>4. NamedAt(s, p) => NamedBefore(s, q)
    <3>1. p < q
      BY <1>1
    <3> QED BY <3>1 DEF Begin, NamedBefore
  <2> QED BY <2>2, <2>3, <2>4
<1>6. NoSplitBefore(s, q) <=> NoSplitBefore(s, p) /\ ~SplitAt(s, p)
  <2>1. ASSUME NoSplitBefore(s, p), ~SplitAt(s, p), NEW j \in Ends(s), j < q PROVE ~SplitAt(s, j)
    <3>1. j < p \/ j = p \/ j \in p + 1 .. q - 1
      BY <1>2, <1>3, <2>1
    <3> QED BY <1>1, <2>1, <3>1 DEF InToken, NoSplitBefore
  <2>2. NoSplitBefore(s, p) /\ ~SplitAt(s, p) => NoSplitBefore(s, q)
    BY <2>1 DEF NoSplitBefore
  <2>3. ASSUME NoSplitBefore(s, q) PROVE NoSplitBefore(s, p) /\ ~SplitAt(s, p)
    <3>1. \A j \in Ends(s) : j < p => j < q
      BY <1>2, <1>3
    <3>2. SplitAt(s, p) => p \in Ends(s) /\ p < q
      BY <1>1 DEF SplitAt
    <3> QED BY <2>3, <3>1, <3>2 DEF NoSplitBefore
  <2> QED BY <2>2, <2>3
<1> QED BY <1>4, <1>5, <1>6

(* A round keeps all this, and goes on or has ended.                         *)
LEMMA InspectStays ==
  ASSUME NEW C, NEW s \in Seq(C), NEW r \in Inspections(C, s)
  PROVE  /\ Inspect(s, r) \in Inspections(C, s)
         /\ \/ Inspect(s, r).multiple
            \/ Inspect(s, r).at > Len(s)
            \/ Inspect(s, r).at > r.at
<1>1. PICK p : p = r.at
  OBVIOUS
<1>2. /\ r \in [at : 1 .. Len(s) + 1, saw : BOOLEAN, multiple : BOOLEAN, placeholder : Seq(C)]
      /\ Sound(s, r.at, r.saw, r.multiple, r.placeholder)
  BY Zenon DEF Inspections
<1>3. p \in 1 .. Len(s) + 1 /\ r.saw \in BOOLEAN /\ r.multiple \in BOOLEAN /\ r.placeholder \in Seq(C)
  BY <1>1, <1>2, Zenon
<1>4. CASE r.multiple \/ r.at > Len(s)
  <2>1. Inspect(s, r) = r
    BY <1>4, Zenon DEF Inspect
  <2> QED BY <1>4, <2>1
<1>5. CASE ~(r.multiple \/ r.at > Len(s))
  <2>1. p \in 1 .. Len(s) /\ CodeAt(s, p)
    BY <1>1, <1>2, <1>3, <1>5 DEF Sound
  <2>2. Mode(s, p) = "code" /\ p # Len(s) + 1
    BY <2>1 DEF CodeAt
  <2>3. Begin(s, p)
    BY <2>1, <2>2, BeginIs
  <2>4. PICK q : q = TokenEnd(s, p)
    OBVIOUS
  <2>5. Token(s, p, q) /\ (s[p] = "semicolon" => q = p + 1)
    BY <2>1, <2>2, <2>4, TokenIs
  <2>6. q \in p + 1 .. Len(s) + 1 /\ CodeAt(s, q)
    BY <2>5 DEF Token
  <2>7. q \in 1 .. Len(s) + 1 /\ q > p
    BY <2>1, <2>6
  <2>8. /\ r.saw <=> MarkBefore(s, p)
        /\ r.placeholder # None <=> NamedBefore(s, p)
        /\ NoSplitBefore(s, p)
    BY <1>1, <1>2, <1>5, Zenon DEF Sound
  <2>9. SplitAt(s, p) <=> s[p] = "semicolon" /\ r.saw /\ HasRemaining(s, p + 1)
    <3>1. ASSUME s[p] = "semicolon" PROVE HasRemaining(s, p + 1) <=> WordFrom(s, p + 1)
      BY <2>5, <2>6, <2>7, <3>1, RemainingIs
    <3> QED BY <2>3, <2>8, <3>1, Zenon DEF Begin, SplitAt
  <2>10. CASE SplitAt(s, p)
    <3>1. PICK t : t = [r EXCEPT !.multiple = TRUE]
      OBVIOUS
    <3>2. Inspect(s, r) = t
      BY <1>1, <1>5, <2>9, <2>10, <3>1, Zenon DEF Inspect
    <3>3. t.at = p /\ t.saw = r.saw /\ t.placeholder = r.placeholder /\ t.multiple = TRUE
      BY <1>1, <1>2, <3>1
    <3>4. t \in [at : 1 .. Len(s) + 1, saw : BOOLEAN, multiple : BOOLEAN, placeholder : Seq(C)]
      BY <1>2, <3>1
    <3>5. SomeSplit(s)
      BY <2>10 DEF SomeSplit, SplitAt
    <3>6. Sound(s, t.at, t.saw, t.multiple, t.placeholder)
      BY <2>1, <2>8, <3>3, <3>5, Zenon DEF Sound
    <3> QED BY <3>2, <3>3, <3>4, <3>6, Zenon DEF Inspections
  <2>11. CASE ~SplitAt(s, p)
    <3>1. PICK h : h = LET found == Unsupported(s, p)
                       IN  IF found = None THEN r.placeholder ELSE found
      OBVIOUS
    <3>2. PICK w \in BOOLEAN : w <=> (r.saw \/ IsText(s, p))
      OBVIOUS
    <3>3. PICK t : t = [at |-> q, saw |-> r.saw \/ IsText(s, p), multiple |-> FALSE, placeholder |-> h]
      OBVIOUS
    <3>4. Inspect(s, r) = t
      BY <1>1, <1>5, <2>4, <2>9, <2>11, <3>1, <3>3, Zenon DEF Inspect
    <3>5. t.at = q /\ (t.saw <=> (r.saw \/ IsText(s, p))) /\ t.multiple = FALSE /\ t.placeholder = h
      BY <3>3, Zenon
    <3>6. h \in Seq(C) /\ (h # None <=> r.placeholder # None \/ NamedAt(s, p))
      <4>1. /\ Unsupported(s, p) # None <=> NamedAt(s, p)
            /\ Unsupported(s, p) \in Seq(C)
        BY <2>1, UnsupportedIs
      <4> QED BY <1>3, <3>1, <4>1, Zenon
    <3>7. t \in [at : 1 .. Len(s) + 1, saw : BOOLEAN, multiple : BOOLEAN, placeholder : Seq(C)]
      <4>1. (r.saw \/ IsText(s, p)) \in BOOLEAN
        BY Zenon
      <4> QED BY <2>7, <3>3, <3>6, <4>1, Zenon
    <3>8. Sound(s, t.at, t.saw, t.multiple, t.placeholder)
      <4>1. /\ MarkBefore(s, q) <=> MarkBefore(s, p) \/ IsText(s, p)
            /\ NamedBefore(s, q) <=> NamedBefore(s, p) \/ NamedAt(s, p)
            /\ NoSplitBefore(s, q)
        BY <2>1, <2>3, <2>5, <2>8, <2>11, MarkLater
      <4> QED BY <2>6, <2>8, <3>5, <3>6, <4>1, Zenon DEF Sound
    <3>9. Inspect(s, r).at > r.at
      BY <1>1, <2>7, <3>4, <3>5
    <3> QED BY <3>4, <3>7, <3>8, <3>9, Zenon DEF Inspections
  <2> QED BY <2>10, <2>11
<1> QED BY <1>4, <1>5

(* The loop before its first round.                                          *)
Begun == [at |-> 1, saw |-> FALSE, multiple |-> FALSE, placeholder |-> None]

(* Nothing came before the first character.                                  *)
LEMMA BegunIs ==
  ASSUME NEW C, NEW s \in Seq(C)
  PROVE  Begun \in Inspections(C, s)
<1>1. Len(s) \in Nat /\ 1 \in 1 .. Len(s) + 1
  OBVIOUS
<1>2. None \in Seq(C)
  BY DEF None
<1>3. Begun \in [at : 1 .. Len(s) + 1, saw : BOOLEAN, multiple : BOOLEAN, placeholder : Seq(C)]
  BY <1>1, <1>2, Zenon DEF Begun
<1>4. CodeAt(s, 1)
  <2>1. Len(s) > 0 => Mode(s, 1) = "code"
    BY <1>1, ModesAre DEF Moded, Mode
  <2> QED BY <1>1, <2>1 DEF CodeAt
<1>5. ~MarkBefore(s, 1) /\ ~NamedBefore(s, 1) /\ NoSplitBefore(s, 1)
  <2>1. \A m \in Words(s) \cup Ends(s) \cup Code(s) : m \in 1 .. Len(s) /\ ~ (m < 1)
    BY <1>1, MembersIn
  <2> QED BY <2>1 DEF MarkBefore, NamedBefore, NoSplitBefore
<1>6. Sound(s, Begun.at, Begun.saw, Begun.multiple, Begun.placeholder)
  BY <1>4, <1>5, Zenon DEF Sound, Begun
<1> QED BY <1>3, <1>6, Zenon DEF Inspections

(* The rounds of the loop: a function of their number.                       *)
Inspected(s, e) ==
  e = [k \in 0 .. Len(s) |-> IF k = 0 THEN Begun ELSE Inspect(s, e[k - 1])]

(* There is one: every round has a next.                                     *)
LEMMA InspectedExists ==
  ASSUME NEW C, NEW s \in Seq(C)
  PROVE  \E e : Inspected(s, e)
<1>1. PICK n : n = Len(s)
  OBVIOUS
<1>2. PICK S : S = Inspections(C, s)
  OBVIOUS
<1>3. n \in Nat /\ Begun \in S
  BY <1>1, <1>2, BegunIs
<1> DEFINE f == [p \in (1 .. n) \X S |-> Inspect(s, p[2])]
<1>4. f \in [(1 .. n) \X S -> S]
  <2>1. ASSUME NEW p \in (1 .. n) \X S PROVE Inspect(s, p[2]) \in S
    <3>1. PICK r : r = p[2] /\ r \in S
      OBVIOUS
    <3>2. Inspect(s, r) \in S
      BY <1>2, <3>1, InspectStays
    <3> QED BY <3>1, <3>2
  <2> QED BY <2>1
<1>5. \A k \in 1 .. n, r \in S : f[<<k, r>>] = Inspect(s, r)
  OBVIOUS
<1> HIDE DEF f
<1>6. PICK g : Iterated(g, S, n, Begun, f)
  BY <1>3, <1>4, Iterates
<1>7. /\ g \in [0 .. n -> S] /\ g[0] = Begun
      /\ \A k \in 1 .. n : g[k] = f[<<k, g[k - 1]>>]
  BY <1>6, Zenon DEF Iterated
<1> DEFINE h == [k \in 0 .. n |-> IF k = 0 THEN Begun ELSE Inspect(s, g[k - 1])]
<1>8. ASSUME NEW k \in 0 .. n PROVE g[k] = h[k]
  <2>1. CASE k = 0
    BY <1>7, <2>1
  <2>2. CASE k # 0
    <3>1. k \in 1 .. n /\ k - 1 \in 0 .. n
      BY <1>3, <2>2
    <3>2. g[k - 1] \in S
      BY <1>7, <3>1
    <3>3. g[k] = Inspect(s, g[k - 1])
      BY <1>5, <1>7, <3>1, <3>2
    <3> QED BY <2>2, <3>3
  <2> QED BY <2>1, <2>2
<1>9. g = h
  BY <1>7, <1>8
<1>10. Inspected(s, g)
  BY <1>1, <1>9, Zenon DEF Inspected
<1> QED BY <1>10

(* Where a round has come to.                                                *)
Got(s, k, r) == r.multiple \/ r.at > Len(s) \/ r.at > k

(* So after as many rounds as characters the loop is sound and has ended.    *)
LEMMA InspectionEnds ==
  ASSUME NEW C, NEW s \in Seq(C)
  PROVE  /\ InspectSql(s) \in Inspections(C, s)
         /\ InspectSql(s).multiple \/ InspectSql(s).at = Len(s) + 1
<1> DEFINE e == CHOOSE f : Inspected(s, f)
           n == Len(s)
           S == Inspections(C, s)
<1>1. Inspected(s, e)
  BY InspectedExists, Zenon
<1>2. e = CHOOSE f : f = [k \in 0 .. n |-> IF k = 0 THEN Begun ELSE Inspect(s, f[k - 1])]
  BY Zenon DEF Inspected
<1>3. InspectSql(s) = e[n]
  BY <1>2, Zenon DEF InspectSql, Begun
<1> HIDE DEF e
<1>4. \A k \in 0 .. n : e[k] = IF k = 0 THEN Begun ELSE Inspect(s, e[k - 1])
  BY <1>1, Zenon DEF Inspected
<1>5. n \in Nat
  OBVIOUS
<1> HIDE DEF n
<1> DEFINE Good(k) == e[k] \in S /\ Got(s, k, e[k])
           T == {k \in 0 .. n : ~Good(k)}
<1>6. ASSUME T # {} PROVE FALSE
  <2>1. T \subseteq 0 .. n /\ T \subseteq Nat
    BY <1>5
  <2>2. /\ \A k \in T : ~Good(k)
        /\ \A k \in 0 .. n : k \notin T => Good(k)
    BY Zenon
  <2>3. T # {}
    BY <1>6
  <2> HIDE DEF T
  <2>4. PICK k \in T : \A j \in T : k <= j
    BY <2>1, <2>3, LeastNatural
  <2>5. k \in 0 .. n /\ ~Good(k)
    BY <2>1, <2>2, <2>4
  <2>6. CASE k = 0
    <3>1. e[k] = Begun
      BY <1>4, <2>5, <2>6, Zenon
    <3>2. Begun.at = 1
      BY DEF Begun
    <3>3. Begun.at > 0
      BY <3>2
    <3>4. Got(s, k, e[k])
      BY <2>6, <3>1, <3>3, Zenon DEF Got
    <3>5. e[k] \in S
      BY <3>1, BegunIs
    <3> QED BY <2>5, <3>4, <3>5
  <2>7. CASE k # 0
    <3>1. PICK j : j = k - 1
      OBVIOUS
    <3>2. j \in 0 .. n /\ ~ (k <= j) /\ k = j + 1 /\ j \in Nat
      BY <1>5, <2>5, <2>7, <3>1
    <3>3. Good(j)
      <4>1. j \notin T
        BY <2>4, <3>2
      <4> QED BY <2>2, <3>2, <4>1
    <3>4. PICK r : r = e[j]
      OBVIOUS
    <3>5. r \in S /\ Got(s, j, r)
      BY <3>3, <3>4
    <3>6. e[k] = Inspect(s, r)
      BY <1>4, <2>5, <2>7, <3>1, <3>4, Zenon
    <3>7. PICK t : t = Inspect(s, r)
      OBVIOUS
    <3>8. t \in S /\ (t.multiple \/ t.at > Len(s) \/ t.at > r.at)
      BY <3>5, <3>7, InspectStays
    <3>9. r.at \in Nat /\ t.at \in Nat
      BY <3>5, <3>8 DEF Inspections
    <3>10. r.multiple \/ r.at > Len(s) => t = r
      BY <3>7, Zenon DEF Inspect
    <3>11. Got(s, k, t)
      <4>1. CASE r.multiple
        BY <3>10, <4>1, Zenon DEF Got
      <4>2. CASE r.at > Len(s)
        BY <3>10, <4>2, Zenon DEF Got
      <4>3. CASE r.at > j /\ t.at > r.at
        <5>1. t.at > k
          BY <3>2, <3>9, <4>3
        <5> QED BY <5>1, Zenon DEF Got
      <4>4. CASE t.multiple \/ t.at > Len(s)
        BY <4>4, Zenon DEF Got
      <4> QED BY <3>5, <3>8, <4>1, <4>2, <4>3, <4>4, Zenon DEF Got
    <3> QED BY <2>5, <3>6, <3>7, <3>8, <3>11
  <2> QED BY <2>6, <2>7
<1>7. Good(n)
  <2>1. n \in 0 .. n
    BY <1>5
  <2> QED BY <1>6, <2>1
<1>8. PICK r : r = InspectSql(s)
  OBVIOUS
<1>9. r \in S /\ Got(s, n, r)
  BY <1>3, <1>7, <1>8
<1>10. r.at \in 1 .. Len(s) + 1 /\ Len(s) \in Nat /\ n = Len(s)
  BY <1>9 DEF Inspections, n
<1>11. r.multiple \/ r.at > Len(s)
  BY <1>9, <1>10, Zenon DEF Got
<1>12. r.at > Len(s) => r.at = Len(s) + 1
  BY <1>10
<1> QED BY <1>8, <1>9, <1>11, <1>12

(* What the engine reads at a mark: a variable with a name, or an error.     *)
VariableAt(s, i) ==
  LET name == {j \in DOMAIN s : j > i /\ \A k \in i + 1 .. j : InNames(s[k])}
  IN  /\ Begins(s, i) /\ name # {}
      /\ s[i] = "dollar" => \E j \in name : s[j] # "1"
NamelessAt(s, i) == s[i] = "dollar" /\ Begins(s, i) /\ ~InNames(At(s, i + 1))

(* Where nothing is unread the engine's names are those of the scan.         *)
LEMMA NamesAgree ==
  ASSUME NEW C, NEW s \in Seq(C), ~Unread(s), NEW p \in Code(s)
  PROVE  {j \in DOMAIN s : j > p /\ \A k \in p + 1 .. j : InNames(s[k])}
           = {j \in DOMAIN s : j > p /\ \A k \in p + 1 .. j : IsName(s[k])} \/ s[p] \notin Marks
<1>1. SUFFICES ASSUME s[p] \in Marks,
                      NEW j \in DOMAIN s, j > p, \A k \in p + 1 .. j : InNames(s[k]),
                      NEW c \in p + 1 .. j, ~IsName(s[c])
               PROVE  FALSE
  BY DEF InNames
<1>2. PICK n : n = Len(s)
  OBVIOUS
<1>3. p \in 1 .. n /\ n \in Nat /\ j \in 1 .. n /\ c \in p + 1 .. j /\ p \in Nat /\ c \in Nat
  BY <1>1, <1>2, MembersIn
<1>4. Mode(s, p) = "code" /\ ~LineComment(s, p) /\ ~BlockComment(s, p)
  BY <1>2, <1>3, MembersAre
<1>5. PICK q : q = NameEnd(s, p + 1)
  OBVIOUS
<1>6. RunOfNames(s, p + 1, q)
  <2>1. p + 1 \in 1 .. Len(s) + 1
    BY <1>2, <1>3
  <2> QED BY <1>5, <2>1, NameEndIs
<1>7. /\ q \in p + 1 .. n + 1 /\ q \in Nat /\ \A m \in p + 1 .. q - 1 : IsName(s[m])
      /\ q <= n => ~IsName(s[q])
  BY <1>2, <1>3, <1>6 DEF RunOfNames
<1>8. q <= c
  <2>1. ~(q <= c) => c \in p + 1 .. q - 1
    BY <1>3, <1>7
  <2> QED BY <1>1, <1>7, <2>1
<1>9. q \in 1 .. n /\ q \in p + 1 .. j /\ q - 1 \in p .. n /\ q - 1 \in 1 .. n
  BY <1>3, <1>7, <1>8
<1>10. InNames(s[q]) /\ ~IsName(s[q])
  BY <1>1, <1>7, <1>9
<1>11. Mode(s, q) = "code"
  <2>1. p + 1 \in 1 .. Len(s) + 1 /\ p + 1 <= n
    BY <1>2, <1>3
  <2>2. Mode(s, p + 1) = "code"
    <3>1. p < n /\ p \in 1 .. n
      BY <1>3
    <3>2. Mode(s, p + 1) = NextMode(s, p, "code")
      BY <1>2, <1>4, <3>1, ModeNext DEF Mode
    <3>3. s[p] \notin {"quote", "dquote", "tick", "bracket"}
      BY <1>1 DEF Marks
    <3>4. NextMode(s, p, "code") = "code"
      BY <1>4, <3>3, Zenon DEF NextMode
    <3> QED BY <3>2, <3>4
  <2>3. Passed(s, {"code"}, p + 1, q)
    BY <1>6, <2>1, <2>2, NamesAreCode
  <2>4. CodeAt(s, q)
    BY <2>3 DEF Passed
  <2> QED BY <1>2, <1>9, <2>4 DEF CodeAt
<1>12. s[q] \in {"dollar", "wide"}
  BY <1>10 DEF InNames
<1>13. q \in Code(s)
  <2>1. ~LineComment(s, q) /\ ~BlockComment(s, q)
    <3>1. At(s, q) = s[q]
      BY <1>2, <1>9 DEF At
    <3> QED BY <1>12, <3>1 DEF LineComment, BlockComment
  <2> QED BY <1>2, <1>9, <1>11, <2>1, MembersAre
<1>14. Follows(s, q)
  <2>1. At(s, q - 1) = s[q - 1]
    BY <1>2, <1>9 DEF At
  <2>2. CASE q = p + 1
    <3>1. q - 1 = p
      BY <1>3, <2>2
    <3> QED BY <1>1, <2>1, <3>1 DEF Follows
  <2>3. CASE q # p + 1
    <3>1. q - 1 \in p + 1 .. q - 1
      BY <1>3, <1>7, <2>3
    <3>2. IsName(s[q - 1])
      BY <1>7, <3>1
    <3> QED BY <2>1, <3>2 DEF Follows, InNames
  <2> QED BY <2>2, <2>3
<1> QED BY <1>12, <1>13, <1>14, Zenon DEF Unread

(* So the scan refuses what the engine takes for a variable or an error.     *)
LEMMA MarksAgree ==
  ASSUME NEW C, NEW s \in Seq(C), ~Unread(s), NEW p \in Code(s)
  PROVE  NamedAt(s, p) <=> VariableAt(s, p) \/ NamelessAt(s, p)
<1>1. PICK name : name = {j \in DOMAIN s : j > p /\ \A k \in p + 1 .. j : InNames(s[k])}
  OBVIOUS
<1>2. CASE s[p] \notin Marks
  <2>1. ~Begins(s, p)
    BY <1>2 DEF Begins
  <2>2. s[p] \notin {"dollar", "colon", "at"}
    BY <1>2 DEF Marks
  <2> QED BY <2>1, <2>2, Zenon DEF NamedAt, VariableAt, NamelessAt
<1>3. CASE s[p] \in Marks
  <2>1. name = {j \in DOMAIN s : j > p /\ \A k \in p + 1 .. j : IsName(s[k])}
    BY <1>1, <1>3, NamesAgree, Zenon
  <2>2. s[p] # "hash"
    BY Zenon DEF Unread
  <2>3. s[p] = "dollar" => ~Follows(s, p)
    BY DEF Unread
  <2>4. s[p] \in {"dollar", "colon", "at"} /\ Begins(s, p)
    BY <1>3, <2>2, <2>3 DEF Marks, Begins
  <2>5. NamedAt(s, p) <=> \/ s[p] = "dollar" /\ ~(name # {} /\ \A j \in name : s[j] = "1")
                          \/ s[p] \in {"colon", "at"} /\ name # {}
    BY <2>1, Zenon DEF NamedAt
  <2>6. VariableAt(s, p) <=> name # {} /\ (s[p] = "dollar" => \E j \in name : s[j] # "1")
    BY <1>1, <2>4, Zenon DEF VariableAt
  <2>7. InNames(At(s, p + 1)) <=> name # {}
    <3>1. PICK n : n = Len(s)
      OBVIOUS
    <3>2. p \in 1 .. n /\ n \in Nat /\ DOMAIN s = 1 .. n
      BY <3>1, MembersIn
    <3>3. ASSUME NEW j \in name PROVE InNames(At(s, p + 1))
      <4>1. p + 1 \in p + 1 .. j /\ p + 1 \in 1 .. n
        BY <1>1, <3>2
      <4>2. At(s, p + 1) = s[p + 1] /\ InNames(s[p + 1])
        BY <1>1, <3>2, <4>1 DEF At
      <4> QED BY <4>2
    <3>4. ASSUME InNames(At(s, p + 1)) PROVE p + 1 \in name
      <4>1. p + 1 \in DOMAIN s /\ InNames(s[p + 1])
        BY <3>4 DEF At, InNames, IsName
      <4>2. \A k \in p + 1 .. p + 1 : k = p + 1
        BY <3>2
      <4>3. p + 1 > p
        BY <3>2
      <4> QED BY <1>1, <4>1, <4>2, <4>3
    <3> QED BY <3>3, <3>4
  <2>8. NamelessAt(s, p) <=> s[p] = "dollar" /\ name = {}
    BY <2>4, <2>7, Zenon DEF NamelessAt
  <2> QED BY <2>4, <2>5, <2>6, <2>8
<1> QED BY <1>2, <1>3

(* The engine finds one somewhere if the scan does before the end.           *)
LEMMA NamedSomewhere ==
  ASSUME NEW C, NEW s \in Seq(C), ~Unread(s)
  PROVE  Named(s) \/ Nameless(s) <=> NamedBefore(s, Len(s) + 1)
<1>1. \A i \in Code(s) : i < Len(s) + 1
  BY MembersIn
<1>2. Named(s) <=> \E i \in Code(s) : VariableAt(s, i)
  BY Zenon DEF Named, VariableAt
<1>3. Nameless(s) <=> \E i \in Code(s) : NamelessAt(s, i)
  BY Zenon DEF Nameless, NamelessAt
<1>4. \A i \in Code(s) : NamedAt(s, i) <=> VariableAt(s, i) \/ NamelessAt(s, i)
  BY MarksAgree
<1>5. NamedBefore(s, Len(s) + 1) <=> \E i \in Code(s) : NamedAt(s, i)
  BY <1>1 DEF NamedBefore
<1> QED BY <1>2, <1>3, <1>4, <1>5, Zenon

(* A split is one between statements, or after an empty first one.           *)
LEMMA SplitIs ==
  ASSUME NEW C, NEW s \in Seq(C)
  PROVE  /\ Several(s) => SomeSplit(s)
         /\ SomeSplit(s) => Several(s) \/ EmptyFirst(s)
<1>1. Words(s) \subseteq 1 .. Len(s) /\ Ends(s) \subseteq 1 .. Len(s) /\ Len(s) \in Nat
  BY MembersIn
<1>2. \A j \in Ends(s) : j \notin Words(s)
  <2>1. \A j \in Ends(s) : Mode(s, j) = "code" /\ s[j] = "semicolon"
    BY <1>1, MembersAre
  <2>2. "code" \notin Quotings
    BY DEF Quotings
  <2> QED BY <1>1, <2>1, <2>2, MembersAre
<1>3. \A j \in Ends(s), k \in Words(s) : k >= j + 1 <=> j < k
  BY <1>1
<1>4. ASSUME Several(s) PROVE SomeSplit(s)
  <2>1. PICK i \in Words(s), j \in Ends(s), k \in Words(s) : i < j /\ j < k
    BY <1>4, Zenon DEF Several
  <2>2. MarkBefore(s, j) /\ WordFrom(s, j + 1)
    BY <1>3, <2>1 DEF MarkBefore, WordFrom
  <2> QED BY <2>1, <2>2 DEF SplitAt, SomeSplit
<1>5. ASSUME SomeSplit(s) PROVE Several(s) \/ EmptyFirst(s)
  <2>1. PICK j \in Ends(s) : MarkBefore(s, j) /\ WordFrom(s, j + 1)
    BY <1>5 DEF SomeSplit, SplitAt
  <2>2. PICK i \in Words(s) \cup Ends(s) : i < j
    BY <2>1 DEF MarkBefore
  <2>3. PICK k \in Words(s) : j < k
    BY <1>3, <2>1 DEF WordFrom
  <2>4. CASE \E m \in Words(s) : m < j
    BY <2>3, <2>4, Zenon DEF Several
  <2>5. CASE ~ \E m \in Words(s) : m < j
    <3>1. i \in Ends(s)
      BY <2>2, <2>5
    <3>2. \A m \in Words(s) : j < m
      <4>1. ASSUME NEW m \in Words(s) PROVE j < m
        <5>1. m # j /\ ~ (m < j) /\ m \in 1 .. Len(s) /\ j \in 1 .. Len(s)
          BY <1>1, <1>2, <2>5, <4>1
        <5> QED BY <5>1
      <4> QED BY <4>1
    <3> QED BY <2>2, <2>3, <3>1, <3>2, Zenon DEF EmptyFirst
  <2> QED BY <2>4, <2>5
<1> QED BY <1>4, <1>5

(* The property, of any text.                                                *)
LEMMA ReadAsTheEngine ==
  ASSUME NEW C, NEW s \in Seq(C), NEW found, found = InspectSql(s)
  PROVE  /\ Several(s) => found.multiple
         /\ found.multiple => Several(s) \/ EmptyFirst(s)
         /\ ~found.multiple /\ ~Unread(s) =>
              ((found.placeholder # None) <=> Named(s) \/ Nameless(s))
<1>1. found \in Inspections(C, s) /\ (found.multiple \/ found.at = Len(s) + 1)
  BY InspectionEnds
<1>2. Sound(s, found.at, found.saw, found.multiple, found.placeholder)
  BY <1>1, Zenon DEF Inspections
<1>3. ASSUME found.multiple PROVE SomeSplit(s)
  BY <1>2, <1>3, Zenon DEF Sound
<1>4. ASSUME ~found.multiple
      PROVE  /\ ~SomeSplit(s)
             /\ ~Unread(s) => ((found.placeholder # None) <=> Named(s) \/ Nameless(s))
  <2>1. found.at = Len(s) + 1
    BY <1>1, <1>4, Zenon
  <2>2. NoSplitBefore(s, Len(s) + 1) /\ ((found.placeholder # None) <=> NamedBefore(s, Len(s) + 1))
    BY <1>2, <1>4, <2>1, Zenon DEF Sound
  <2>3. \A j \in Ends(s) : j < Len(s) + 1
    BY MembersIn
  <2>4. ~SomeSplit(s)
    BY <2>2, <2>3, Zenon DEF NoSplitBefore, SomeSplit
  <2> QED BY <2>2, <2>4, NamedSomewhere
<1> QED BY <1>3, <1>4, SplitIs, Zenon

(* A text of SQL is a sequence of the named characters.                      *)
SqlInv == kind = "sql" => text \in Seq(STRING)

(* Every text of SQL is one.                                                 *)
LEMMA SqlAlways == TextSpec => []SqlInv
<1>1. TextInit => SqlInv
  BY DEF TextInit, SqlInv
<1>2. SqlInv /\ [TextNext]_<<kind, text, size>> => SqlInv'
  <2> SUFFICES ASSUME SqlInv, [TextNext]_<<kind, text, size>> PROVE SqlInv'
    OBVIOUS
  <2>1. CASE WriteSql
    <3>1. PICK unit \in SqlUnits : text' = text \o unit
      BY <2>1 DEF WriteSql
    <3>2. unit \in Seq(STRING) /\ text \in Seq(STRING)
      BY <2>1, TextsAssumption DEF WriteSql, SqlInv
    <3>3. text \o unit \in Seq(STRING)
      BY <3>2, ConcatProperties
    <3> QED BY <3>1, <3>3 DEF SqlInv
  <2>2. CASE WriteName
    BY <2>2 DEF WriteName, SqlInv
  <2>3. CASE UNCHANGED <<kind, text, size>>
    BY <2>3 DEF SqlInv
  <2> QED BY <2>1, <2>2, <2>3 DEF TextNext
<1> QED BY <1>1, <1>2, PTL DEF TextSpec

(* The scan of a text of SQL finds several statements when the engine would, *)
(* and otherwise only in a text that begins with two empty ones; and without *)
(* several it refuses a placeholder exactly if the code has a variable with a*)
(* name or a `$` without one, whatever the text and its length, unless it has*)
(* what the scan does not know: a `#`, or a `$` or a letter beyond ASCII     *)
(* right after a name or a mark (inspect_sql).                               *)
THEOREM SqlIsReadAsTheEngine == TextSpec => []SqlReadAsTheEngine
<1>1. SqlInv => SqlReadAsTheEngine
  BY ReadAsTheEngine, Zenon DEF SqlInv, SqlReadAsTheEngine
<1> QED BY <1>1, SqlAlways, PTL
=============================================================================
