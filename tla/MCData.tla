-------------------------------- MODULE MCData -------------------------------
(* Constants for model checking the adapter's data: ValueFlow, with integers *)
(* of 2 to 5 bits, a second of 2 nanoseconds, minutes of 2 seconds and days  *)
(* of 3, REALs twice as fine as nanoseconds and f64 that are coarser, and    *)
(* Texts.  The two have nothing in common and take no turns: a behaviour is  *)
(* one of values or one of texts.                                            *)
EXTENDS ValueFlow, Texts

MCHalf == [i8 |-> 2, i16 |-> 4, i32 |-> 8, i64 |-> 16]
MCCalendar == -9 .. 9
MCOffsets == {-2, 0, 2, 4}
MCNumbers == {-16, -1, 0, 1, 2, 15}
AllCrates == {"chrono", "time", "uuid", "json"}

MCSqlUnits ==
  {<<c>> : c \in {"quote", "bracket", "closing", "dash", "slash", "semicolon", "nl",
                  "x", "1", "wide", "dollar", "colon", "hash"}}
    \cup {<<"slash", "star">>, <<"star", "slash">>}
MCNameChars == {"\"", ".", "x", "1", ";"}

DataInit == Init /\ TextInit

DataNext ==
  \/ size = 0 /\ Next /\ UNCHANGED <<kind, text, size>>
  \/ TextNext /\ args = <<>> /\ column = "" /\ UNCHANGED vars

DataSpec == DataInit /\ [][DataNext]_<<vars, kind, text, size>>
=============================================================================
