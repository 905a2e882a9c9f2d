SPECIFICATION DataSpec
CONSTANTS
  SqlUnits <- MCSqlUnits
  NameChars <- MCNameChars
  MaxUnits = 5
  MaxChars = 6
  Half <- MCHalf
  Nanos = 2
  Minute = 4
  Ticks = 2
  SecondsPerDay = 3
  JulianEpoch = 1
  DayStep = 2
  SecondStep = 5
  Calendar <- MCCalendar
  Offsets <- MCOffsets
  Numbers <- MCNumbers
  Crates <- AllCrates
  MaxArgs = 2
CHECK_DEADLOCK FALSE
INVARIANTS
  SqlReadAsTheEngine
  ArgumentsAreTheBound
  RoundTrip
  NeverSilentlyChanged
  NumbersKept
  InferredTypeReadsBack
  NameStaysQuoted
