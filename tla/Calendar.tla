------------------------------- MODULE Calendar --------------------------------
(***************************************************************************)
(* lib/ecal.cpp and lib/etime.cpp: a time in seconds since 1970 written in *)
(* one of the three formats, and read from it.  Offsets are hours and      *)
(* minutes in one number, -530 being five and a half hours west.           *)
(***************************************************************************)
EXTENDS Format, EpochTime

MONTH_NAME == <<"Jan", "Feb", "Mar", "Apr", "May", "June", "July", "Aug", "Sep", "Oct",
                "Nov", "Dec">>
OFFSETS == {-1200, -1100, -1000, -900, -800, -700, -600, -500, -400, -300, -200, -100, 0,
            100, 200, 300, 330, 400, 430, 500, 530, 545, 600, 700, 800, 900, 930, 1000,
            1030, 1100, 1200, 1245, 1300, 1345, 1400}

(* The offset counts hundreds of hours; one that is not listed is replaced *)
(* by the application's.                                                   *)
Zone(offset, applicationOffset) == IF offset \in OFFSETS THEN offset ELSE applicationOffset
getZonedEpochTime(now, offset, applicationOffset) ==
    now + Zone(offset, applicationOffset) * SECONDS_PER_HOUR

Quotient(a, b) == IF a < 0 THEN -((-a) \div b) ELSE a \div b  \* of C: towards zero

FormattedOffset(offset, form) ==
    IF offset = 0 THEN <<"Z">>
    ELSE format(IF form = "ISO8601" THEN Chars("{+d}") ELSE Chars("{+d}:{-02d}"),
                IF form = "ISO8601" THEN <<offset>> ELSE <<Quotient(offset, 100), offset>>).out

DateFormat == [READABLE |-> Chars("{s} {u} {u}, {02u}:{02u}:{02u} "),
               ISO8601_READABLE |-> Chars("{04u}-{02u}-{02u}T{02u}:{02u}:{02u}"),
               ISO8601 |-> Chars("{04u}{02u}{02u}T{02u}{02u}{02u}")]
DateArguments(t, form) ==
    (IF form = "READABLE" THEN <<Chars(MONTH_NAME[t.month]), t.day, t.year>>
     ELSE <<t.year, t.month, t.day>>) \o <<t.hr, t.min, t.sec>>
getFormattedDateTime(epoch_seconds, offset, form) ==
    format(DateFormat[form], DateArguments(Clock(epoch_seconds), form)).out
    \o FormattedOffset(offset, form)

-----------------------------------------------------------------------------
(* Reading.  Each format is a sequence of steps: a field and the call that *)
(* reads it, or a character that has to come next.                         *)

Field(name, reader, n, until, consume) ==
    [name |-> name, reader |-> reader, n |-> n, until |-> until, consume |-> consume]
NaturalField(name) == Field(name, "natural", 0, {}, FALSE)
SizeField(name, n) == Field(name, "size", n, {}, FALSE)
UntilField(name, c) == Field(name, "until", 0, {c}, TRUE)
Expect(c) == Field("expect", "char", 0, {c}, FALSE)

Steps(form) ==
    CASE form = "READABLE" ->
            <<Field("month", "name", 0, {" "}, FALSE), NaturalField("day"), Expect(" "),
              NaturalField("year"), Expect(","), Expect(" "), NaturalField("hr"), Expect(":"),
              NaturalField("min"), Expect(":"), NaturalField("sec"), Expect(" ")>>
      [] form = "ISO8601_READABLE" ->
            <<UntilField("year", "-"), UntilField("month", "-"), UntilField("day", "T"),
              UntilField("hr", ":"), UntilField("min", ":"),
              Field("sec", "until", 0, {"Z", "+", "-"}, FALSE)>>
      [] form = "ISO8601" ->
            <<SizeField("year", 4), SizeField("month", 2), SizeField("day", 2),
              Field("any", "char", 0, {}, FALSE), SizeField("hr", 2), SizeField("min", 2),
              SizeField("sec", 2)>>

isValid(name, value, digits) ==
    CASE name = "year" -> value \in 1970..9999 /\ digits <= 4
      [] name = "month" -> value \in 1..12 /\ digits <= 2
      [] name = "day" -> value \in 1..31 /\ digits <= 2
      [] name = "hr" -> value <= 23 /\ digits <= 2
      [] name \in {"min", "sec"} -> value <= 59 /\ digits <= 2
      [] OTHER -> TRUE

(* An unknown name is month 0; only a field of digits has a digit count.   *)
MonthOf(read) ==
    LET named == {m \in 1..12 : Append(Chars(MONTH_NAME[m]), " ") = read.out}
    IN  [ok |-> read.ok, at |-> read.at, digits |-> 0,
         value |-> IF named = {} THEN 0 ELSE CHOOSE m \in named : TRUE]
monthNamed(text, at) == MonthOf(Plain(text, at, Until({" "}, TRUE)))

charAt(text, at, expected) ==
    LET c == peekAt(text, at)
    IN  [ok |-> c # EndOfText /\ (expected = {} \/ c \in expected), at |-> at + 1, digits |-> 0,
         value |-> 0]

SetField(s, step, read) ==
    LET value == read.value % (IF step.name = "year" THEN 65536 ELSE 256)
    IN  IF ~s.ok \/ ~read.ok \/ ~isValid(step.name, value, read.digits) THEN [s EXCEPT !.ok = FALSE]
        ELSE IF step.name \notin DOMAIN s.t THEN [s EXCEPT !.at = read.at]
        ELSE [s EXCEPT !.at = read.at, !.t[step.name] = value]
ReadStep(text, s, step) ==
    SetField(s, step,
        CASE step.reader = "char" -> charAt(text, s.at, step.until)
          [] step.reader = "name" -> monthNamed(text, s.at)
          [] step.reader = "natural" -> readNatural(text, s.at)
          [] step.reader = "size" -> readNaturalSize(text, s.at, step.n)
          [] step.reader = "until" -> readNaturalUntil(text, s.at, step.until, step.consume))

Signed16(n) == ((n + 32768) % 65536) - 32768
OffsetSeconds(sign, hr, min) ==
    (IF sign = "+" THEN 1 ELSE -1) * (hr * SECONDS_PER_HOUR + min * SECONDS_PER_MINUTE)

(* The offset at at, in 16 bits where the code keeps it in as many: a sign *)
(* and one digit of hours, c or nothing between them and two of minutes.   *)
OffsetRead(sign, hr, min) ==
    IF sign \in {"+", "-"} /\ hr.ok /\ hr.digits <= 1 /\ min.ok /\ min.digits <= 2
    THEN [ok |-> TRUE, seconds |-> OffsetSeconds(sign, hr.value, min.value)]
    ELSE [ok |-> FALSE, seconds |-> 0]

(* Mutation: the minutes of an offset are not asked for.                   *)
MinutesUnread(text, sign, hr) ==
    IF peekAt(text, hr.at) # ":" THEN [ok |-> FALSE, seconds |-> 0]
    ELSE OffsetRead(sign, hr, [ok |-> TRUE, digits |-> 0, value |-> 0])

MinutesRead(text, sign, hr) ==
    IF peekAt(text, hr.at) # ":" THEN [ok |-> FALSE, seconds |-> 0]
    ELSE OffsetRead(sign, hr, readNaturalSize(text, hr.at + 1, 2))
In16Bits(offset) == [offset EXCEPT !.seconds = Signed16(@)]
parseReadableOffset(text, at) ==
    IF peekAt(text, at) = "Z" THEN [ok |-> TRUE, seconds |-> 0]
    ELSE In16Bits(MinutesRead(text, peekAt(text, at), readNatural(text, at + 1)))

ISO8601Minutes(text, sign, hr) == OffsetRead(sign, hr, readNaturalSize(text, hr.at, 2))
ISO8601Offset(text, at) ==
    IF peekAt(text, at) = "Z" THEN [ok |-> TRUE, seconds |-> 0]
    ELSE ISO8601Minutes(text, peekAt(text, at), readNaturalSize(text, at + 1, 1))

EpochOf(read, offset) ==
    IF read.ok /\ offset.ok THEN [ok |-> TRUE, epoch |-> EpochSeconds(read.t) + offset.seconds]
    ELSE [ok |-> FALSE]
EpochAt(text, read, form) ==
    EpochOf(read, IF form = "ISO8601" THEN ISO8601Offset(text, read.at)
                  ELSE parseReadableOffset(text, read.at))
getEpochFromFormattedDateTime(text, form) ==
    LET start == [ok |-> TRUE, at |-> 0, t |-> [f \in {"year", "month", "day", "hr", "min",
                                                        "sec"} |-> 0]]
    IN  EpochAt(text, FoldLeft(LAMBDA s, step : ReadStep(text, s, step), start, Steps(form)), form)
=============================================================================
