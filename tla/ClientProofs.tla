------------------------------ MODULE ClientProofs --------------------------
(***************************************************************************)
(* Three parts of a client: the command builder, the calendar behind the   *)
(* times of its queries, and the calls it makes.                           *)
(***************************************************************************)
EXTENDS CommandBuilder, Rfc3339, Connecting, SequenceFacts

-----------------------------------------------------------------------------
(***************************************************************************)
(* For every set of values and any number of setter calls and builds: a    *)
(* book says what was said last.  The invariant relates each member of the *)
(* builder to what was asked of it.                                        *)
(***************************************************************************)
Members == {"root", "correlation_id", "sequence", "sequence_set", "merge_strategy",
            "type_url", "payload"}
Fields == {"root", "correlation_id", "sequence", "merge_strategy", "command"}

Shape == DOMAIN builder = Members /\ DOMAIN asked = Fields
         /\ builder = [m \in Members |-> builder[m]]
         /\ asked = [f \in Fields |-> asked[f]]

\* A member holds what was asked last, and its default before that.
Held ==
    /\ builder.root = asked["root"]
    /\ builder.correlation_id = asked["correlation_id"]
    /\ builder.type_url = asked["command"] /\ builder.payload = asked["command"]
    /\ builder.merge_strategy = Or("merge_strategy", "MERGE_COMMUTATIVE")
    /\ builder.sequence_set = (asked["sequence"] # NotSet)
    /\ builder.sequence_set => builder.sequence = asked["sequence"]

BuilderInv == Shape /\ Held /\ BuiltAsAsked

LEMMA InitBuilderInv == Init => BuilderInv
<1>. SUFFICES ASSUME Init PROVE BuilderInv
  OBVIOUS
<1>1. Shape
  BY DEF Init, Shape, Members, Fields
<1>2. Held
  BY DEF Init, Held, Or
<1>3. BuiltAsAsked
  BY DEF Init, Nothing, BuiltAsAsked
<1>. QED BY <1>1, <1>2, <1>3 DEF BuilderInv

\* What was built before a setter call is not spoken of after it.
LEMMA NothingBuilt == built = Nothing => BuiltAsAsked
BY DEF Nothing, BuiltAsAsked

LEMMA SettersKeep ==
    ASSUME BuilderInv, [Next]_vars, built' = Nothing, ~build, ~UNCHANGED vars
    PROVE  Shape' /\ Held'
<1>. USE DEF BuilderInv, Shape, Held, Ask, Or, Members, Fields
<1>1. ASSUME NEW r \in Roots, with_root(r) PROVE Shape' /\ Held'
  BY <1>1 DEF with_root
<1>2. ASSUME NEW id \in Ids, with_correlation_id(id) PROVE Shape' /\ Held'
  BY <1>2 DEF with_correlation_id
<1>3. ASSUME NEW seq \in Sequences, with_sequence(seq) PROVE Shape' /\ Held'
  BY <1>3, BuilderAssumption DEF with_sequence
<1>4. ASSUME NEW strategy \in Strategies, with_merge_strategy(strategy) PROVE Shape' /\ Held'
  BY <1>4, BuilderAssumption DEF with_merge_strategy
<1>5. ASSUME NEW url \in Urls, with_command(url) PROVE Shape' /\ Held'
  BY <1>5 DEF with_command
<1>. QED BY <1>1, <1>2, <1>3, <1>4, <1>5 DEF Next

LEMMA BuildKeeps == ASSUME BuilderInv, build PROVE BuilderInv'
<1>1. UNCHANGED <<builder, asked>>
  BY DEF build
<1>2. Shape' /\ Held'
  BY <1>1 DEF BuilderInv, Shape, Held, Or
<1>3. BuiltAsAsked'
  <2>1. ASSUME NEW why, built' = Refused(why)
        PROVE  BuiltAsAsked'
    <3>1. built'.kind = "invalid_argument"
      BY <2>1 DEF Refused
    <3>2. \A id : CommandBook(id).kind = "book"
      BY DEF CommandBook
    <3>3. builder.type_url = NotSet \/ builder.payload = NotSet \/ ~builder.sequence_set
      BY <3>1, <3>2 DEF build
    <3>. QED BY <1>1, <3>1, <3>3 DEF BuilderInv, Held, BuiltAsAsked
  <2>2. ASSUME NEW id, built' = CommandBook(id)
        PROVE  BuiltAsAsked'
    BY <1>1, <2>2 DEF build, BuilderInv, Held, BuiltAsAsked, Refused, CommandBook, Or
  <2>. QED BY <2>1, <2>2 DEF build
<1>. QED BY <1>2, <1>3 DEF BuilderInv

LEMMA NextBuilderInv == BuilderInv /\ [Next]_vars => BuilderInv'
<1>. SUFFICES ASSUME BuilderInv, [Next]_vars PROVE BuilderInv'
  OBVIOUS
<1>1. CASE UNCHANGED vars
  BY <1>1 DEF vars, BuilderInv, Shape, Held, Or, BuiltAsAsked
<1>2. CASE build
  BY <1>2, BuildKeeps
<1>3. CASE ~build /\ ~UNCHANGED vars
  <2>1. built' = Nothing
    BY <1>3 DEF Next, Ask, with_root, with_correlation_id, with_sequence,
               with_merge_strategy, with_command
  <2>. QED BY <1>3, <2>1, SettersKeep, NothingBuilt DEF BuilderInv, BuiltAsAsked, Nothing
<1>. QED BY <1>1, <1>2, <1>3

\* For every mix of setter calls and builds, a book says of each field what was
\* said last, and a refusal means that the command or the sequence is missing.
THEOREM BooksSayWhatWasAsked == Spec => []BuiltAsAsked
<1>1. BuilderInv => BuiltAsAsked
  BY DEF BuilderInv
<1>. QED BY <1>1, InitBuilderInv, NextBuilderInv, PTL DEF Spec

-----------------------------------------------------------------------------
(***************************************************************************)
(* For every year the walk ends with: the two loops of parse_rfc3339 count *)
(* the days of the calendar.  What they add up is first brought from the   *)
(* recursive definitions to the steps of the loops.                        *)
(***************************************************************************)

\* What the days of all years from 1970 on come to.
DaysBefore(year) == 365 * (year - 1970) + ((year - 1969) \div 4)
                       - ((year - 1901) \div 100) + ((year - 1601) \div 400)

LEMMA DaysBeforeTurns ==
    ASSUME NEW year \in Nat, year > 1970
    PROVE  /\ DaysBefore(year) = DaysBefore(year - 1) + 365 + (IF IsLeap(year - 1) THEN 1 ELSE 0)
           /\ DaysBefore(year) \in Int /\ DaysBefore(1970) = 0
<1> DEFINE last == year - 1
<1>1. last \in Nat /\ last >= 1970 /\ last + 1 = year
  OBVIOUS
<1> HIDE DEF last
<1>2. (last + 1 - 1969) \div 4 = ((last - 1969) \div 4) + (IF last % 4 = 0 THEN 1 ELSE 0)
  BY <1>1
<1>3. (last + 1 - 1901) \div 100 = ((last - 1901) \div 100) + (IF last % 100 = 0 THEN 1 ELSE 0)
  BY <1>1
<1>4. (last + 1 - 1601) \div 400 = ((last - 1601) \div 400) + (IF last % 400 = 0 THEN 1 ELSE 0)
  BY <1>1
<1>5. (last % 400 = 0 => last % 100 = 0) /\ (last % 100 = 0 => last % 4 = 0)
  BY <1>1
<1>6. DaysBefore(last + 1) = DaysBefore(last) + 365 + (IF IsLeap(last) THEN 1 ELSE 0)
  BY <1>1, <1>2, <1>3, <1>4, <1>5 DEF DaysBefore, IsLeap
<1> QED  BY <1>1, <1>6 DEF DaysBefore, last

\* The loop over the years.
Counted(f, y) == IF y = 1970 THEN 0
                 ELSE f[y - 1] + 365 + (IF IsLeap(y - 1) THEN 1 ELSE 0)

Years == 1970..LastYear

CountsYears(h) == h = [y \in Years |-> Counted(h, y)]

LEMMA YearsAreCounted == CountsYears(DaysFromYears)
<1> DEFINE f == [y \in Years |-> DaysBefore(y)]
           g == [y \in Years |-> Counted(f, y)]
<1>1. ASSUME NEW y \in Years
      PROVE  f[y] = g[y]
  <2>1. CASE y = 1970
    BY <2>1 DEF DaysBefore, Counted
  <2>2. CASE y # 1970
    <3>1. y \in Nat /\ y > 1970 /\ y - 1 \in Years
      BY <2>2, CalendarAssumption DEF Years
    <3> QED  BY <2>2, <3>1, DaysBeforeTurns DEF Counted
  <2> QED  BY <2>1, <2>2
<1>2. f = g
  <2>1. f = [y \in Years |-> f[y]] /\ g = [y \in Years |-> g[y]]
    OBVIOUS
  <2> HIDE DEF f, g
  <2>2. [y \in Years |-> f[y]] = [y \in Years |-> g[y]]
    BY <1>1
  <2> QED  BY <2>1, <2>2
<1>3. \E h : CountsYears(h)
  <2>1. CountsYears(f)
    BY <1>2 DEF CountsYears
  <2> HIDE DEF f
  <2> QED  BY <2>1
<1>4. DaysFromYears = CHOOSE h : CountsYears(h)
  BY DEF DaysFromYears, CountsYears, Counted, Years
<1> QED  BY <1>3, <1>4

LEMMA YearTurns ==
    ASSUME NEW f, CountsYears(f), NEW year \in Years
    PROVE  f[year] = Counted(f, year)
BY DEF CountsYears

LEMMA YearTurn ==
    ASSUME NEW year \in 1970..LastYear
    PROVE  /\ DaysFromYears[year] = Counted(DaysFromYears, year)
           /\ DaysFromYears[1970] = 0
<1> DEFINE f == DaysFromYears
<1>1. CountsYears(f) /\ year \in Years /\ 1970 \in Years
  BY YearsAreCounted, CalendarAssumption DEF Years
<1> HIDE DEF f
<1>2. f[year] = Counted(f, year) /\ f[1970] = Counted(f, 1970)
  BY <1>1, YearTurns
<1>3. f[1970] = 0
  BY <1>2 DEF Counted
<1> QED  BY <1>2, <1>3 DEF f

\* A number of days, that is, in every year.
LEMMA YearsAreNumbers == ASSUME NEW year \in 1970..LastYear PROVE DaysFromYears[year] \in Nat
<1> DEFINE T == {i \in 0..LastYear - 1970 : DaysFromYears[1970 + i] \in Nat}
<1>1. 0 \in T /\ LastYear - 1970 \in Nat
  BY YearTurn, CalendarAssumption
<1>2. ASSUME NEW i \in 1..LastYear - 1970, i - 1 \in T
      PROVE  i \in T
  <2>1. 1970 + i \in 1970..LastYear /\ 1970 + i # 1970 /\ 1970 + (i - 1) = (1970 + i) - 1
    BY CalendarAssumption
  <2>2. DaysFromYears[1970 + i] = Counted(DaysFromYears, 1970 + i)
    BY <2>1, YearTurn
  <2>3. DaysFromYears[(1970 + i) - 1] \in Nat
    BY <1>2, <2>1
  <2> QED  BY <2>1, <2>2, <2>3 DEF Counted
<1>3. 0..LastYear - 1970 \subseteq T
  <2> HIDE DEF T
  <2> QED  BY <1>1, <1>2, InductionUpTo
<1>4. year - 1970 \in 0..LastYear - 1970 /\ 1970 + (year - 1970) = year
  BY CalendarAssumption
<1> QED  BY <1>3, <1>4

\* The loop over the months, all twelve of them.
CountsMonths(h) ==
    h = [month \in 1..12 |-> IF month = 1 THEN 0 ELSE h[month - 1] + days_in_month[month - 1]]

MonthsBefore == <<0, 31, 59, 90, 120, 151, 181, 212, 243, 273, 304, 334>>

LEMMA MonthsAreCounted == DaysFromMonths = MonthsBefore
<1> DEFINE g == [month \in 1..12 |-> IF month = 1 THEN 0
                                     ELSE MonthsBefore[month - 1] + days_in_month[month - 1]]
<1>1. CountsMonths(MonthsBefore)
  <2>1. MonthsBefore = [month \in 1..12 |-> MonthsBefore[month]]
    BY DEF MonthsBefore
  <2>2. \A month \in 1..12 : MonthsBefore[month] = g[month]
    BY DEF MonthsBefore, days_in_month
  <2>3. MonthsBefore = g
    BY <2>1, <2>2
  <2> QED  BY <2>3 DEF CountsMonths
<1>2. ASSUME NEW h, CountsMonths(h)
      PROVE  h = MonthsBefore
  <2>1. /\ h = [month \in 1..12 |-> h[month]]
        /\ \A month \in 1..12 :
             h[month] = IF month = 1 THEN 0 ELSE h[month - 1] + days_in_month[month - 1]
    BY <1>2 DEF CountsMonths
  <2>2. \A month \in 1..12 : h[month] = MonthsBefore[month]
    BY <2>1 DEF MonthsBefore, days_in_month
  <2>3. MonthsBefore = [month \in 1..12 |-> MonthsBefore[month]]
    BY DEF MonthsBefore
  <2> QED  BY <2>1, <2>2, <2>3
<1>3. DaysFromMonths = CHOOSE h : CountsMonths(h)
  BY DEF DaysFromMonths, CountsMonths
<1> QED  BY <1>1, <1>2, <1>3

\* The walk is at a day of the calendar, and has come as far as the loops count.
Dates == [year : 1970..LastYear, month : 1..12, day : 1..31]

CalendarInv ==
    /\ date \in Dates /\ date.day <= Length(date)
    /\ days = DaysFromYears[date.year] + DaysFromMonths[date.month]
                 + LeapDay(date.year, date.month) + date.day - 1

LEMMA LengthIs ==
    ASSUME NEW day \in Dates
    PROVE  Length(day) = days_in_month[day.month]
                           + (IF day.month = 2 /\ IsLeap(day.year) THEN 1 ELSE 0)
<1>1. day.month \in 1..12 /\ day.year \in Nat
  BY CalendarAssumption DEF Dates
<1>2. CASE day.month \in {4, 6, 9, 11}
  BY <1>2 DEF Length, days_in_month
<1>3. CASE day.month = 2
  <2>1. (day.year % 400 = 0 => day.year % 100 = 0) /\ (day.year % 100 = 0 => day.year % 4 = 0)
    BY <1>1
  <2> QED  BY <1>3, <2>1 DEF Length, days_in_month, IsLeap
<1>4. CASE day.month \in {1, 3, 5, 7, 8, 10, 12}
  BY <1>4 DEF Length, days_in_month
<1> QED  BY <1>1, <1>2, <1>3, <1>4

LEMMA EpochCalendarInv == Epoch => CalendarInv
<1> SUFFICES ASSUME Epoch PROVE CalendarInv
  OBVIOUS
<1>1. date \in Dates /\ date.year = 1970 /\ date.month = 1 /\ date.day = 1 /\ days = 0
  BY CalendarAssumption DEF Epoch, Dates
<1>2. date.day <= Length(date)
  BY <1>1, LengthIs DEF days_in_month
<1>3. DaysFromYears[1970] = 0 /\ DaysFromMonths[1] = 0 /\ LeapDay(1970, 1) = 0
  BY YearTurn, MonthsAreCounted, CalendarAssumption DEF MonthsBefore, LeapDay
<1> QED  BY <1>1, <1>2, <1>3 DEF CalendarInv

LEMMA WalkKeeps == ASSUME CalendarInv, Walk PROVE CalendarInv'
<1> DEFINE year == date.year
           month == date.month
           day == date.day
<1>1. /\ date \in Dates /\ year \in 1970..LastYear /\ month \in 1..12 /\ day \in 1..31
      /\ date = [year |-> year, month |-> month, day |-> day] /\ year \in Nat
  BY CalendarAssumption DEF CalendarInv, Dates
<1>2. /\ Length(date) = days_in_month[month] + (IF month = 2 /\ IsLeap(year) THEN 1 ELSE 0)
      /\ days_in_month[month] \in Nat /\ Length(date) <= 31 /\ day <= Length(date)
      /\ Length(date) \in Nat
  BY <1>1, LengthIs DEF days_in_month, CalendarInv
<1>3. /\ days = DaysFromYears[year] + DaysFromMonths[month] + LeapDay(year, month) + day - 1
      /\ days' = days + 1
      /\ DaysFromYears[year] \in Nat /\ DaysFromMonths[month] \in Nat
      /\ LeapDay(year, month) \in 0..1
  BY <1>1, YearsAreNumbers, MonthsAreCounted DEF CalendarInv, Walk, LeapDay, MonthsBefore
<1>4. CASE NextDay
  <2>1. date' = [year |-> year, month |-> month, day |-> day + 1] /\ day < Length(date)
    BY <1>1, <1>4 DEF NextDay
  <2>2. date' \in Dates /\ Length(date') = Length(date)
    BY <1>1, <1>2, <2>1 DEF Dates, Length
  <2> QED  BY <1>1, <1>2, <1>3, <2>1, <2>2 DEF CalendarInv
<1>5. CASE NextMonth
  <2>1. /\ date' = [year |-> year, month |-> month + 1, day |-> 1]
        /\ day = Length(date) /\ month + 1 \in 1..12
    <3>1. day = Length(date) /\ month < 12 /\ date' = [date EXCEPT !.day = 1, !.month = @ + 1]
      BY <1>5 DEF NextMonth
    <3>2. date' = [year |-> year, month |-> month + 1, day |-> 1]
      <4>1. PICK y, m, d : date = [year |-> y, month |-> m, day |-> d]
        BY <1>1
      <4>2. date' = [date EXCEPT !.day = 1, !.month = date.month + 1]
        BY <3>1, <4>1
      <4>3. date' = [year |-> y, month |-> m + 1, day |-> 1]
        BY <4>1, <4>2
      <4> QED  BY <4>1, <4>3
    <3>3. month \in 1..12
      BY <1>1
    <3> HIDE DEF year, month, day
    <3>4. month + 1 \in 1..12
      BY <3>1, <3>3
    <3> QED  BY <3>1, <3>2, <3>4
  <2>2. date' \in Dates /\ date'.day <= Length(date')
    <3>1. date' \in Dates
      BY <1>1, <2>1 DEF Dates
    <3>2. Length(date') >= 28
      BY <2>1, <3>1, LengthIs DEF days_in_month
    <3>3. Length(date') \in Nat
      BY <2>1, <3>1, LengthIs DEF days_in_month
    <3> QED  BY <2>1, <3>1, <3>2, <3>3
  <2>3. DaysFromMonths[month + 1] = DaysFromMonths[month] + days_in_month[month]
    BY <2>1, <1>1, MonthsAreCounted DEF MonthsBefore, days_in_month
  <2>4. LeapDay(year, month + 1) =
            LeapDay(year, month) + (IF month = 2 /\ IsLeap(year) THEN 1 ELSE 0)
    BY <1>1 DEF LeapDay
  <2>5. days' = DaysFromYears[year] + DaysFromMonths[month + 1] + LeapDay(year, month + 1) + 1 - 1
    <3> DEFINE leap == IF month = 2 /\ IsLeap(year) THEN 1 ELSE 0
    <3>1. leap \in Nat /\ day = days_in_month[month] + leap /\ days_in_month[month] \in Nat
      BY <1>2, <2>1
    <3>2. LeapDay(year, month + 1) = LeapDay(year, month) + leap
      BY <2>4
    <3> HIDE DEF leap, year, month, day
    <3> QED  BY <1>3, <2>3, <3>1, <3>2
  <2> QED  BY <2>1, <2>2, <2>5 DEF CalendarInv
<1>6. CASE NextYear
  <2>1. /\ date' = [year |-> year + 1, month |-> 1, day |-> 1]
        /\ day = Length(date) /\ month = 12 /\ year + 1 \in 1970..LastYear
    BY <1>1, <1>6, CalendarAssumption DEF NextYear
  <2>2. date' \in Dates /\ date'.day <= Length(date')
    <3>1. date' \in Dates
      BY <2>1 DEF Dates
    <3>2. Length(date') = 31
      BY <2>1, <3>1, LengthIs DEF days_in_month
    <3> QED  BY <2>1, <3>1, <3>2
  <2>3. DaysFromYears[year + 1] = DaysFromYears[year] + 365 + LeapDay(year, 12)
    <3>1. year + 1 # 1970 /\ (year + 1) - 1 = year
      BY <1>1
    <3> QED  BY <2>1, <3>1, YearTurn DEF Counted, LeapDay
  <2>4. /\ DaysFromMonths[1] = 0 /\ DaysFromMonths[12] = 334
        /\ LeapDay(year + 1, 1) = 0 /\ Length(date) = 31
    BY <1>2, <2>1, MonthsAreCounted DEF MonthsBefore, LeapDay, days_in_month
  <2>5. days' = DaysFromYears[year + 1] + DaysFromMonths[1] + LeapDay(year + 1, 1) + 1 - 1
    BY <1>1, <1>3, <2>1, <2>3, <2>4
  <2> QED  BY <2>1, <2>2, <2>5 DEF CalendarInv
<1> QED  BY <1>4, <1>5, <1>6 DEF Walk

\* Through every year up to any other, and for every time of day: a UTC time is
\* parsed to the days that lie between it and the epoch, and to its seconds.
THEOREM TimesAreExact == CalendarSpec => []UtcIsExact
<1>1. CalendarInv => UtcIsExact
  <2> SUFFICES ASSUME CalendarInv, NEW clock \in Clocks
               PROVE  parse_rfc3339(date, clock) =
                        [days |-> days,
                         second |-> (clock.hour * 60 + clock.minute) * 60 + clock.second]
    BY DEF UtcIsExact
  <2>1. clock.hour \in Int /\ clock.minute \in Int /\ clock.second \in Int
    BY CalendarAssumption
  <2>2. clock.hour * 3600 + clock.minute * 60 + clock.second =
            (clock.hour * 60 + clock.minute) * 60 + clock.second
    BY <2>1
  <2> QED  BY <2>2 DEF CalendarInv, parse_rfc3339
<1>2. CalendarInv /\ [Walk]_calendar => CalendarInv'
  <2>1. CalendarInv /\ UNCHANGED calendar => CalendarInv'
    BY DEF calendar, CalendarInv, Length
  <2> QED  BY <2>1, WalkKeeps
<1> QED  BY <1>1, <1>2, EpochCalendarInv, PTL DEF CalendarSpec

-----------------------------------------------------------------------------
(***************************************************************************)
(* For every set of policies and endpoints: what the end of execute says   *)
(* about the attempts, about what the coordinator recorded, and how long   *)
(* was slept between them.                                                 *)
(***************************************************************************)
Under == {"trying", "sleeping"}
Statuses == {"OK"} \cup Failures

CallTypeOK ==
    /\ policy \in Policies /\ policy.max_attempts \in Int
    /\ method \in {"none", "connect"} \cup DOMAIN Rpcs
    /\ phase \in {"idle", "trying", "sleeping", "returned", "threw"}
    /\ outcomes \in Seq(Statuses)
    /\ mode \in {"none", "async", "simple"}
    /\ pending \in Nat /\ recorded \in Nat

\* As long as there is another attempt to make, all before it failed, and the
\* last of them left its error; connecting fails never.
Underway ==
    /\ phase = "idle" <=> method = "none"
    /\ method = "connect" => phase \in {"trying", "returned"}
    /\ method = "connect" /\ phase = "trying" => outcomes = <<>>
    /\ phase \in Under =>
         /\ Len(outcomes) < policy.max_attempts
         /\ \A i \in DOMAIN outcomes : outcomes[i] # "OK"
         /\ outcomes # <<>> => error = outcomes[Len(outcomes)]

\* Only commands have a mode and leave something, and before the last attempt
\* only one that lost its connection did.
Recorded ==
    /\ method \in {"none", "connect"} => mode = "none"
    /\ method \in DOMAIN Rpcs => mode \in Modes(method)
    /\ mode = "none" => pending = 0 /\ recorded = 0
    /\ phase \in Under /\ recorded + pending > 0 =>
         \E i \in DOMAIN outcomes : outcomes[i] = "UNAVAILABLE"

\* Each sleep is one that its attempt may be followed by.
Slept ==
    /\ delays \in Seq(Nat)
    /\ phase \in Under => Len(delays) = Len(outcomes)
    /\ phase = "threw" => Len(delays) = Len(outcomes) - 1
    /\ \A k \in DOMAIN delays : delays[k] \in compute_delay(k - 1)

Told == CallTypeOK /\ Underway /\ Recorded /\ EndsTruthfully /\ RecordedAsSaid

CallInv == Told /\ Slept

-----------------------------------------------------------------------------
(* 2 ^ attempt: the recursive definition, brought to its one step. *)

Doubles(f, n) == f \in [0..n -> Nat] /\ f[0] = 1 /\ \A k \in 1..n : f[k] = 2 * f[k - 1]

LEMMA DoublesExist == ASSUME NEW n \in Nat PROVE \E f : Doubles(f, n)
<1> DEFINE T == {i \in Nat : \E f : Doubles(f, i)}
<1>1. 0 \in T
  <2> DEFINE f == [k \in 0..0 |-> 1]
  <2>1. Doubles(f, 0)
    BY DEF Doubles
  <2> HIDE DEF f
  <2> QED  BY <2>1
<1>2. ASSUME NEW i \in T
      PROVE  i + 1 \in T
  <2>1. PICK f : Doubles(f, i)
    OBVIOUS
  <2> DEFINE g == [k \in 0..i + 1 |-> IF k = i + 1 THEN 2 * f[i] ELSE f[k]]
  <2>2. \A k \in 0..i : k \in 0..i + 1 /\ k # i + 1 /\ g[k] = f[k] /\ f[k] \in Nat
    BY <2>1 DEF Doubles
  <2>3. i + 1 \in Nat /\ i \in 0..i /\ 0 \in 0..i /\ g[i + 1] = 2 * f[i]
    OBVIOUS
  <2>4. g \in [0..i + 1 -> Nat]
    <3>1. \A k \in 0..i + 1 : k \in 0..i \/ k = i + 1
      OBVIOUS
    <3>2. f[i] \in Nat
      BY <2>1, <2>3 DEF Doubles
    <3>3. g = [k \in 0..i + 1 |-> g[k]]
      OBVIOUS
    <3> HIDE DEF g
    <3>4. \A k \in 0..i + 1 : g[k] \in Nat
      BY <2>2, <2>3, <3>1, <3>2
    <3> QED  BY <3>3, <3>4
  <2>5. g[0] = 1
    BY <2>1, <2>2, <2>3 DEF Doubles
  <2>6. ASSUME NEW k \in 1..i + 1
        PROVE  g[k] = 2 * g[k - 1]
    <3>1. k - 1 \in 0..i /\ (k = i + 1 => k - 1 = i) /\ (k # i + 1 => k \in 1..i /\ k \in 0..i)
      OBVIOUS
    <3>2. g[k - 1] = f[k - 1]
      BY <2>2, <3>1
    <3>3. k # i + 1 => g[k] = f[k] /\ f[k] = 2 * f[k - 1]
      BY <2>1, <2>2, <3>1 DEF Doubles
    <3> HIDE DEF g
    <3> QED  BY <2>3, <3>1, <3>2, <3>3
  <2>7. Doubles(g, i + 1)
    <3> HIDE DEF g
    <3> QED  BY <2>4, <2>5, <2>6 DEF Doubles
  <2> HIDE DEF g
  <2> QED  BY <2>3, <2>7
<1>3. T = Nat
  <2> HIDE DEF T
  <2>1. T \in SUBSET Nat
    BY DEF T
  <2> QED  BY <1>1, <1>2, <2>1, Induction
<1> QED  BY <1>3

LEMMA DoublesAgree ==
    ASSUME NEW f, NEW g, NEW n \in Nat, NEW m \in Nat, Doubles(f, n), Doubles(g, m),
           NEW k \in Nat, k <= n, k <= m
    PROVE  f[k] = g[k]
<1> DEFINE T == {i \in 0..k : f[i] = g[i]}
<1>1. 0 \in T
  BY DEF Doubles
<1>2. ASSUME NEW i \in 1..k, i - 1 \in T
      PROVE  i \in T
  <2>1. i \in 1..n /\ i \in 1..m /\ f[i - 1] = g[i - 1]
    BY <1>2
  <2> QED  BY <2>1 DEF Doubles
<1>3. 0..k \subseteq T
  <2> HIDE DEF T
  <2> QED  BY <1>1, <1>2, InductionUpTo
<1> QED  BY <1>3

CountsDoublings(h) ==
    h = [attempt \in Nat |-> IF attempt = 0 THEN 1 ELSE 2 * h[attempt - 1]]

LEMMA DoublingsAreCounted == CountsDoublings(doublings)
<1> DEFINE some(n) == CHOOSE f : Doubles(f, n)
           f == [n \in Nat |-> some(n)[n]]
           g == [n \in Nat |-> IF n = 0 THEN 1 ELSE 2 * f[n - 1]]
<1>1. \A n \in Nat : Doubles(some(n), n)
  BY DoublesExist
<1>2. ASSUME NEW n \in Nat
      PROVE  f[n] = g[n]
  <2> HIDE DEF some
  <2>1. CASE n = 0
    BY <1>1, <2>1 DEF Doubles
  <2>2. CASE n # 0
    <3>1. n - 1 \in Nat /\ n \in 1..n /\ n - 1 <= n /\ n - 1 <= n - 1
      BY <2>2
    <3>2. some(n)[n] = 2 * some(n)[n - 1]
      BY <1>1, <3>1 DEF Doubles
    <3>3. some(n)[n - 1] = some(n - 1)[n - 1]
      BY <1>1, <3>1, DoublesAgree
    <3> QED  BY <2>2, <3>1, <3>2, <3>3
  <2> QED  BY <2>1, <2>2
<1>3. f = g
  <2>1. f = [n \in Nat |-> f[n]] /\ g = [n \in Nat |-> g[n]]
    OBVIOUS
  <2> HIDE DEF f, g
  <2>2. [n \in Nat |-> f[n]] = [n \in Nat |-> g[n]]
    BY <1>2
  <2> QED  BY <2>1, <2>2
<1>4. CountsDoublings(f)
  BY <1>3 DEF CountsDoublings
<1>5. \E h : CountsDoublings(h)
  <2> HIDE DEF f
  <2> QED  BY <1>4
<1>6. doublings = CHOOSE h : CountsDoublings(h)
  BY DEF doublings, CountsDoublings
<1> QED  BY <1>5, <1>6

LEMMA DoublingTurns ==
    ASSUME NEW f, CountsDoublings(f), NEW n \in Nat
    PROVE  f[n] = IF n = 0 THEN 1 ELSE 2 * f[n - 1]
BY DEF CountsDoublings

LEMMA DoublingsAre ==
    ASSUME NEW n \in Nat
    PROVE  /\ doublings[n] \in Nat \ {0}
           /\ doublings[n + 1] = 2 * doublings[n]
<1> DEFINE f == doublings
<1>1. CountsDoublings(f)
  BY DoublingsAreCounted
<1> HIDE DEF f
<1>2. \A k \in Nat : f[k] = IF k = 0 THEN 1 ELSE 2 * f[k - 1]
  BY <1>1, DoublingTurns
<1> DEFINE T == {k \in Nat : f[k] \in Nat \ {0}}
<1>3. 0 \in T
  BY <1>2
<1>4. ASSUME NEW k \in T
      PROVE  k + 1 \in T
  <2>1. k + 1 \in Nat /\ k + 1 # 0 /\ (k + 1) - 1 = k /\ f[k] \in Nat \ {0}
    OBVIOUS
  <2>2. f[k + 1] = 2 * f[k]
    BY <1>2, <2>1
  <2> QED  BY <2>1, <2>2
<1>5. T = Nat
  <2>1. T \in SUBSET Nat
    OBVIOUS
  <2> HIDE DEF T
  <2> QED  BY <1>3, <1>4, <2>1, Induction
<1>6. n + 1 \in Nat /\ n + 1 # 0 /\ (n + 1) - 1 = n
  OBVIOUS
<1>7. f[n + 1] = 2 * f[n]
  BY <1>2, <1>6
<1> QED  BY <1>5, <1>7 DEF f

-----------------------------------------------------------------------------
LEMMA Appended ==
    ASSUME NEW S, NEW s \in Seq(S), NEW e \in S
    PROVE  /\ Append(s, e) \in Seq(S)
           /\ Len(Append(s, e)) = Len(s) + 1 /\ Append(s, e) # <<>>
           /\ DOMAIN Append(s, e) = 1..Len(s) + 1 /\ DOMAIN s = 1..Len(s) /\ Len(s) \in Nat
           /\ Append(s, e)[Len(s) + 1] = e
           /\ \A i \in DOMAIN s : Append(s, e)[i] = s[i]
OBVIOUS

\* The commands are what the four methods send.
LEMMA CommandsAre ==
    ASSUME NEW m \in DOMAIN Rpcs
    PROVE  /\ m \notin {"none", "connect"}
           /\ Modes(m) \subseteq {"none", "async", "simple"}
           /\ \A how \in Modes(m) : how = "none" <=> rpc(m) # "HandleCommand"
BY DEF Rpcs, rpc, Modes

LEMMA InitCallInv == Unconnected => CallInv
<1>. SUFFICES ASSUME Unconnected PROVE CallInv
  OBVIOUS
<1>1. CallTypeOK
  BY ConnectingAssumption DEF Unconnected, CallTypeOK, Statuses
<1>2. Underway /\ Recorded /\ Slept /\ EndsTruthfully /\ RecordedAsSaid
  BY CommandsAre DEF Unconnected, Underway, Recorded, Slept, EndsTruthfully, RecordedAsSaid, Under
<1>. QED BY <1>1, <1>2 DEF CallInv, Told

(* How long is slept. *)

LEMMA FullDelays ==
    ASSUME CallTypeOK, NEW n \in Nat
    PROVE  /\ full_delay(n) \in Nat /\ full_delay(n) <= policy.max_delay
           /\ 2 * full_delay(n) <= policy.max_delay => full_delay(n + 1) = 2 * full_delay(n)
<1> DEFINE delay == policy.min_delay * doublings[n]
<1>1. policy.min_delay \in Nat /\ policy.max_delay \in Nat
  BY ConnectingAssumption DEF CallTypeOK
<1>2. doublings[n] \in Nat /\ doublings[n + 1] = 2 * doublings[n]
  BY DoublingsAre
<1>3. delay \in Nat /\ policy.min_delay * doublings[n + 1] = 2 * delay
  BY <1>1, <1>2
<1>4. /\ full_delay(n) = IF delay <= policy.max_delay THEN delay ELSE policy.max_delay
      /\ full_delay(n + 1) = IF 2 * delay <= policy.max_delay THEN 2 * delay ELSE policy.max_delay
  BY <1>3 DEF full_delay
<1> HIDE DEF delay
<1> QED  BY <1>1, <1>3, <1>4

LEMMA Sleeps ==
    ASSUME CallTypeOK, NEW n \in Nat, NEW delay \in compute_delay(n)
    PROVE  /\ delay \in Nat /\ delay <= full_delay(n)
           /\ full_delay(n) <= 2 * delay + 1
<1>1. full_delay(n) \in Nat
  BY FullDelays
<1> DEFINE full == full_delay(n)
<1>2. delay \in (full \div 2)..(full - 1) \/ delay = full
  BY DEF compute_delay
<1> HIDE DEF full
<1>3. full \in Nat
  BY <1>1 DEF full
<1>4. full \div 2 \in Nat /\ full <= 2 * (full \div 2) + 1
  BY <1>3
<1>5. delay \in Nat /\ delay <= full /\ full <= 2 * delay + 1
  BY <1>2, <1>3, <1>4
<1> QED  BY <1>5 DEF full

\* As long as max_delay does not cut it short, the next sleep is no shorter.
LEMMA SleepsGrow ==
    ASSUME CallTypeOK, NEW n \in Nat, 2 * full_delay(n) <= policy.max_delay,
           NEW delay \in compute_delay(n), NEW next \in compute_delay(n + 1)
    PROVE  delay <= next
<1>1. full_delay(n) \in Nat /\ full_delay(n + 1) = 2 * full_delay(n) /\ n + 1 \in Nat
  BY FullDelays
<1>2. delay \in Nat /\ delay <= full_delay(n)
  BY Sleeps
<1>3. next \in Nat /\ full_delay(n + 1) <= 2 * next + 1
  BY <1>1, Sleeps
<1> QED  BY <1>1, <1>2, <1>3

-----------------------------------------------------------------------------
\* A failure is slept on with the delay of its attempt, or is the last.
LEMMA FailSleeps == ASSUME CallInv, NEW status \in Failures, Fail(status) PROVE Slept'
<1> DEFINE n == Len(outcomes)
<1>1. /\ phase = "trying" /\ n \in Nat /\ Len(delays) = n /\ policy' = policy
      /\ outcomes' = Append(outcomes, status) /\ Len(outcomes') = n + 1
      /\ delays \in Seq(Nat) /\ \A k \in DOMAIN delays : delays[k] \in compute_delay(k - 1)
  BY DEF CallInv, Told, CallTypeOK, Slept, Under, Fail, Statuses
<1>2. \A k : compute_delay(k)' = compute_delay(k)
  BY <1>1 DEF compute_delay, full_delay
<1>3. CASE n < policy.max_attempts - 1
  <2>1. PICK delay \in compute_delay(n) : delays' = Append(delays, delay)
    BY <1>3 DEF Fail
  <2>2. phase' = "sleeping" /\ delay \in Nat
    BY <1>1, <1>3, <2>1, Sleeps DEF Fail, CallInv, Told
  <2>3. /\ delays' \in Seq(Nat) /\ Len(delays') = n + 1
        /\ \A k \in DOMAIN delays' : k \in DOMAIN delays \/ k = n + 1
        /\ delays'[n + 1] = delay /\ (n + 1) - 1 = n
        /\ \A k \in DOMAIN delays : delays'[k] = delays[k]
    BY <1>1, <2>1, <2>2, Appended
  <2>4. \A k \in DOMAIN delays' : delays'[k] \in compute_delay(k - 1)
    BY <1>1, <2>1, <2>3
  <2> QED  BY <1>1, <1>2, <2>2, <2>3, <2>4 DEF Slept
<1>4. CASE ~(n < policy.max_attempts - 1)
  <2>1. phase' = "threw" /\ delays' = delays
    BY <1>4 DEF Fail
  <2> QED  BY <1>1, <1>2, <2>1 DEF Slept, Under
<1> QED  BY <1>3, <1>4

LEMMA SleptKept ==
    ASSUME CallInv, Connect, \A status \in Failures : ~Fail(status)
    PROVE  Slept'
<1>1. policy' = policy
  BY DEF Connect, connect, connect_directly, Call, Begin, Succeed, Wake, Process
<1>2. \A k : compute_delay(k)' = compute_delay(k)
  BY <1>1 DEF compute_delay, full_delay
<1>3. CASE \/ connect \/ \E m \in DOMAIN Rpcs : Call(m)
  <2>1. /\ delays' = <<>> /\ outcomes' = <<>> /\ phase' \in {"trying", "returned"}
    BY <1>3 DEF connect, Call, Begin
  <2> QED  BY <2>1 DEF Slept
<1>4. CASE Succeed \/ \E endpoint \in Endpoints : connect_directly(endpoint)
  <2>1. delays' = delays /\ phase' = "returned"
    BY <1>4 DEF Succeed, connect_directly
  <2> QED  BY <1>2, <2>1 DEF Slept, CallInv, Told, Under
<1>5. CASE Wake \/ Process
  BY <1>2, <1>5 DEF Wake, Process, Slept, CallInv, Told, Under
<1> QED  BY <1>3, <1>4, <1>5 DEF Connect

LEMMA ConnectKeeps == ASSUME Told, connect PROVE Told'
<1>. USE DEF Told, connect, Begin
<1>1. CallTypeOK'
  BY DEF CallTypeOK, Statuses, coordinator
<1>2. Underway' /\ Recorded' /\ EndsTruthfully' /\ RecordedAsSaid'
  BY CommandsAre DEF CallTypeOK, Underway, Recorded, EndsTruthfully, RecordedAsSaid, Under,
     coordinator
<1>. QED BY <1>1, <1>2

LEMMA ConnectDirectlyKeeps ==
    ASSUME Told, NEW endpoint \in Endpoints, connect_directly(endpoint) PROVE Told'
<1>. USE DEF Told, connect_directly
<1>0. outcomes' = <<"OK">> /\ outcomes' # <<>> /\ Len(outcomes') = 1 /\ outcomes'[1] = "OK"
  OBVIOUS
<1>1. CallTypeOK'
  BY <1>0 DEF CallTypeOK, Statuses, Underway, coordinator
<1>2. channel' # NoChannel
  BY ChannelAssumption
<1>3. Underway' /\ Recorded' /\ EndsTruthfully' /\ RecordedAsSaid'
  BY <1>0, <1>2, CommandsAre DEF CallTypeOK, Underway, Recorded, EndsTruthfully,
      RecordedAsSaid, Under, coordinator
<1>. QED BY <1>1, <1>3

LEMMA CallKeeps == ASSUME Told, NEW m \in DOMAIN Rpcs, Call(m) PROVE Told'
<1>. USE DEF Told, Call, Begin
<1>0. /\ m \notin {"none", "connect"} /\ mode' \in Modes(m)
      /\ pending = 0 /\ pending' = 0 /\ recorded = 0 /\ recorded' = 0
      /\ outcomes' = <<>> /\ Len(outcomes') = 0 /\ \A i \in DOMAIN outcomes' : FALSE
  BY CommandsAre DEF Recorded, coordinator
<1>1. CallTypeOK'
  BY <1>0, CommandsAre DEF CallTypeOK, Statuses
<1>2. method' = m /\ policy' = policy /\ policy.max_attempts \in Int
      /\ phase' = IF policy.max_attempts > 0 THEN "trying" ELSE "returned"
  BY DEF CallTypeOK
<1>3. Underway'
  BY <1>0, <1>2 DEF Underway, Under
<1>4. Recorded' /\ EndsTruthfully' /\ RecordedAsSaid'
  BY <1>0, <1>2 DEF Recorded, EndsTruthfully, RecordedAsSaid
<1>. QED BY <1>1, <1>3, <1>4

LEMMA SucceedKeeps == ASSUME Told, Succeed PROVE Told'
<1>. USE DEF Told
<1>0. /\ phase = "trying" /\ phase' = "returned" /\ method' = method /\ policy' = policy
      /\ outcomes' = Append(outcomes, "OK") /\ "OK" \in Statuses
  BY DEF Succeed, Statuses
<1>a. /\ outcomes' \in Seq(Statuses) /\ outcomes' # <<>> /\ outcomes'[Len(outcomes')] = "OK"
  BY <1>0, Appended DEF CallTypeOK
<1>1. CASE method = "connect"
  <2>1. channel' # NoChannel /\ recorded' = recorded /\ pending' = pending /\ mode' = mode
    BY <1>1, ChannelAssumption DEF Succeed, CreateChannel, coordinator
  <2>2. CallTypeOK'
    BY <1>0, <1>a, <2>1 DEF CallTypeOK
  <2>3. Underway' /\ Recorded' /\ EndsTruthfully' /\ RecordedAsSaid'
    BY <1>0, <1>1, <1>a, <2>1
    DEF CallTypeOK, Underway, Recorded, EndsTruthfully, RecordedAsSaid, Under
  <2>. QED BY <2>2, <2>3
<1>2. CASE method # "connect"
  <2>1. method \in DOMAIN Rpcs
    BY <1>0, <1>2 DEF CallTypeOK, Underway
  <2>2. Serve("OK")
    BY <1>2 DEF Succeed
  <2>0. /\ mode \in Modes(method) /\ mode' = mode
        /\ mode = "none" <=> rpc(method) # "HandleCommand"
    BY <2>1, CommandsAre DEF Recorded, Succeed
  <2>3. /\ pending' \in Nat /\ recorded' \in Nat
        /\ mode = "none" => pending' = pending /\ recorded' = recorded
        /\ mode = "simple" => recorded' > 0
    BY <2>0, <2>2 DEF Serve, CallTypeOK
  <2>4. CallTypeOK'
    BY <1>0, <1>a, <2>0, <2>3 DEF CallTypeOK
  <2>5. Underway' /\ Recorded' /\ EndsTruthfully'
    BY <1>0, <1>2, <1>a, <2>0, <2>1, <2>3, CommandsAre
    DEF Underway, Recorded, EndsTruthfully, Under
  <2>6. RecordedAsSaid'
    BY <1>0, <2>0, <2>3 DEF CallTypeOK, RecordedAsSaid
  <2>. QED BY <2>4, <2>5, <2>6
<1>. QED BY <1>1, <1>2

LEMMA FailKeeps == ASSUME Told, NEW status \in Failures, Fail(status) PROVE Told'
<1>. USE DEF Told
<1>0. /\ phase = "trying" /\ method # "connect" /\ method' = method /\ policy' = policy
      /\ outcomes' = Append(outcomes, status) /\ error' = status /\ Serve(status)
      /\ IF Len(outcomes) < policy.max_attempts - 1
         THEN phase' = "sleeping" ELSE phase' = "threw"
      /\ status \in Statuses /\ status # "OK"
  BY DEF Fail, Statuses, Failures
<1>a. /\ outcomes' \in Seq(Statuses) /\ outcomes' # <<>> /\ Len(outcomes') = Len(outcomes) + 1
      /\ outcomes'[Len(outcomes')] = status /\ Len(outcomes') \in DOMAIN outcomes'
      /\ \A i \in DOMAIN outcomes : i \in DOMAIN outcomes' /\ outcomes'[i] = outcomes[i]
      /\ \A i \in DOMAIN outcomes' : i \in DOMAIN outcomes \/ i = Len(outcomes')
  BY <1>0, Appended DEF CallTypeOK
<1>b. /\ \A i \in DOMAIN outcomes' : outcomes'[i] # "OK"
      /\ Len(outcomes) < policy.max_attempts /\ Len(outcomes) \in Nat
  BY <1>0, <1>a DEF CallTypeOK, Underway, Under
<1>1. method \in DOMAIN Rpcs
  BY <1>0 DEF CallTypeOK, Underway
<1>c. /\ mode \in Modes(method) /\ mode' = mode
      /\ mode = "none" <=> rpc(method) # "HandleCommand"
  BY <1>1, CommandsAre DEF Recorded, Fail
<1>2. /\ pending' \in Nat /\ recorded' \in Nat
      /\ mode = "none" => pending' = pending /\ recorded' = recorded
      /\ recorded' + pending' > 0 => recorded + pending > 0 \/ status = "UNAVAILABLE"
  BY <1>0, <1>c DEF Serve, CallTypeOK, Failures
<1>3. CallTypeOK'
  BY <1>0, <1>2, <1>a, <1>c DEF CallTypeOK
<1>4. Underway'
  BY <1>0, <1>1, <1>a, <1>b, CommandsAre DEF CallTypeOK, Underway, Under
<1>5. recorded' + pending' > 0 => \E i \in DOMAIN outcomes' : outcomes'[i] = "UNAVAILABLE"
  BY <1>0, <1>2, <1>a DEF Recorded, Under
<1>6. Recorded'
  BY <1>0, <1>1, <1>2, <1>5, <1>c, CommandsAre DEF Recorded
<1>7. EndsTruthfully'
  BY <1>0, <1>a, <1>b DEF CallTypeOK, EndsTruthfully
<1>8. RecordedAsSaid'
  <2>1. mode = "none" => recorded' + pending' = 0
    BY <1>2 DEF Recorded
  <2>2. phase' # "returned"
    BY <1>0
  <2>. QED BY <1>5, <1>c, <2>1, <2>2 DEF RecordedAsSaid
<1>. QED BY <1>3, <1>4, <1>6, <1>7, <1>8

LEMMA WakeKeeps == ASSUME Told, Wake PROVE Told'
<1>. USE DEF Told, Wake
<1>1. CallTypeOK'
  BY DEF CallTypeOK, coordinator
<1>2. Underway' /\ Recorded' /\ EndsTruthfully' /\ RecordedAsSaid'
  BY DEF CallTypeOK, Underway, Recorded, EndsTruthfully, RecordedAsSaid, Under, coordinator
<1>. QED BY <1>1, <1>2

LEMMA ProcessKeeps == ASSUME Told, Process PROVE Told'
<1>. USE DEF Told, Process
<1>1. /\ pending \in Nat /\ pending > 0 /\ pending' = pending - 1
      /\ recorded \in Nat /\ recorded' \in {recorded, recorded + 1}
      /\ UNCHANGED <<policy, channel, method, mode, phase, outcomes, delays, error>>
  BY DEF CallTypeOK
<1>2. pending' \in Nat /\ recorded' \in Nat /\ recorded' >= recorded /\ mode # "none"
  BY <1>1 DEF Recorded
<1>. HIDE DEF Process
<1>3. CallTypeOK' /\ Underway' /\ EndsTruthfully'
  BY <1>1, <1>2 DEF CallTypeOK, Underway, EndsTruthfully
<1>4. recorded + pending > 0
  BY <1>1
<1>5. Recorded'
  BY <1>1, <1>2, <1>4 DEF Recorded, Modes
<1>6. RecordedAsSaid'
  <2>1. phase' = phase /\ mode' = mode /\ outcomes' = outcomes /\ policy' = policy
    BY <1>1
  <2>2. recorded > 0 => recorded' > 0
    BY <1>1, <1>2
  <2>. QED BY <1>2, <1>4, <2>1, <2>2 DEF RecordedAsSaid
<1>. QED BY <1>3, <1>5, <1>6

LEMMA NextCallInv == CallInv /\ [Connect]_connecting => CallInv'
<1>. SUFFICES ASSUME CallInv, [Connect]_connecting PROVE CallInv'
  OBVIOUS
<1>1. CASE UNCHANGED connecting
  <2>1. Told'
    BY <1>1 DEF connecting, CallInv, Told, CallTypeOK, Underway, Recorded, EndsTruthfully,
        RecordedAsSaid, coordinator
  <2>2. \A k : compute_delay(k)' = compute_delay(k)
    BY <1>1 DEF connecting, compute_delay, full_delay
  <2>. QED BY <1>1, <2>1, <2>2 DEF connecting, CallInv, Slept
<1>2. CASE Connect
  <2>1. Told'
    BY <1>2, ConnectKeeps, ConnectDirectlyKeeps, CallKeeps, SucceedKeeps, FailKeeps, WakeKeeps,
       ProcessKeeps
    DEF Connect, CallInv
  <2>2. Slept'
    BY <1>2, FailSleeps, SleptKept
  <2>. QED BY <2>1, <2>2 DEF CallInv
<1>. QED BY <1>1, <1>2

LEMMA CallInvariant == ConnectSpec => []CallInv
BY InitCallInv, NextCallInv, PTL DEF ConnectSpec

-----------------------------------------------------------------------------
\* execute returns after a success, or where it was to make no attempt; it
\* throws the last error after all attempts failed; connect leaves a channel.
THEOREM ExecuteTellsTheTruth == ConnectSpec => []EndsTruthfully
<1>1. CallInv => EndsTruthfully
  BY DEF CallInv, Told
<1>. QED BY <1>1, CallInvariant, PTL

\* However often a call is tried, wherever connections break and whatever the
\* coordinator still works on: an execute that returned to a caller who waited
\* has recorded the command, and one that threw without losing a connection has
\* left nothing of it.
THEOREM SuccessMeansRecorded == ConnectSpec => []RecordedAsSaid
<1>1. CallInv => RecordedAsSaid
  BY DEF CallInv, Told
<1>. QED BY <1>1, CallInvariant, PTL

\* Whatever fails and whatever jitter draws, there is a sleep between any two
\* attempts and none after the last, no longer than max_delay, and no shorter
\* than the one before as long as max_delay does not cut it short.
THEOREM WaitsLonger == ConnectSpec => []BacksOff
<1>1. CallInv => BacksOff
  <2>. SUFFICES ASSUME CallInv PROVE BacksOff
    OBVIOUS
  <2>1. /\ CallTypeOK /\ Slept /\ policy.max_delay \in Nat
        /\ delays \in Seq(Nat) /\ DOMAIN delays \subseteq Nat \ {0}
        /\ \A k \in DOMAIN delays : delays[k] \in compute_delay(k - 1)
    BY ConnectingAssumption DEF CallInv, Told, Slept, CallTypeOK
  <2>2. ASSUME NEW k \in DOMAIN delays
        PROVE  delays[k] <= policy.max_delay
    <3>1. k - 1 \in Nat /\ delays[k] \in compute_delay(k - 1)
      BY <2>1
    <3>2. /\ delays[k] \in Nat /\ delays[k] <= full_delay(k - 1)
          /\ full_delay(k - 1) \in Nat /\ full_delay(k - 1) <= policy.max_delay
      BY <2>1, <3>1, FullDelays, Sleeps
    <3>. QED BY <2>1, <3>2
  <2>3. ASSUME NEW k \in DOMAIN delays \ {1}, 2 * full_delay(k - 2) <= policy.max_delay
        PROVE  delays[k - 1] <= delays[k]
    <3>1. k - 1 \in DOMAIN delays /\ k - 2 \in Nat /\ (k - 2) + 1 = k - 1 /\ (k - 1) - 1 = k - 2
      BY <2>1
    <3>2. delays[k - 1] \in compute_delay(k - 2) /\ delays[k] \in compute_delay((k - 2) + 1)
      BY <2>1, <3>1
    <3>. QED BY <2>1, <2>3, <3>1, <3>2, SleepsGrow
  <2>4. /\ phase \in {"trying", "sleeping"} => Len(delays) = Len(outcomes)
        /\ phase = "threw" => Len(delays) = Len(outcomes) - 1
    BY <2>1 DEF Slept, Under
  <2>. QED BY <2>2, <2>3, <2>4 DEF BacksOff
<1>. QED BY <1>1, CallInvariant, PTL
=============================================================================
