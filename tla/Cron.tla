--------------------------------- MODULE Cron ---------------------------------
(***************************************************************************)
(* The cron visualiser: cron.ts and CronPage.tsx. An expression is a list  *)
(* of fields, a field a list of terms, and a term a range with or without  *)
(* a step. A month's or weekday's name is a spelling of its number and is  *)
(* modelled by it; text that is no number is modelled by one out of range. *)
(* The clock is parameterised by the length of its units, and an instant   *)
(* is a number of seconds since the calendar's first day.                  *)
(***************************************************************************)
EXTENDS Integers, Sequences, FiniteSets

CONSTANTS
  Expressions,       \* bound: what the user types
  SecondsPerMinute, MinutesPerHour, HoursPerDay,
  FirstDay,          \* the calendar's first day: [year, month, date, weekday]
  CalendarDays,      \* bound: the days of the calendar
  ClockChange,       \* the instant at which local time leaps one hour ahead
  MinuteIterations,  \* maxIterations without and with a seconds field
  SecondIterations,
  Upcoming,          \* how many occurrences the page asks for
  Instants           \* bound: when the user types

HourLength == SecondsPerMinute * MinutesPerHour
DayLength == HourLength * HoursPerDay

\* A term steps by one unless a step is written.
Terms ==
  {term \in [range : {"all", "one", "span"}, from : Int, to : Int, stepped : BOOLEAN, step : Int] :
     term.stepped \/ term.step = 1}

\* The calendar reaches as far as any search.
ASSUME CronAssumption ==
  /\ {SecondsPerMinute, MinutesPerHour, HoursPerDay, Upcoming} \subseteq Nat \ {0}
  /\ {CalendarDays, MinuteIterations, SecondIterations} \subseteq Nat
  /\ Instants \subseteq Nat /\ ClockChange \in Int
  /\ \A t \in Instants, n \in {(MinuteIterations + 1) * SecondsPerMinute, SecondIterations + 1} :
       t + n + HourLength < CalendarDays * DayLength
  /\ Expressions \subseteq [shorthand : STRING, fields : Seq(Seq(Terms))]

VARIABLES
  expression, \* what the field holds: [shorthand, fields]
  asked       \* the instant of the render that parsed it

cronVars == <<expression, asked>>

-------------------------------------------------------------------------------
(* Parsing *)

\* FieldSpec: FIVE_FIELD and SIX_FIELD.
FiveFields ==
  << [name |-> "minute", min |-> 0, max |-> MinutesPerHour - 1],
     [name |-> "hour", min |-> 0, max |-> HoursPerDay - 1],
     [name |-> "dayOfMonth", min |-> 1, max |-> 31],
     [name |-> "month", min |-> 1, max |-> 12],
     [name |-> "dayOfWeek", min |-> 0, max |-> 7] >>
SixFields == << [name |-> "second", min |-> 0, max |-> SecondsPerMinute - 1] >> \o FiveFields

Star == [range |-> "all", from |-> 0, to |-> 0, stepped |-> FALSE, step |-> 1]
Just(v) == [Star EXCEPT !.range = "one", !.from = v]
Span(v, w) == [Star EXCEPT !.range = "span", !.from = v, !.to = w]
Every(term, n) == [term EXCEPT !.stepped = TRUE, !.step = n]

Shorthands ==
  [yearly |-> << <<Just(0)>>, <<Just(0)>>, <<Just(1)>>, <<Just(1)>>, <<Star>> >>,
   monthly |-> << <<Just(0)>>, <<Just(0)>>, <<Just(1)>>, <<Star>>, <<Star>> >>,
   weekly |-> << <<Just(0)>>, <<Just(0)>>, <<Star>>, <<Star>>, <<Just(0)>> >>,
   daily |-> << <<Just(0)>>, <<Just(0)>>, <<Star>>, <<Star>>, <<Star>> >>,
   hourly |-> << <<Just(0)>>, <<Star>>, <<Star>>, <<Star>>, <<Star>> >>]

\* parseCron's normalized: a shorthand stands for its fields, "" for none.
Normalized(e) ==
  IF e.shorthand \in DOMAIN Shorthands THEN Shorthands[e.shorthand] ELSE e.fields

Readable(v, spec) == v \in spec.min .. spec.max

\* What makes expandTerm throw.
TermFails(term, spec) ==
  \/ term.stepped /\ term.step < 1
  \/ term.range # "all" /\ ~Readable(term.from, spec)
  \/ term.range = "span" /\ (~Readable(term.to, spec) \/ term.to < term.from)

\* A bare value with a step runs to the end of the field.
ExpandTerm(term, spec) ==
  LET start == IF term.range = "all" THEN spec.min ELSE term.from
      end == CASE term.range = "span" -> term.to
               [] term.range = "one" /\ ~term.stepped -> term.from
               [] OTHER -> spec.max
      step == IF term.stepped THEN term.step ELSE 1
  IN {v \in start .. end : (v - start) % step = 0}

\* Mutant: Sunday written as 7 is kept.
FieldValuesWithSeven(field, spec) ==
  UNION {ExpandTerm(field[i], spec) : i \in DOMAIN field}

\* parseField's values: Sunday is 0, whether written 0 or 7.
FieldValues(field, spec) ==
  LET all == UNION {ExpandTerm(field[i], spec) : i \in DOMAIN field}
  IN IF spec.name = "dayOfWeek" /\ 7 \in all THEN (all \ {7}) \cup {0} ELSE all

FieldFails(field, spec) == \E i \in DOMAIN field : TermFails(field[i], spec)

\* parseCron: the fields by name, with what each matches; no field when the
\* expression is refused, which @reboot, with no fields of its own, always is.
Specs(fields) == IF Len(fields) = 6 THEN SixFields ELSE FiveFields
ParseCron(e) ==
  LET fields == Normalized(e)
      specs == Specs(fields)
  IN IF \/ Len(fields) \notin {5, 6}
        \/ \E i \in DOMAIN fields : FieldFails(fields[i], specs[i])
       THEN <<>>
       ELSE [name \in {specs[i].name : i \in DOMAIN specs} |->
               LET i == CHOOSE j \in DOMAIN specs : specs[j].name = name
               IN [values |-> FieldValues(fields[i], specs[i]),
                   wildcard |-> fields[i] = <<Star>>]]

Parsed(s) == s # <<>>
HasSeconds(s) == "second" \in DOMAIN s

\* describeSchedule: which clauses the sentence has, in order; the wording,
\* and the lists of values it recites, are left out.
DescribeSchedule(s) ==
  << IF s["hour"].wildcard
       THEN IF s["minute"].wildcard THEN "every minute" ELSE "past every hour"
       ELSE IF Cardinality(s["minute"].values) = 1 THEN "times" ELSE "minutes of hours" >>
  \o (IF ~s["dayOfMonth"].wildcard /\ ~s["dayOfWeek"].wildcard THEN <<"date or weekday">>
      ELSE IF ~s["dayOfMonth"].wildcard THEN <<"date">>
      ELSE IF ~s["dayOfWeek"].wildcard THEN <<"weekday">> ELSE <<>>)
  \o (IF s["month"].wildcard THEN <<>> ELSE <<"months">>)

\* scheduleNotes, without the one on time zones that is always there.
ScheduleNotes(s) ==
  {note \in {"days are alternatives", "short months", "every minute"} :
     CASE note = "days are alternatives" ->
            ~s["dayOfMonth"].wildcard /\ ~s["dayOfWeek"].wildcard
       [] note = "short months" ->
            ~s["dayOfMonth"].wildcard /\ \E d \in s["dayOfMonth"].values : d > 28
       [] OTHER -> s["minute"].wildcard /\ s["hour"].wildcard}

-------------------------------------------------------------------------------
(* The calendar and the local clock: the JavaScript Date *)

MonthLength(year, month) ==
  CASE month = 2 -> IF year % 4 = 0 /\ (year % 100 # 0 \/ year % 400 = 0) THEN 29 ELSE 28
    [] month \in {4, 6, 9, 11} -> 30
    [] OTHER -> 31

ASSUME CalendarAssumption ==
  /\ FirstDay \in [year : Nat, month : 1 .. 12, date : 1 .. 31, weekday : 0 .. 6]
  /\ FirstDay.date <= MonthLength(FirstDay.year, FirstDay.month)

NextDay(d) ==
  LET last == d.date = MonthLength(d.year, d.month)
  IN [year |-> IF last /\ d.month = 12 THEN d.year + 1 ELSE d.year,
      month |-> IF last THEN (d.month % 12) + 1 ELSE d.month,
      date |-> IF last THEN 1 ELSE d.date + 1,
      weekday |-> (d.weekday + 1) % 7]

Calendar[n \in 0 .. CalendarDays] == IF n = 0 THEN FirstDay ELSE NextDay(Calendar[n - 1])

\* getSeconds, getMinutes, getHours, getDate, getMonth and getDay of an instant.
LocalReading(t) ==
  LET l == IF t < ClockChange THEN t ELSE t + HourLength
      day == Calendar[l \div DayLength]
  IN [second |-> l % SecondsPerMinute,
      minute |-> (l \div SecondsPerMinute) % MinutesPerHour,
      hour |-> (l \div HourLength) % HoursPerDay,
      dayOfMonth |-> day.date, month |-> day.month, dayOfWeek |-> day.weekday]

-------------------------------------------------------------------------------
(* Projection *)

Matches(s, t) ==
  LET now == LocalReading(t)
      Has(name) == now[name] \in s[name].values
  IN /\ \A name \in DOMAIN s \ {"dayOfMonth", "dayOfWeek"} : Has(name)
     /\ \/ s["dayOfMonth"].wildcard /\ s["dayOfWeek"].wildcard
        \/ ~s["dayOfWeek"].wildcard /\ Has("dayOfWeek")
        \/ ~s["dayOfMonth"].wildcard /\ Has("dayOfMonth")

StepSeconds(s) == IF HasSeconds(s) THEN 1 ELSE SecondsPerMinute
MaxIterations(s) == IF HasSeconds(s) THEN SecondIterations ELSE MinuteIterations

\* Where nextOccurrences starts: strictly after `from`.
FirstCursor(s, from) == (from \div StepSeconds(s) + 1) * StepSeconds(s)

\* One turn of nextOccurrences' loop, which ends when there are enough results.
TakeTurn(results, s, cursor, count) ==
  IF Len(results) < count /\ Matches(s, cursor) THEN Append(results, cursor) ELSE results

\* The results after each turn.
Search(s, first, count) ==
  LET results[n \in 0 .. MaxIterations(s)] ==
        IF n = 0 THEN <<>> ELSE TakeTurn(results[n - 1], s, first + (n - 1) * StepSeconds(s), count)
  IN results

NextOccurrences(s, from, count) ==
  Search(s, FirstCursor(s, from), count)[MaxIterations(s)]

-------------------------------------------------------------------------------
(* The page *)

CronInit == expression \in Expressions /\ asked \in Instants

\* setExpression, typed or by an example: both memos are computed anew, the
\* projection from the present; time alone recomputes neither.
SetExpression ==
  /\ \E e \in Expressions : expression' = e
  /\ \E t \in Instants : t >= asked /\ asked' = t

-------------------------------------------------------------------------------
(* Properties *)

\* What an expression means, read off its terms: a term covers a value of its
\* range that the step reaches, and in the weekday field 0 and 7 are one day.
Covers(term, spec, v) ==
  \E n \in 0 .. spec.max :
    LET start == IF term.range = "all" THEN spec.min ELSE term.from
    IN /\ v = start + n * term.step
       /\ term.range = "one" => (term.stepped \/ n = 0)
       /\ term.range = "span" => v <= term.to

Fires(fields, t) ==
  LET specs == Specs(fields)
      now == LocalReading(t)
      Spellings(name) == IF name = "dayOfWeek" /\ now[name] = 0 THEN {0, 7} ELSE {now[name]}
      Fits(i) == \E j \in DOMAIN fields[i], v \in Spellings(specs[i].name) :
                   Covers(fields[i][j], specs[i], v)
      Field(name) == CHOOSE i \in DOMAIN specs : specs[i].name = name
      Days == {i \in {Field("dayOfMonth"), Field("dayOfWeek")} : fields[i] # <<Star>>}
  IN /\ Len(fields) = 5 => t % SecondsPerMinute = 0
     /\ \A i \in DOMAIN specs \ {Field("dayOfMonth"), Field("dayOfWeek")} : Fits(i)
     /\ Days # {} => \E i \in Days : Fits(i)

\* The occurrences listed are the next ones: in order, each at an instant at
\* which the expression as written fires, none of them past, and none between
\* them left out, up to the end of the search. Expanding steps and ranges, the
\* two Sundays, the rule that restricted dates and weekdays are alternatives,
\* months of different lengths and the clock's change all have to agree.
OccurrencesAreTheNextOnes ==
  LET s == ParseCron(expression)
      listed == NextOccurrences(s, asked, Upcoming)
      end == FirstCursor(s, asked) + MaxIterations(s) * StepSeconds(s)
      due == {t \in asked + 1 .. end - 1 : Fires(Normalized(expression), t)}
  IN Parsed(s) =>
       /\ \A i \in DOMAIN listed : listed[i] \in due
       /\ \A i, j \in DOMAIN listed : i < j => listed[i] < listed[j]
       /\ \A t \in due : \/ \E i \in DOMAIN listed : listed[i] = t
                         \/ Len(listed) = Upcoming /\ t > listed[Upcoming]

===============================================================================
