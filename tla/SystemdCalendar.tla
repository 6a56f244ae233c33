--------------------------- MODULE SystemdCalendar ---------------------------
(***************************************************************************)
(* The conversion of a calendar of systemd to an entry of cron              *)
(* (dcron.systemd_to_cron), word by word and then field by field, beside    *)
(* what both calendars mean.  A field is a list of numbers with or without  *)
(* a step, the empty list for "*".                                          *)
(***************************************************************************)
EXTENDS Naturals, Sequences

CONSTANT Listed  \* bound: the numbers in lists of two elements

ASSUME CalendarAssumption == Listed \subseteq Nat

Fields == 1..4   \* minute, hour, day, month
Low == <<0, 0, 1, 1>>
Size == <<60, 24, 31, 12>>
Weekdays == 0..6

Elements(numbers) == {<<x>> : x \in numbers} \cup {<<x, b>> : x, b \in numbers}

\* The inputs: any element alone in its field, or two of a few numbers.
Lists(f) == {<<e>> : e \in Elements(0..(Low[f] + Size[f]))}
            \cup {<<e, d>> : e, d \in Elements(Listed)}

Star == [f \in Fields |-> <<>>]
At(x) == <<<<x>>>>
OneField(lists) == {[Star EXCEPT ![f] = list] : f \in Fields, list \in lists}
Days == {{}, {<<0>>}, {<<1>>, <<6>>}, {<<1, 4>>, <<0>>}, {<<5, 0>>}, {<<0, 2>>}}
Symbols == {"minutely", "hourly", "daily", "weekly", "monthly", "yearly"}
Specs == [symbol : {"none"}, date : {TRUE}, time : {TRUE}, year : {FALSE}, seconds : {FALSE},
          fields : OneField(UNION {Lists(f) : f \in Fields}), dow : {{}}]
         \cup [symbol : {"none"}, date : BOOLEAN, time : BOOLEAN, year : BOOLEAN, seconds : BOOLEAN,
               fields : OneField({At(x) : x \in Listed}), dow : Days]
         \cup [symbol : Symbols, date : {FALSE}, time : {FALSE}, year : {FALSE}, seconds : {FALSE},
               fields : {Star}, dow : {{}}]

VARIABLES
  calendar,  \* spec: a symbol; or the days of the week, a date and a time if they are
             \* given, their fields, and a year and seconds if there are
  cron,      \* the fields of the result
  cronDow,   \* its days of the week, alone or from one to another; none for "*"
  field,     \* the field to convert next
  outcome    \* "reading", "converted" or "raised"

calendarVars == <<calendar, cron, cronDow, field, outcome>>

CalendarInit ==
  /\ calendar \in Specs
  /\ cron = Star /\ cronDow = {} /\ field = 0 /\ outcome = "words"

-----------------------------------------------------------------------------
\* symbolic_dict: minute, hour, day and month of the names; and a day of the week.
Symbolic(symbol) ==
  CASE symbol = "minutely" -> Star
    [] symbol = "hourly" -> [Star EXCEPT ![1] = At(0)]
    [] symbol \in {"daily", "weekly"} -> [Star EXCEPT ![1] = At(0), ![2] = At(0)]
    [] symbol = "monthly" -> [Star EXCEPT ![1] = At(0), ![2] = At(0), ![3] = At(1)]
    [] symbol = "yearly" -> <<At(0), At(0), At(1), At(1)>>
SymbolicDow(symbol) == IF symbol = "weekly" THEN {<<0>>} ELSE {}

ReadSymbol ==
  /\ outcome = "words" /\ calendar.symbol # "none"
  /\ cron' = Symbolic(calendar.symbol) /\ cronDow' = SymbolicDow(calendar.symbol)
  /\ outcome' = "converted"
  /\ UNCHANGED <<calendar, field>>

\* The days of the week come first; what has a colon is the time, midnight if there is
\* none, and there may be a date before it.  Without a word there is no calendar.
ReadWords ==
  /\ outcome = "words" /\ calendar.symbol = "none"
  /\ cron' = [f \in Fields |-> CASE f <= 2 /\ ~calendar.time -> At(0)
                                 [] f > 2 /\ ~calendar.date -> <<>>
                                 [] OTHER -> calendar.fields[f]]
  /\ cronDow' = calendar.dow
  /\ outcome' = IF calendar.dow # {} \/ calendar.date \/ calendar.time THEN "reading" ELSE "raised"
  /\ UNCHANGED <<calendar, field>>

\* Years and seconds are not supported, nor a day of the month with one of the week.
CheckSpec ==
  /\ outcome = "reading" /\ field = 0
  /\ outcome' = IF \/ calendar.date /\ calendar.year
                   \/ calendar.time /\ calendar.seconds
                   \/ cronDow # {} /\ cron[3] # <<>>
                THEN "raised" ELSE outcome
  /\ field' = 1
  /\ UNCHANGED <<calendar, cron, cronDow>>

\* Mutant: the range may end one too far.
Extent_OffByOne(x, b) == ((Size[field] - (x - Low[field])) \div b) * b

\* From the first to the last value of x/b.
Extent(x, b) == ((Size[field] - (x - Low[field]) - 1) \div b) * b

InRange(x) == x >= Low[field] /\ x - Low[field] < Size[field]

Converts(element) ==
  /\ InRange(element[1])
  /\ Len(element) = 2 => element[2] > 0 /\ Extent(element[1], element[2]) > 0

\* A step becomes a range with a step, which replaces the whole field.
ConvertField ==
  /\ outcome = "reading" /\ field \in Fields
  /\ LET list == cron[field]
         stepped == {k \in DOMAIN list : Len(list[k]) = 2}
         last == list[CHOOSE k \in stepped : \A j \in stepped : j <= k]
     IN IF \E k \in DOMAIN list : ~Converts(list[k])
        THEN outcome' = "raised" /\ UNCHANGED <<cron, field>>
        ELSE /\ cron' = IF stepped = {} THEN cron
                        ELSE [cron EXCEPT ![field] =
                                <<<<last[1], last[1] + Extent(last[1], last[2]), last[2]>>>>]
             /\ field' = field + 1
             /\ outcome' = IF field = 4 THEN "converted" ELSE outcome
  /\ UNCHANGED <<calendar, cronDow>>

CalendarNext == ReadSymbol \/ ReadWords \/ CheckSpec \/ ConvertField

CalendarSpec == CalendarInit /\ [][CalendarNext]_calendarVars

-----------------------------------------------------------------------------
(* What the calendars mean. *)

TimesOf(f) == Low[f]..(Low[f] + Size[f] - 1)

\* A date that is not given is any, and a time midnight.
Meant(f) == CASE calendar.symbol # "none" -> Symbolic(calendar.symbol)[f]
              [] calendar.symbol = "none" /\ f <= 2 /\ ~calendar.time -> At(0)
              [] calendar.symbol = "none" /\ f > 2 /\ ~calendar.date -> <<>>
              [] OTHER -> calendar.fields[f]

Matches(v, element) ==
  IF Len(element) = 1 THEN v = element[1]
  ELSE v >= element[1] /\ (v - element[1]) % element[2] = 0

SystemdTimes(f) ==
  {v \in TimesOf(f) : Meant(f) = <<>> \/ \E k \in DOMAIN Meant(f) : Matches(v, Meant(f)[k])}

\* A range must lie within the field: some crons refuse one that does not.
Covered(element) ==
  IF Len(element) = 1 THEN {element[1]}
  ELSE {v \in element[1]..element[2] : (v - element[1]) % element[3] = 0}

CronTimes(f) ==
  IF cron[f] = <<>> THEN TimesOf(f) ELSE UNION {Covered(cron[f][k]) : k \in DOMAIN cron[f]}

\* Some crons ignore the day of the month if a day of the week is given.
CronDays ==
  LET weekdays == UNION {d[1]..d[Len(d)] : d \in cronDow} IN
  {date \in TimesOf(3) \X Weekdays :
     IF cronDow = {} THEN date[1] \in CronTimes(3) ELSE date[2] \in weekdays}

\* The week of systemd begins on Monday.
Place(weekday) == (weekday + 6) % 7
SystemdDays ==
  LET weekdays == {w \in Weekdays : \E d \in calendar.dow :
                     Place(w) \in Place(d[1])..Place(d[Len(d)])}
  IN {date \in TimesOf(3) \X Weekdays :
        date[1] \in SystemdTimes(3) /\ (calendar.dow = {} \/ date[2] \in weekdays)}

\* A converted calendar runs the command at the very same times, in every field and on
\* the same days, whichever way a cron reads it.  Excepted are fields where an element
\* with a step is not alone, ranges that begin or end on Sunday and the name "weekly".
SameTimes ==
  (/\ outcome = "converted" /\ calendar.symbol # "weekly"
   /\ \A d \in calendar.dow : 0 \in {d[1], d[Len(d)]} => Len(d) = 1
   /\ \A f \in Fields : LET list == calendar.fields[f] IN
        Len(list) > 1 => \A k \in DOMAIN list : Len(list[k]) = 1) =>
    (\A f \in Fields : CronTimes(f) = SystemdTimes(f)) /\ CronDays = SystemdDays
=============================================================================
