--------------------------- MODULE RepeatSchedules ---------------------------
(* The calendar of repeating issues (internal/model/repeat.go): how a rule is  *)
(* read and stored, the dates it falls on, and which repetition follows when   *)
(* one is completed.                                                           *)
(*                                                                             *)
(* A date is the number of days since 1 January 2001, a Monday; the weekdays   *)
(* are 0 to 6 from Monday.                                                     *)
EXTENDS Integers, FiniteSets, Sequences, FiniteSetsExt, SequencesExt

CONSTANTS
    RuleText,       \* what people send
    StartsOn,       \* dates repeats start on
    Lateness,       \* days from a repetition's date to its completion, below 0 if early
    Moves,          \* bound on the completions and changes of a series
    MaxRepeatInterval, MaxRepeatSkippedDates, MaxRepeatPlanSteps

\* The series' row, and the row of its newest repetition; then history, which
\* only the properties read.
VARIABLES
    stored,         \* rule, as text, and starts_on
    phase,          \* "live" if repeat_current; if not, why
    occurrence,     \* repeat_occurrence, or NoDate before there is a series
    skipped,        \* repeat_skipped_count and repeat_skipped_dates
    asked,          \* the rule that was asked for last
    followed,       \* the completion that made the newest repetition
    changed,        \* whether the repeat was set up or changed since
    moves           \* how many completions and changes there were

Frequency == {"DAILY", "WEEKLY", "MONTHLY", "YEARLY", "CRON"}

ASSUME RepeatsAssumption ==
    /\ RuleText \subseteq [freq : Frequency, interval : Int,
                          days : SUBSET (Int \X (0..6)), monthDay : Int, month : Int]
    /\ \A text \in RuleText : IsFiniteSet(text.days)
    /\ StartsOn \subseteq Nat /\ Lateness \subseteq Int
    /\ {MaxRepeatInterval, MaxRepeatSkippedDates, MaxRepeatPlanSteps} \subseteq Nat
    /\ Moves \in Nat \ {0}

repeatVars == <<stored, phase, occurrence, skipped, asked, followed, changed, moves>>

NoDate == -1

-------------------------------------------------------------------------------
(* The calendar *)

Leap(y) == y % 4 = 0 /\ (y % 100 # 0 \/ y % 400 = 0)

daysInMonth(y, m) ==
    CASE m = 2 -> IF Leap(y) THEN 29 ELSE 28
      [] m \in {4, 6, 9, 11} -> 30
      [] OTHER -> 31

DaysBefore(y) ==
    365 * (y - 2001) + (y - 1) \div 4 - 500 - ((y - 1) \div 100 - 20)
      + ((y - 1) \div 400 - 5)

civilDate(y, m, day) ==
    DaysBefore(y) + <<0, 31, 59, 90, 120, 151, 181, 212, 243, 273, 304, 334>>[m]
      + (IF m > 2 /\ Leap(y) THEN 1 ELSE 0) + day - 1

Year(d) ==
    CHOOSE y \in (2001 + d \div 366)..(2001 + d \div 365) :
      DaysBefore(y) <= d /\ d < DaysBefore(y + 1)
Month(d) ==
    LET y == Year(d) IN
    CHOOSE m \in (d - DaysBefore(y)) \div 31 + 1..12 :
      civilDate(y, m, 1) <= d /\ d < civilDate(y, m, 1) + daysInMonth(y, m)
Day(d) == d - civilDate(Year(d), Month(d), 1) + 1
Weekday(d) == d % 7
LastDay(d) == daysInMonth(Year(d), Month(d))

weekIndex(d) == d \div 7
monthIndex(d) == Year(d) * 12 + Month(d) - 1

-------------------------------------------------------------------------------
(* Rules and their text: FREQ, INTERVAL, BYDAY as pairs of an ordinal, 0 for   *)
(* none, and a weekday, BYMONTHDAY and BYMONTH; a key left out is 0 or {}.     *)

Shorthand(freq) == [freq |-> freq, interval |-> 0, days |-> {}, monthDay |-> 0,
                    month |-> 0]

ValidText(t) ==
    /\ t.interval \in 0..MaxRepeatInterval
    /\ t.freq # "WEEKLY" => \A p \in t.days : p[1] # 0
    /\ CASE t.freq \in {"DAILY", "CRON"} -> t.days = {} /\ t.monthDay = 0 /\ t.month = 0
         [] t.freq = "WEEKLY" ->
              t.monthDay = 0 /\ t.month = 0 /\ \A p \in t.days : p[1] = 0
         [] t.freq = "MONTHLY" ->
              /\ t.month = 0 /\ Cardinality(t.days) <= 1
              /\ t.days = {} \/ t.monthDay = 0
              /\ \A p \in t.days : p[1] \in {-1} \cup 1..4
              /\ t.monthDay \in {-1} \cup 0..31
         [] t.freq = "YEARLY" ->
              /\ t.days = {} /\ (t.month = 0) = (t.monthDay = 0)
              /\ t.month # 0 => t.month \in 1..12 /\
                                t.monthDay \in 1..daysInMonth(2000, t.month)

ParseRepeatRule(t) ==
    LET nth == IF t.freq = "MONTHLY" /\ t.days # {}
                 THEN CHOOSE p \in t.days : TRUE ELSE <<0, 0>> IN
    [freq |-> t.freq, interval |-> IF t.interval = 0 THEN 1 ELSE t.interval,
     weekdays |-> IF t.freq = "WEEKLY" THEN {p[2] : p \in t.days} ELSE {},
     ordinal |-> nth[1], weekday |-> nth[2],
     monthDay |-> t.monthDay, month |-> t.month]

\* Mutant: a yearly rule takes its month from the start date, and no day.
AnchoredToMonth(r, startsOn) ==
    IF r.freq = "YEARLY" /\ r.month = 0 THEN [r EXCEPT !.month = Month(startsOn)] ELSE r

Anchored(r, startsOn) ==
    CASE r.freq = "WEEKLY" /\ r.weekdays = {} ->
           [r EXCEPT !.weekdays = {Weekday(startsOn)}]
      [] r.freq = "MONTHLY" /\ r.monthDay = 0 /\ r.ordinal = 0 ->
           [r EXCEPT !.monthDay = Day(startsOn)]
      [] r.freq = "YEARLY" /\ r.month = 0 ->
           [r EXCEPT !.month = Month(startsOn), !.monthDay = Day(startsOn)]
      [] OTHER -> r

\* String
Text(r) ==
    [freq |-> r.freq, interval |-> IF r.interval > 1 THEN r.interval ELSE 0,
     days |-> CASE r.freq = "WEEKLY" -> {<<0, day>> : day \in r.weekdays}
                [] r.freq = "MONTHLY" /\ r.ordinal # 0 -> {<<r.ordinal, r.weekday>>}
                [] OTHER -> {},
     monthDay |-> IF r.freq \in {"MONTHLY", "YEARLY"} /\ r.ordinal = 0
                    THEN r.monthDay ELSE 0,
     month |-> IF r.freq = "YEARLY" THEN r.month ELSE 0]

-------------------------------------------------------------------------------
(* The dates of a schedule *)

Least(dates) == IF dates = {} THEN NoDate ELSE Min(dates)

monthlyDate(r, y, m) ==
    LET first == civilDate(y, m, 1)
        lastDay == civilDate(y, m, daysInMonth(y, m)) IN
    CASE r.ordinal = -1 -> lastDay - ((Weekday(lastDay) - r.weekday + 7) % 7)
      [] r.ordinal > 0 ->
           first + ((r.weekday - Weekday(first) + 7) % 7) + (r.ordinal - 1) * 7
      [] r.ordinal = 0 /\ r.monthDay = -1 -> lastDay
      [] OTHER -> Min({civilDate(y, m, r.monthDay), lastDay})

\* A cron expression of 29 February.  The library gives up after five years.
cronNext(start) ==
    Least({d \in {civilDate(y, 2, 29) : y \in {y \in Year(start)..Year(start) + 5 : Leap(y)}} :
             d >= start})

FirstOnOrAfter(r, startsOn, from) ==
    LET start == Max({from, startsOn})
        n == r.interval
        months == {m \in monthIndex(start)..monthIndex(start) + 2 * n + 1 :
                     (m - monthIndex(startsOn)) % n = 0}
        years == {y \in Year(start)..Year(start) + 2 * n + 1 :
                    (y - Year(startsOn)) % n = 0}
    IN  CASE r.freq = "DAILY" -> startsOn + ((start - startsOn + n - 1) \div n) * n
          [] r.freq = "WEEKLY" ->
               Least({d \in start..start + 7 * (n + 1) - 1 :
                        /\ (weekIndex(d) - weekIndex(startsOn)) % n = 0
                        /\ Weekday(d) \in r.weekdays})
          [] r.freq = "MONTHLY" ->
               Least({d \in {monthlyDate(r, m \div 12, (m % 12) + 1) : m \in months} :
                        d >= start})
          [] r.freq = "YEARLY" ->
               Least({d \in {civilDate(y, r.month, Min({r.monthDay, daysInMonth(y, r.month)})) :
                               y \in years} : d >= start})
          [] r.freq = "CRON" -> cronNext(start)

\* Mutant: the next repetition may be on the same date.
NextFrom(r, startsOn, d) == FirstOnOrAfter(r, startsOn, d)

NextAfter(r, startsOn, d) == FirstOnOrAfter(r, startsOn, d + 1)

Missed(d, completedOn) == d # NoDate /\ d < completedOn

\* The dates a plan looks at, one after the other, until one has not passed.
PlanDates(r, startsOn, current, completedOn) ==
    LET date[n \in 0..MaxRepeatPlanSteps] ==
          IF n = 0 THEN NextAfter(r, startsOn, current)
          ELSE IF Missed(date[n - 1], completedOn)
                 THEN NextAfter(r, startsOn, date[n - 1]) ELSE date[n - 1]
    IN  date

\* PlanAfterCompletion: the next date that has not passed, and those that have.
PlanAfterCompletion(r, startsOn, current, completedOn) ==
    LET date == PlanDates(r, startsOn, current, completedOn)
        passed == {n \in 0..MaxRepeatPlanSteps - 1 : Missed(date[n], completedOn)}
        next == date[Cardinality(passed)]
    IN  [next |-> IF Missed(next, completedOn)
                    THEN FirstOnOrAfter(r, startsOn, completedOn) ELSE next,
         skipped |-> [n \in 1..Cardinality(passed) |-> date[n - 1]]]

-------------------------------------------------------------------------------
(* A series *)

NothingSkipped == [count |-> 0, dates |-> <<>>]

NoSchedule == [text |-> Shorthand("DAILY"), startsOn |-> NoDate]

NoCompletion == [after |-> NoDate, on |-> NoDate, rule |-> ParseRepeatRule(NoSchedule.text),
                 startsOn |-> NoDate, next |-> NoDate]

\* applyIssueRepeat: the rule is stored with its start date filled in.  Changing a
\* repeat, or picking one up that was stopped, keeps what the repetition skipped.
SetRepeat(text, startsOn) ==
    /\ moves < Moves
    /\ ValidText(text)
    /\ LET rule == Anchored(ParseRepeatRule(text), startsOn)
           first == FirstOnOrAfter(rule, startsOn, startsOn) IN
         /\ first # NoDate
         /\ occurrence' = first
         /\ stored' = [text |-> Text(rule), startsOn |-> startsOn]
         /\ asked' = rule
    /\ phase' = "live" /\ changed' = TRUE /\ moves' = moves + 1
    /\ UNCHANGED <<skipped, followed>>

\* stopIssueRepeat
StopRepeat ==
    /\ phase = "live"
    /\ phase' = "stopped"
    /\ UNCHANGED <<stored, occurrence, skipped, asked, followed, changed, moves>>

\* advanceIssueRepeat, of a live repetition completed on a date.  A schedule with
\* no more dates leaves the completed repetition the newest.
Complete(completedOn) ==
    /\ phase = "live" /\ moves < Moves
    /\ LET rule == Anchored(ParseRepeatRule(stored.text), stored.startsOn)
           plan == PlanAfterCompletion(rule, stored.startsOn, occurrence, completedOn)
           named == Min({Len(plan.skipped), MaxRepeatSkippedDates}) IN
         IF plan.next = NoDate
         THEN phase' = "ended" /\ UNCHANGED <<occurrence, skipped, followed, changed>>
         ELSE /\ phase' = "live"
              /\ occurrence' = plan.next
              /\ skipped' = [count |-> Len(plan.skipped),
                             dates |-> SubSeq(plan.skipped, 1, named)]
              /\ followed' = [after |-> occurrence, on |-> completedOn, rule |-> asked,
                              startsOn |-> stored.startsOn, next |-> plan.next]
              /\ changed' = FALSE
    /\ moves' = moves + 1
    /\ UNCHANGED <<stored, asked>>

-------------------------------------------------------------------------------
RepeatsInit ==
    /\ stored = NoSchedule /\ asked = ParseRepeatRule(NoSchedule.text)
    /\ phase = "none" /\ occurrence = NoDate
    /\ skipped = NothingSkipped /\ followed = NoCompletion
    /\ changed = FALSE /\ moves = 0

\* A repeat starts on a date that is given, or today, or when a live one is
\* changed on the date of its repetition.
RepeatsNext ==
    \/ \E text \in RuleText, startsOn \in StartsOn : SetRepeat(text, startsOn)
    \/ \E text \in RuleText : phase = "live" /\ SetRepeat(text, occurrence)
    \/ StopRepeat
    \/ \E late \in Lateness : occurrence + late >= 0 /\ Complete(occurrence + late)

RepeatsSpec == RepeatsInit /\ [][RepeatsNext]_repeatVars

-------------------------------------------------------------------------------
RepeatsTypeOK ==
    /\ phase \in {"none", "live", "stopped", "ended"}
    /\ occurrence \in Nat \cup {NoDate}
    /\ ValidText(stored.text)
    /\ changed \in BOOLEAN /\ moves \in 0..Moves
    /\ Len(skipped.dates) <= MaxRepeatSkippedDates

\* What a rule means, one date at a time (the comments of RepeatRule).  A month
\* that is too short has the day at its end.
OnMonthDay(r, d) ==
    Day(d) = r.monthDay \/ (Day(d) = LastDay(d) /\ r.monthDay > LastDay(d))

OnDayOfMonth(r, d) ==
    CASE r.ordinal = -1 -> Weekday(d) = r.weekday /\ Day(d) > LastDay(d) - 7
      [] r.ordinal > 0 -> Weekday(d) = r.weekday /\ (Day(d) - 1) \div 7 + 1 = r.ordinal
      [] r.ordinal = 0 /\ r.monthDay = -1 -> Day(d) = LastDay(d)
      [] OTHER -> OnMonthDay(r, d)

FallsOn(r, startsOn, d) ==
    /\ d >= startsOn
    /\ CASE r.freq = "DAILY" -> (d - startsOn) % r.interval = 0
         [] r.freq = "WEEKLY" ->
              /\ Weekday(d) \in r.weekdays
              /\ (weekIndex(d) - weekIndex(startsOn)) % r.interval = 0
         [] r.freq = "MONTHLY" ->
              /\ (monthIndex(d) - monthIndex(startsOn)) % r.interval = 0
              /\ OnDayOfMonth(r, d)
         [] r.freq = "YEARLY" ->
              /\ (Year(d) - Year(startsOn)) % r.interval = 0
              /\ Month(d) = r.month /\ OnMonthDay(r, d)
         [] r.freq = "CRON" -> Month(d) = 2 /\ Day(d) = 29

\* The newest repetition counts every date of the rule it followed that was
\* passed over, as many as a plan looks at; each had passed when the one before it
\* was completed, and its own date had not; the notice names the first of them.
SkippedAreCounted ==
    LET missed == {d \in followed.after + 1..followed.next - 1 :
                     FallsOn(followed.rule, followed.startsOn, d)} IN
    /\ skipped.count = Min({Cardinality(missed), MaxRepeatPlanSteps})
    /\ \A d \in missed : d < followed.on
    /\ followed.next >= followed.on
    /\ \A i \in DOMAIN skipped.dates :
         {d \in missed : d < skipped.dates[i]} = {skipped.dates[j] : j \in 1..i - 1}
    /\ ToSet(skipped.dates) \subseteq missed
    /\ Len(skipped.dates) = Min({skipped.count, MaxRepeatSkippedDates})

\* The newest repetition is the one its completion planned, by the rule as it is
\* now, or if the repeat was changed since, on the first date from the new start.
OnItsDate ==
    IF changed
    THEN \A d \in stored.startsOn..occurrence - 1 : ~FallsOn(asked, stored.startsOn, d)
    ELSE /\ followed.next = occurrence /\ followed.rule = asked
         /\ followed.startsOn = stored.startsOn

\* However early or late repetitions are completed and however the rule is
\* changed, stopped and picked up again, the newest repetition is on a date of the
\* rule that was asked for, the first there is; a series ends only where the cron
\* library gives up, and no date between two repetitions is lost but those counted
\* as skipped (PlanAfterCompletion, FirstOnOrAfter, Anchored, String,
\* ParseRepeatRule, applyIssueRepeat).
NoRepetitionLost ==
    /\ phase # "none" => FallsOn(asked, stored.startsOn, occurrence) /\ OnItsDate
    /\ phase = "ended" => asked.freq = "CRON"
    /\ IF followed = NoCompletion THEN skipped = NothingSkipped ELSE SkippedAreCounted
===============================================================================
