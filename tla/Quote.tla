------------------------------- MODULE Quote -------------------------------
(***************************************************************************)
(* What a rental costs (utils/quote.js): the duration is rounded up to     *)
(* whole hours once, and the renter is charged the cheapest combination of *)
(* months, days and hours that covers them.  cheapestCombination is the    *)
(* double loop of the code, one candidate a step; a rate that is null (the *)
(* owner does not offer that unit) is 0 here, since the table holds only   *)
(* positive rates and the code itself charges `?? 0` for a null.           *)
(***************************************************************************)
EXTENDS Integers

CONSTANTS
  PerHour,       \* instants in an hour
  Day, Month,    \* UNIT_HOURS: hours in a day and in a month
  Durations,     \* how long a rental may be asked for, in instants
  HourRates, DayRates, MonthRates,   \* the rates an owner may set, 0 for null
  NoBest         \* before the first candidate

ASSUME QuoteAssumption ==
  /\ PerHour \in Nat \ {0} /\ Day \in Nat \ {0} /\ Month \in Nat \ {0}
  /\ Durations \subseteq Nat \ {0}
  /\ HourRates \subseteq Nat /\ DayRates \subseteq Nat /\ MonthRates \subseteq Nat
  /\ NoBest \notin [months : Nat, days : Nat, hours : Nat]

VARIABLES duration, rates, months, days, best, done
vars == <<duration, rates, months, days, best, done>>

\* Units of b that it takes to cover a.
Ceiling(a, b) == (a + b - 1) \div b

\* Rounded up, over the whole duration; the tolerance of the code is far below
\* one millisecond and never swallows one.
BillableHours(d) == Ceiling(d, PerHour)

Combination == [months : Nat, days : Nat, hours : Nat]
Cost(c) == c.months * rates.month + c.days * rates.day + c.hours * rates.hour
Lines(c) == (IF c.months > 0 THEN 1 ELSE 0) + (IF c.days > 0 THEN 1 ELSE 0)
            + (IF c.hours > 0 THEN 1 ELSE 0)

\* Cost, then fewer lines, then larger units.
IsBetter(a, b) ==
  \/ Cost(a) < Cost(b)
  \/ /\ Cost(a) = Cost(b)
     /\ \/ Lines(a) < Lines(b)
        \/ /\ Lines(a) = Lines(b)
           /\ \/ a.months > b.months
              \/ a.months = b.months /\ a.days > b.days

AfterMonths(m) == BillableHours(duration) - m * Month
AfterDays(m, d) == AfterMonths(m) - d * Day
MaxMonths == IF rates.month = 0 THEN 0 ELSE Ceiling(BillableHours(duration), Month)
\* Mutant: only whole days are tried.
WholeDays(m) == IF rates.day = 0 \/ AfterMonths(m) <= 0 THEN 0 ELSE AfterMonths(m) \div Day
MaxDays(m) == IF rates.day = 0 \/ AfterMonths(m) <= 0 THEN 0 ELSE Ceiling(AfterMonths(m), Day)
HoursNeeded(m, d) == IF AfterDays(m, d) <= 0 THEN 0 ELSE AfterDays(m, d)

Candidate(m, d) == [months |-> m, days |-> d, hours |-> HoursNeeded(m, d)]
\* Left out: hours the owner does not rent by, and the combination of nothing.
Usable(m, d) == /\ HoursNeeded(m, d) = 0 \/ rates.hour # 0
                /\ m # 0 \/ d # 0 \/ HoursNeeded(m, d) # 0

\* Any duration and any rates with at least one unit on offer.
Asked ==
  /\ duration \in Durations
  /\ rates \in {r \in [hour : HourRates, day : DayRates, month : MonthRates] :
                  r.hour # 0 \/ r.day # 0 \/ r.month # 0}

Init ==
  /\ Asked
  /\ months = 0 /\ days = 0 /\ best = NoBest /\ done = FALSE

\* The body of the inner loop, and the loops' own steps to the next candidate.
Consider ==
  /\ ~done
  /\ best' = IF Usable(months, days)
                /\ (best = NoBest \/ IsBetter(Candidate(months, days), best))
             THEN Candidate(months, days) ELSE best
  /\ IF days < MaxDays(months)
     THEN days' = days + 1 /\ UNCHANGED <<months, done>>
     ELSE /\ days' = 0
          /\ IF months < MaxMonths THEN months' = months + 1 /\ UNCHANGED done
                                   ELSE done' = TRUE /\ UNCHANGED months
  /\ UNCHANGED <<duration, rates>>

\* The result is handed back and the next quote is asked for.
BuildQuote ==
  /\ done
  /\ duration' \in Durations /\ UNCHANGED rates
  /\ months' = 0 /\ days' = 0 /\ best' = NoBest /\ done' = FALSE

Next == Consider \/ BuildQuote
Spec == Init /\ [][Next]_vars
-----------------------------------------------------------------------------
TypeOK ==
  /\ duration \in Durations
  /\ rates \in [hour : HourRates, day : DayRates, month : MonthRates]
  /\ months \in Nat /\ days \in Nat
  /\ best \in Combination \cup {NoBest}
  /\ done \in BOOLEAN

\* A combination covers what was asked for, with units the owner offers.
Covers(c) ==
  /\ (c.months * Month + c.days * Day + c.hours) * PerHour >= duration
  /\ c.months = 0 \/ rates.month # 0
  /\ c.days = 0 \/ rates.day # 0
  /\ c.hours = 0 \/ rates.hour # 0

\* No unit is ever needed more often than there are hours.
Count == 0..BillableHours(duration)

\* "EXHAUSTIVE, NOT GREEDY": the combination the search ends with covers the
\* duration, and nothing else that covers it, inside the loops' bounds or not,
\* is cheaper, or as cheap on fewer lines or in larger units
\* (cheapestCombination, isBetter and billableHours).
QuoteIsCheapest ==
  done => /\ best # NoBest
          /\ Covers(best)
          /\ \A c \in [months : Count, days : Count, hours : Count] :
               Covers(c) => ~IsBetter(c, best)
=============================================================================
