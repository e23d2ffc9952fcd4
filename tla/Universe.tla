------------------------------ MODULE Universe ------------------------------
(***************************************************************************)
(* The tradable universe and the vendor files it needs: calendar dates     *)
(* (crates/config/src/universe.rs), the loading of a configuration's       *)
(* universe (crates/config/src/lib.rs) and the enumeration of dump files   *)
(* (crates/ingest/src/plan.rs, source.rs, fetch_all.rs).  Time is counted  *)
(* in days; a configuration's dates are midnights.                         *)
(***************************************************************************)
EXTENDS Integers, Sequences, FiniteSets, SequencesExt

CONSTANTS
  Open,          \* OPEN_LISTING, and a delisting that is not set
  YearMonths,    \* <<year, month>> to enumerate from and to
  ListingDates,  \* <<year, month, day>> of a listing or delisting
  Years,         \* years whose calendar is checked
  Symbols        \* instrument names; "" is a blank one

VARIABLE query   \* the arguments of one call

-----------------------------------------------------------------------------
(* The calendar.                                                           *)

IsLeapYear(y) == (y % 4 = 0 /\ y % 100 # 0) \/ y % 400 = 0
DaysInMonth(y, m) ==
  IF m \in {1, 3, 5, 7, 8, 10, 12} THEN 31
  ELSE IF m \in {4, 6, 9, 11} THEN 30
  ELSE IF m = 2 THEN (IF IsLeapYear(y) THEN 29 ELSE 28) ELSE 0

\* days_from_civil: years counted from March, eras of 400 years.
DaysFromCivil(year, m, d) ==
  LET y   == IF m <= 2 THEN year - 1 ELSE year
      era == y \div 400
      yoe == y - era * 400
      doy == (153 * (IF m > 2 THEN m - 3 ELSE m + 9) + 2) \div 5 + d - 1
  IN  era * 146097 + yoe * 365 + yoe \div 4 - yoe \div 100 + doy - 719468

\* parse_iso_date, of a well-formed date.
ParseIsoDate(date) ==
  IF date[2] \in 1 .. 12 /\ date[3] \in 1 .. DaysInMonth(date[1], date[2])
  THEN [ok |-> TRUE, day |-> DaysFromCivil(date[1], date[2], date[3])]
  ELSE [ok |-> FALSE]

Succ(ym) == IF ym[2] = 12 THEN <<ym[1] + 1, 1>> ELSE <<ym[1], ym[2] + 1>>
NotAfter(a, b) == a[1] < b[1] \/ (a[1] = b[1] /\ a[2] <= b[2])
Months(from, to) ==
  {ym \in (from[1] .. to[1]) \X (1 .. 12) : NotAfter(from, ym) /\ NotAfter(ym, to)}

-----------------------------------------------------------------------------
(* Listings.                                                               *)

IsTradableAt(l, day) == (l.listed = Open \/ l.listed <= day) /\ (l.delisted = Open \/ day < l.delisted)

DateOf(date) == IF date = Open THEN [ok |-> TRUE, day |-> Open] ELSE ParseIsoDate(date)

\* Config::universe: the listings of the members, or none if any is refused.
UniverseOf(members) ==
  LET listing(m) == [instrument |-> m.instrument, listed |-> DateOf(m.listed).day, delisted |-> DateOf(m.delisted).day]
      valid == /\ \A k \in DOMAIN members :
                    LET m == members[k]
                    IN  /\ m.instrument # "" /\ DateOf(m.listed).ok /\ DateOf(m.delisted).ok
                        /\ \A j \in 1 .. k - 1 : members[j].instrument # m.instrument
                        /\ (m.listed # Open /\ m.delisted # Open) =>
                             ~(listing(m).delisted < listing(m).listed)
  IN  IF valid THEN [ok |-> TRUE, listings |-> {listing(members[k]) : k \in DOMAIN members}]
      ELSE [ok |-> FALSE]

\* resolve_fetch_all: unsafe when no listing has a real date.
SurvivorshipUnsafe(listings) == \A l \in listings : l.listed = Open

\* overlaps, of the period [start, end) and a listing.
Overlaps(start, end, l) == (l.listed = Open \/ l.listed < end) /\ (l.delisted = Open \/ start < l.delisted)

FirstDay(ym) == DaysFromCivil(ym[1], ym[2], 1)

\* enumerate_targets for one listing: monthly files and daily files.
EnumerateTargets(l, from, to) ==
  LET monthly == {[kind |-> "monthly", start |-> FirstDay(ym), end |-> FirstDay(Succ(ym))] : ym \in Months(from, to)}
      daily   == UNION {{[kind |-> "daily", start |-> FirstDay(ym) + d - 1, end |-> FirstDay(ym) + d] :
                           d \in 1 .. DaysInMonth(ym[1], ym[2])} : ym \in Months(from, to)}
  IN  {f \in monthly \union daily : Overlaps(f.start, f.end, l)}

-----------------------------------------------------------------------------
Members == [instrument : Symbols, listed : ListingDates \union {Open}, delisted : ListingDates \union {Open}]

UniverseInit ==
  query \in [from : YearMonths, to : YearMonths, members : {<<a, b>> : a \in Members, b \in {m \in Members : m.listed = Open}}]

\* Each instant of an instrument's life within the months asked for lies in
\* exactly one file of each kind, and every file asked for holds some of it:
\* nothing of a delisted instrument is missing and no file outside its life is
\* requested (for lives of at least one day).
TargetsExact ==
  LET u == UniverseOf(query.members)
  IN  u.ok => \A l \in u.listings :
        LET files == EnumerateTargets(l, query.from, query.to)
        IN  /\ \A day \in FirstDay(query.from) .. FirstDay(Succ(query.to)) - 1 :
                 IsTradableAt(l, day) =>
                   \A kind \in {"monthly", "daily"} :
                     Cardinality({f \in files : f.kind = kind /\ f.start <= day /\ day < f.end}) = 1
            /\ (l.listed = Open \/ l.delisted = Open \/ l.listed < l.delisted) =>
                 \A f \in files : \E day \in f.start .. f.end - 1 : IsTradableAt(l, day)

\* Consecutive dates are consecutive days, over month ends, leap days and
\* centuries: days_from_civil leaves no gap and no overlap.
CalendarConsecutive ==
  \A y \in Years, m \in 1 .. 12 :
    /\ DaysFromCivil(y, m, DaysInMonth(y, m)) = DaysFromCivil(y, m, 1) + DaysInMonth(y, m) - 1
    /\ DaysFromCivil(Succ(<<y, m>>)[1], Succ(<<y, m>>)[2], 1) = DaysFromCivil(y, m, DaysInMonth(y, m)) + 1
=============================================================================
