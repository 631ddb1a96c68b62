----------------------------- MODULE ParkingRates -----------------------------
(***************************************************************************)
(* What a stay costs.  Each change of the rate of a project is a new       *)
(* version, saved under a lock on the project; a ticket is quoted with the *)
(* version that is current when its rate is read, for the minutes counted  *)
(* before that, and keeps the number of the version.                       *)
(*                                                                         *)
(* Amounts are in cents and a minute is the unit of time.  Left out: the   *)
(* words of the lines of a quote, and the simulation of a draft, which is  *)
(* the same calculation on rules that are not stored.                      *)
(***************************************************************************)
EXTENDS Processes, Integers, Sequences, FiniteSets

CONSTANTS
  DayMinutes,   \* DAY_MINUTES
  MaxPrice,     \* MAX_PRICE
  LegacyHour,   \* the hour of the rate before any is configured, ...
  LegacyBelow,  \* ... its price under an hour ...
  LegacyAbove,  \* ... and from it
  Savers,       \* saves of the rate at the same time
  Drafts,       \* [Savers -> set of rules that are saved]
  Quotes,       \* quotes of the ticket at the same time
  MaxStay,      \* bound: minutes
  MaxVersions   \* bound: no save starts with so many versions

ASSUME RatesAssumption ==
  /\ DayMinutes \in Nat \ {0}
  /\ MaxPrice \in Nat /\ LegacyHour \in Nat /\ LegacyBelow \in Nat /\ LegacyAbove \in Nat
  /\ None \notin Nat /\ None \notin Savers

VARIABLES
  rates,   \* parking_rates of the project, by version
  saves,   \* what each save remembers
  lock,    \* who holds the row of the project, or None
  stay,    \* minutes since the entry of the ticket
  quotes,  \* what each quote remembers, and what it answered
  refused  \* history: a save found its number taken

ratesVars == <<rates, saves, lock, stay, quotes, refused>>

----------------------------------------------------------------------------
Minutes(low) == low .. DayMinutes

Price == 0 .. MaxPrice

ParkingRateRules ==
  [toleranceMinutes : Minutes(0), firstBlockMinutes : Minutes(1), firstBlockPrice : Price,
   fractionMinutes : Minutes(1), fractionPrice : Price, dailyMax : Price \cup {None}]

\* validateParkingRate.
IsValid(r) ==
  /\ r \in ParkingRateRules
  /\ r.toleranceMinutes < r.firstBlockMinutes
  /\ r.firstBlockPrice > 0
  /\ r.dailyMax # None => r.dailyMax >= r.firstBlockPrice

Started(minutes, size) == minutes \div size

CeilDiv(minutes, size) == (minutes + size - 1) \div size

\* Every started fraction counts whole.
Fractions(minutes, size) == CeilDiv(minutes, size)

Uncapped(amount, cap) == amount

AtMost(amount, cap) == IF amount > cap THEN cap ELSE amount

\* The first day of a stay, or all of it without a cap.
FirstDay(r, minutes) ==
  r.firstBlockPrice +
    (IF minutes > r.firstBlockMinutes
     THEN Fractions(minutes - r.firstBlockMinutes, r.fractionMinutes) * r.fractionPrice
     ELSE 0)

FullDay(r) ==
  AtMost(r.firstBlockPrice
           + Fractions(DayMinutes - r.firstBlockMinutes, r.fractionMinutes) * r.fractionPrice,
         r.dailyMax)

CalculateParkingFee(r, minutes) ==
  LET days == minutes \div DayMinutes
      rest == minutes % DayMinutes
  IN  IF minutes <= r.toleranceMinutes THEN 0
      ELSE IF r.dailyMax = None THEN FirstDay(r, minutes)
      ELSE IF days = 0 THEN AtMost(FirstDay(r, rest), r.dailyMax)
      ELSE days * FullDay(r) + AtMost(Fractions(rest, r.fractionMinutes) * r.fractionPrice, r.dailyMax)

LegacyParkingFee(minutes) == IF minutes < LegacyHour THEN LegacyBelow ELSE LegacyAbove

----------------------------------------------------------------------------
Save ==
       [pc : {"idle"}]
  \cup [pc : {"start"}, rules : ParkingRateRules]
  \cup [pc : {"create"}, rules : ParkingRateRules, version : Nat]

Quote ==
       [pc : {"idle"}]
  \cup [pc : {"rate"}, duracion : Nat]
  \cup [pc : {"done"}, duracion : Nat, monto : Nat, tarifaVersion : Nat]

RatesTypeOK ==
  /\ rates \in Seq({r \in ParkingRateRules : IsValid(r)})
  /\ saves \in [Savers -> Save]
  /\ lock \in Savers \cup {None}
  /\ stay \in Nat
  /\ quotes \in [Quotes -> Quote]
  /\ refused \in BOOLEAN

RatesInit ==
  /\ rates = <<>>
  /\ saves = [s \in Savers |-> Idle]
  /\ lock = None
  /\ stay = 0
  /\ quotes = [q \in Quotes |-> Idle]
  /\ refused = FALSE

MinutePasses ==
  /\ stay < MaxStay
  /\ stay' = stay + 1
  /\ UNCHANGED <<rates, saves, lock, quotes, refused>>

\* A save of rules that are not valid goes no further.
SaveRate(s, r) ==
  /\ saves[s].pc = "idle"
  /\ Len(rates) < MaxVersions
  /\ IsValid(r)
  /\ saves' = [saves EXCEPT ![s] = [pc |-> "start", rules |-> r]]
  /\ UNCHANGED <<rates, lock, stay, quotes, refused>>

\* SELECT ... FOR UPDATE of the project.
Unlocked == TRUE

RowFree == lock = None

ProjectFree == RowFree

LatestVersion(s) ==
  /\ saves[s].pc = "start"
  /\ ProjectFree
  /\ lock' = s
  /\ saves' = [saves EXCEPT ![s] = [pc |-> "create", rules |-> saves[s].rules, version |-> Len(rates) + 1]]
  /\ UNCHANGED <<rates, stay, quotes, refused>>

\* A version is added; those that are there stay as they are.
Added(r) == Append(rates, r)

\* The pair of project and version is unique.
CreateVersion(s) ==
  /\ saves[s].pc = "create"
  /\ IF saves[s].version > Len(rates)
     THEN /\ rates' = Added(saves[s].rules)
          /\ UNCHANGED refused
     ELSE /\ refused' = TRUE
          /\ UNCHANGED rates
  /\ lock' = None
  /\ saves' = [saves EXCEPT ![s] = Idle]
  /\ UNCHANGED <<stay, quotes>>

QuoteMinutes(q) ==
  /\ quotes[q].pc # "rate"
  /\ quotes' = [quotes EXCEPT ![q] = [pc |-> "rate", duracion |-> stay]]
  /\ UNCHANGED <<rates, saves, lock, stay, refused>>

QuoteRate(q) ==
  LET duracion == quotes[q].duracion
      current  == Len(rates)
  IN  /\ quotes[q].pc = "rate"
      /\ quotes' = [quotes EXCEPT ![q] =
           [pc |-> "done", duracion |-> duracion, tarifaVersion |-> current,
            monto |-> IF current = 0 THEN LegacyParkingFee(duracion)
                      ELSE CalculateParkingFee(rates[current], duracion)]]
      /\ UNCHANGED <<rates, saves, lock, stay, refused>>

RatesNext ==
  \/ MinutePasses
  \/ \E s \in Savers : LatestVersion(s) \/ CreateVersion(s) \/ \E r \in Drafts[s] : SaveRate(s, r)
  \/ \E q \in Quotes : QuoteMinutes(q) \/ QuoteRate(q)

RatesSpec == RatesInit /\ [][RatesNext]_ratesVars

----------------------------------------------------------------------------
(***************************************************************************)
(* Properties.                                                             *)
(***************************************************************************)

Done(q) == quotes[q].pc = "done" /\ quotes[q].tarifaVersion # 0

RulesOf(q) == rates[quotes[q].tarifaVersion]

\* How a stay is charged, by the blocks that start in it (parking-rate.entity.ts:5-11).
StartedBlocks(from, to, size) == Cardinality({m \in from .. to - 1 : (m - from) % size = 0})

FirstBlockAndFractions(r, minutes) ==
  r.firstBlockPrice + r.fractionPrice * StartedBlocks(r.firstBlockMinutes, minutes, r.fractionMinutes)

ChargedDays(r, minutes) ==
  [d \in 0 .. minutes \div DayMinutes |->
    LET from == d * DayMinutes
        cost == IF minutes >= from + DayMinutes THEN FirstBlockAndFractions(r, DayMinutes)
                ELSE IF d = 0 THEN FirstBlockAndFractions(r, minutes)
                ELSE r.fractionPrice * StartedBlocks(from, minutes, r.fractionMinutes)
    IN  IF cost > r.dailyMax THEN r.dailyMax ELSE cost]

TotalOf(days) ==
  LET total[d \in DOMAIN days] == IF d = 0 THEN days[0] ELSE days[d] + total[d - 1]
  IN  total[Cardinality(DOMAIN days) - 1]

Documented(r, minutes) ==
  IF minutes <= r.toleranceMinutes THEN 0
  ELSE IF r.dailyMax = None THEN FirstBlockAndFractions(r, minutes)
  ELSE TotalOf(ChargedDays(r, minutes))

\* A quote is what the rules of the version it names say of its minutes, also when the
\* rate changed since (calculateParkingFee, quote).
QuotedAsDocumented ==
  \A q \in Quotes : Done(q) => quotes[q].monto = Documented(RulesOf(q), quotes[q].duracion)

\* A quote is free within the tolerance and only there, and no day costs more than the cap.
FreeWhenTolerated(q) ==
  quotes[q].monto = 0 <=> quotes[q].duracion <= RulesOf(q).toleranceMinutes

CappedByDay(q) ==
  RulesOf(q).dailyMax # None =>
    quotes[q].monto <= (quotes[q].duracion \div DayMinutes + 1) * RulesOf(q).dailyMax

QuoteIsBounded == \A q \in Quotes : Done(q) => FreeWhenTolerated(q) /\ CappedByDay(q)

\* Two saves at the same time each get a version of their own (createVersion).
EverySaveIsStored == ~refused

\* With one version, a longer stay never costs less: fractions of a day may add up to more
\* than the day once it is over, when the first block is cheaper than they are.
FeeNeverDrops ==
  \A p, q \in Quotes :
    (Done(p) /\ Done(q) /\ quotes[p].tarifaVersion = quotes[q].tarifaVersion
       /\ quotes[p].duracion <= quotes[q].duracion)
      => quotes[p].monto <= quotes[q].monto
=============================================================================
