------------------------------ MODULE CostLedger ------------------------------
(***************************************************************************)
(* internal/finops/ledger.go and snapshot.go: the collector samples what   *)
(* the cluster costs and books the time since the last sample into a daily *)
(* history that is stored in a ConfigMap.  A sample that cannot be built   *)
(* or stored is lost, and the next one books its time as well unless the   *)
(* gap has become too long.                                                *)
(***************************************************************************)
EXTENDS OperatorClock

CONSTANTS Namespaces,     \* namespaces with costs of their own
          Costs,          \* what a namespace may cost per tick
          NodeOverhead,   \* what the nodes cost per tick beyond the namespaces
          Currencies,
          DayTicks,       \* ticks of a day
          RetentionDays, MaxEncodedDays,
          MaxGap,         \* the longest pause between samples that is booked
          Unit            \* amounts are stored as multiples of it

VARIABLES cluster,     \* what runs and what it costs
          history,     \* the costdeck-cost-history ConfigMap
          collector,   \* the sample under way
          booked       \* history: the ticks booked since the history began, with their cost

ledgerVars == <<cluster, history, collector, booked>>

\* The currency of a history that has none yet; rates always have one, USD unless set.
NoCurrency == ""

ASSUME LedgerAssumption ==
    /\ IsFiniteSet(Namespaces) /\ Costs # {} /\ Costs \subseteq Nat /\ NodeOverhead \in Nat
    /\ Currencies # {} /\ NoCurrency \notin Currencies
    /\ DayTicks \in Nat \ {0} /\ MaxGap \in Nat \ {0} /\ Unit \in Nat \ {0}
    /\ RetentionDays \in Nat \ {0} /\ MaxEncodedDays \in Nat \ {0}

Sum(f) == FoldFunction(+, 0, f)
DateOf(t) == t \div DayTicks

EmptyLedger == [currency |-> NoCurrency, since |-> None, last |-> None, days |-> <<>>]
NoSample == [pc |-> "idle"]

LedgerInit ==
    /\ cluster = [cost |-> [n \in Namespaces |-> CHOOSE c \in Costs : TRUE],
                  currency |-> CHOOSE c \in Currencies : TRUE]
    /\ history = EmptyLedger
    /\ collector = NoSample
    /\ booked = {}

\* Build: what the nodes cost and, of each namespace that is tracked and still
\* exists, what its requests, volumes and load balancers cost.
Build(at, c) ==
    [at |-> at, currency |-> c.currency, bill |-> NodeOverhead + Sum(c.cost), cost |-> c.cost]

\* Ledger.day: the last day when it is the date's, else a new one.
WithDay(days, date) ==
    IF days # <<>> /\ Last(days).date = date THEN days
    ELSE Append(days, [date |-> date, hours |-> 0, bill |-> 0, cost |-> [n \in Namespaces |-> 0]])

\* Ledger.trim: the days from the first one of the retention window onwards.
trim(days, at) ==
    LET recent == {i \in DOMAIN days : days[i].date >= DateOf(at) - RetentionDays + 1}
    IN  SubSeq(days, Min(recent \cup {Len(days) + 1}), Len(days))

\* Mutant: the time the collector was down is booked as well.
AddOverGaps(ledger, s) ==
    LET hours == s.at - ledger.last
        days == WithDay(ledger.days, DateOf(s.at))
        plus(day) == [day EXCEPT !.hours = @ + hours, !.bill = @ + s.bill * hours]
    IN IF ledger.last = None THEN [ledger EXCEPT !.currency = s.currency, !.last = s.at, !.since = s.at]
       ELSE [ledger EXCEPT !.last = s.at, !.days = [days EXCEPT ![Len(days)] = plus(@)]]

\* Ledger.Add.  Another currency starts over; a first sample, a clock that went back
\* and a gap that is too long only start the clock.
Add(ledger, s) ==
    LET base == IF ledger.currency # NoCurrency /\ ledger.currency # s.currency THEN EmptyLedger ELSE ledger
        opened(l) == [l EXCEPT !.currency = s.currency, !.last = s.at,
                               !.since = IF @ = None THEN s.at ELSE @]
        elapsed(l) == s.at - l.last
        plus(day, hours) ==
            [day EXCEPT !.hours = @ + hours, !.bill = @ + s.bill * hours,
                        !.cost = [n \in Namespaces |-> @[n] + s.cost[n] * hours]]
        onto(days, hours) == trim([days EXCEPT ![Len(days)] = plus(@, hours)], s.at)
        added(l) == IF l.last = None \/ elapsed(l) <= 0 \/ elapsed(l) > MaxGap THEN opened(l)
                    ELSE [opened(l) EXCEPT !.days = onto(WithDay(@, DateOf(s.at)), elapsed(l))]
    IN added(base)

\* Day.rounded: amounts to the nearest unit, so that what is less than half of one
\* is dropped with every save.
Round(v) == ((2 * v + Unit) \div (2 * Unit)) * Unit
rounded(day) == [day EXCEPT !.bill = Round(@), !.cost = [n \in Namespaces |-> Round(@[n])]]

\* Ledger.Encode: the oldest days go until the rest fits, but one always stays.
Encode(l) ==
    LET newest(days) == SubSeq(days, IF Len(days) > MaxEncodedDays THEN Len(days) - MaxEncodedDays + 1 ELSE 1, Len(days))
    IN [l EXCEPT !.days = [i \in DOMAIN newest(@) |-> rounded(newest(@)[i])]]

-----------------------------------------------------------------------------
\* Collector.Sample and sample, up to the snapshot: the stored history is read anew.
SampleBegins ==
    /\ collector = NoSample
    /\ collector' = [pc |-> "built", ledger |-> history, snap |-> Build(now, cluster)]
    /\ NoFault /\ UNCHANGED <<cluster, history, booked>>

\* The ticks a sample books, as history: none when it only starts the clock.
Books(l, s) ==
    IF l.last # None /\ l.currency = s.currency /\ s.at - l.last \in 1..MaxGap
    THEN {[tick |-> t, date |-> DateOf(s.at), bill |-> s.bill] : t \in l.last + 1..s.at} ELSE {}

\* SaveLedger: one writer, so the update does not conflict.
SampleStored ==
    /\ collector.pc = "built"
    /\ history' = Encode(Add(collector.ledger, collector.snap))
    /\ booked' = (IF history.currency \in {NoCurrency, collector.snap.currency} THEN booked ELSE {})
                     \cup Books(history, collector.snap)
    /\ collector' = NoSample
    /\ NoFault /\ UNCHANGED cluster

\* The snapshot or the update fails, or the leader goes down: nothing was booked.
SampleLost ==
    /\ collector.pc = "built"
    /\ collector' = NoSample
    /\ Fault /\ UNCHANGED <<cluster, history, booked>>

\* Workloads come and go; somebody chooses another currency for the rates.
ClusterChanges ==
    /\ \/ \E n \in Namespaces, c \in Costs :
            c # cluster.cost[n] /\ cluster' = [cluster EXCEPT !.cost[n] = c]
       \/ \E c \in Currencies : c # cluster.currency /\ cluster' = [cluster EXCEPT !.currency = c]
    /\ Change /\ UNCHANGED <<history, collector, booked>>

LedgerNext == SampleBegins \/ SampleStored \/ SampleLost \/ ClusterChanges

-----------------------------------------------------------------------------
\* Every tick is booked once and on one day, whatever fails: of every day the ledger
\* keeps, the hours are the ticks booked on its date, no tick belongs to two days,
\* and the bill is what those ticks cost but for the rounding of each save
\* (Ledger.Add, Collector.Sample).
BookedOnce ==
    /\ \A x, y \in booked : x.tick = y.tick => x = y
    /\ \A i \in DOMAIN history.days :
        LET day == history.days[i]
            ticks == {x \in booked : x.date = day.date}
            cost == FoldSet(LAMBDA x, sum : x.bill + sum, 0, ticks)
        IN /\ day.hours = Cardinality(ticks)
           /\ day.hours <= DayTicks - 1 + MaxGap
           /\ 2 * (day.bill - cost) <= Unit * day.hours /\ 2 * (cost - day.bill) <= Unit * day.hours
    /\ \A i, j \in DOMAIN history.days : i < j => history.days[i].date < history.days[j].date
=============================================================================
