---------------------------- MODULE DecisionProofs ----------------------------
(***************************************************************************)
(* Theorems about what decides when a target is up.                        *)
(*                                                                         *)
(* Timetable, for any length of a day and a week, any timetables and       *)
(* overrides: what is written is what happens, a decision foretells its    *)
(* next change, and a preview's stretches keep their state.                *)
(*                                                                         *)
(* GroupDependencies, for any number of groups, any dependsOn graph and    *)
(* wishes: the search for cycles cuts them all, and groups start after     *)
(* what they depend on and stop before it.                                 *)
(***************************************************************************)
EXTENDS Timetable, GroupDependencies, SequenceTheorems, FiniteSetTheorems, WellFoundedInduction, TLAPS

-----------------------------------------------------------------------------
(* Quotients and remainders.                                                *)

LEMMA DivIs ==
  ASSUME NEW v \in Int, NEW n \in Nat \ {0}
  PROVE  /\ v \div n \in Int /\ v % n \in 0..(n - 1)
         /\ \A q, r : q = v \div n /\ r = v % n => v = n * q + r
<1>1. PICK q \in Int : q = v \div n
  OBVIOUS
<1>2. PICK r \in 0..(n - 1) : r = v % n
  OBVIOUS
<1>3. v = n * q + r
  BY <1>1, <1>2
<1> QED BY <1>1, <1>2, <1>3

\* A remainder is the only one with its quotient.
LEMMA RemainderIs ==
  ASSUME NEW v \in Int, NEW n \in Nat \ {0}, NEW q \in Int, NEW r \in 0..(n - 1), v = n * q + r
  PROVE  v % n = r /\ v \div n = q
<1>1. PICK p \in Int : p = v \div n
  BY DivIs
<1>2. PICK s \in 0..(n - 1) : s = v % n
  BY DivIs
<1>3. v = n * p + s
  BY <1>1, <1>2, DivIs
<1>4. n * (p - q) = r - s
  BY <1>3
<1>5. p - q \in Int /\ r - s < n /\ -n < r - s
  OBVIOUS
<1>6. p - q >= 1 => n * (p - q) >= n
  BY <1>5
<1>7. p - q <= -1 => n * (p - q) <= -n
  BY <1>5
<1>8. p = q
  BY <1>4, <1>5, <1>6, <1>7
<1>9. s = r
  BY <1>4, <1>8
<1> QED BY <1>1, <1>2, <1>8, <1>9

LEMMA RemainderOfMore ==
  ASSUME NEW v \in Int, NEW n \in Nat \ {0}, NEW q \in Int
  PROVE  (v + n * q) % n = v % n
<1>1. PICK p \in Int : p = v \div n
  BY DivIs
<1>2. PICK s \in 0..(n - 1) : s = v % n
  BY DivIs
<1>3. v = n * p + s
  BY <1>1, <1>2, DivIs
<1>4. v + n * q = n * (p + q) + s
  BY <1>3
<1>5. p + q \in Int /\ v + n * q \in Int
  OBVIOUS
<1>6. (v + n * q) % n = s
  BY <1>4, <1>5, RemainderIs
<1> QED BY <1>2, <1>6

-----------------------------------------------------------------------------
(* Minutes of the week.                                                     *)

LEMMA WeekIs ==
  /\ MinutesPerDay \in Nat \ {0} /\ WeekMinutes \in Nat \ {0}
  /\ \A d \in 0..(DaysPerWeek - 1) :
       d * MinutesPerDay \in Nat /\ d * MinutesPerDay + MinutesPerDay <= WeekMinutes
<1>1. PICK n \in Nat \ {0} : n = DaysPerWeek
  BY TimetableAssumption
<1>2. PICK m \in Nat \ {0} : m = MinutesPerDay
  BY TimetableAssumption
<1>3. n * m \in Nat \ {0}
  OBVIOUS
<1>4. ASSUME NEW d \in 0..(n - 1) PROVE d * m \in Nat /\ d * m + m <= n * m
  <2>1. (n - 1 - d) * m >= 0 /\ d * m >= 0 /\ d * m \in Int
    OBVIOUS
  <2>2. (n - 1 - d) * m = n * m - m - d * m
    OBVIOUS
  <2> QED BY <2>1, <2>2, <1>3
<1> QED BY <1>1, <1>2, <1>3, <1>4 DEF WeekMinutes

\* The minute of the week in which a moment lies.
MinuteOf(t) == (t \div Minute) % WeekMinutes

\* Weeks later, in whatever timezone, it is the same minute of the week.
LEMMA SameMinute ==
  ASSUME NEW t \in Int, NEW u \in Int, MinuteOf(t) = MinuteOf(u), NEW z \in Int
  PROVE  weekMinute(t, z) = weekMinute(u, z)
<1>1. PICK w \in Nat \ {0} : w = WeekMinutes
  BY WeekIs
<1>2. PICK a \in Int : a = t \div Minute
  BY DivIs DEF Minute
<1>3. PICK b \in Int : b = u \div Minute
  BY DivIs DEF Minute
<1>4. PICK p \in Int : p = a \div w
  BY DivIs
<1>5. PICK q \in Int : q = b \div w
  BY DivIs
<1>6. PICK r \in 0..(w - 1) : r = a % w
  BY DivIs
<1>7. a = w * p + r /\ b = w * q + r
  <2>1. a % w = b % w
    BY <1>1, <1>2, <1>3 DEF MinuteOf
  <2>2. r = b % w
    BY <1>6, <2>1
  <2>3. a = w * p + r
    BY <1>4, <1>6, DivIs
  <2>4. b = w * q + r
    BY <1>5, <2>2, DivIs
  <2> QED BY <2>3, <2>4
<1>8. a + z = (b + z) + w * (p - q)
  BY <1>6, <1>7
<1>9. (a + z) % w = (b + z) % w
  <2>1. b + z \in Int /\ p - q \in Int
    OBVIOUS
  <2>2. ((b + z) + w * (p - q)) % w = (b + z) % w
    BY <2>1, RemainderOfMore
  <2> QED BY <1>8, <2>2
<1> QED BY <1>1, <1>2, <1>3, <1>9 DEF weekMinute

LEMMA MinuteAhead ==
  ASSUME NEW t \in Int, NEW u \in Int, MinuteOf(t) = MinuteOf(u), NEW l \in Nat, l % Minute = 0
  PROVE  MinuteOf(t + l) = MinuteOf(u + l)
<1>1. PICK k \in Int : k = l \div Minute
  BY DivIs DEF Minute
<1>2. (t + l) \div Minute = t \div Minute + k /\ (u + l) \div Minute = u \div Minute + k
  BY <1>1 DEF Minute
<1>3. weekMinute(t, k) = weekMinute(u, k)
  BY SameMinute
<1> QED BY <1>2, <1>3 DEF weekMinute, MinuteOf

LEMMA SameSchedule ==
  ASSUME NEW t \in Int, NEW u \in Int, MinuteOf(t) = MinuteOf(u), NEW s \in Seq(Written)
  PROVE  IsActiveAt(t, s) = IsActiveAt(u, s)
<1>1. ASSUME NEW i \in DOMAIN s PROVE weekMinute(t, s[i].zone) = weekMinute(u, s[i].zone)
  <2>1. s[i] \in Written
    BY ElementOfSeq
  <2>2. s[i].zone \in Int
    BY <2>1 DEF Written, Unusable
  <2> QED BY <2>2, SameMinute
<1> QED BY <1>1 DEF IsActiveAt

-----------------------------------------------------------------------------
(* Windows and the calendar.                                                *)

LEMMA Wrap ==
  ASSUME NEW w \in Nat \ {0}, NEW v \in Nat, v < w + w
  PROVE  v % w = IF v < w THEN v ELSE v - w
<1>1. CASE v < w
  <2>1. v \in 0..(w - 1) /\ v = w * 0 + v
    BY <1>1
  <2> QED BY <1>1, <2>1, RemainderIs
<1>2. CASE v >= w
  <2>1. v - w \in 0..(w - 1) /\ v = w * 1 + (v - w)
    BY <1>2
  <2> QED BY <1>2, <2>1, RemainderIs
<1> QED BY <1>1, <1>2

\* The minutes of the week from b on, for l minutes.
Covers(b, l, m) == \E k \in 0..l : (b + k) % WeekMinutes = m

LEMMA WindowCovers ==
  ASSUME NEW b \in 0..(WeekMinutes - 1), NEW l \in 0..(WeekMinutes - 1), NEW m \in 0..(WeekMinutes - 1)
  PROVE  contains([start |-> b, end |-> (b + l) % WeekMinutes], m) <=> Covers(b, l, m)
<1>1. PICK w \in Nat \ {0} : w = WeekMinutes
  BY WeekIs
<1>2. b \in 0..(w - 1) /\ l \in 0..(w - 1) /\ m \in 0..(w - 1)
  BY <1>1
<1>3. PICK e \in Nat : e = (b + l) % w /\ e = IF b + l < w THEN b + l ELSE b + l - w
  <2>1. (b + l) % w = IF b + l < w THEN b + l ELSE b + l - w
    <3>1. PICK v \in Nat : v = b + l /\ v < w + w
      BY <1>2
    <3>2. v % w = IF v < w THEN v ELSE v - w
      BY <3>1, Wrap
    <3> QED BY <3>1, <3>2
  <2>2. b + l \in Nat /\ b + l - w \in Int
    BY <1>2
  <2> QED BY <2>1, <2>2, <1>2
<1>4. ASSUME NEW k \in 0..l PROVE (b + k) % w = IF b + k < w THEN b + k ELSE b + k - w
  <2>1. PICK v \in Nat : v = b + k /\ v < w + w
    BY <1>2
  <2>2. v % w = IF v < w THEN v ELSE v - w
    BY <2>1, Wrap
  <2> QED BY <2>1, <2>2
<1>5. Covers(b, l, m) <=> \E k \in 0..l : (b + k < w /\ b + k = m) \/ (b + k >= w /\ b + k - w = m)
  <2>1. ASSUME NEW k \in 0..l
        PROVE  (b + k) % w = m <=> (b + k < w /\ b + k = m) \/ (b + k >= w /\ b + k - w = m)
    BY <1>2, <1>4
  <2> QED BY <1>1, <2>1 DEF Covers
<1>6. contains([start |-> b, end |-> e], m) <=> IF b <= e THEN b <= m /\ m <= e ELSE b <= m \/ m <= e
  BY DEF contains
<1>7. CASE b + l < w
  <2>1. contains([start |-> b, end |-> e], m) <=> b <= m /\ m <= b + l
    BY <1>2, <1>3, <1>6, <1>7
  <2>2. Covers(b, l, m) <=> \E k \in 0..l : b + k = m
    <3>1. \A k \in 0..l : b + k \in Nat /\ b + k < w
      BY <1>2, <1>7
    <3>2. \A k \in 0..l : (b + k < w /\ b + k = m) \/ (b + k >= w /\ b + k - w = m) <=> b + k = m
      BY <3>1, <1>2
    <3> QED BY <1>5, <3>2
  <2>3. b <= m /\ m <= b + l => m - b \in 0..l /\ b + (m - b) = m
    BY <1>2
  <2>4. (\E k \in 0..l : b + k = m) => b <= m /\ m <= b + l
    BY <1>2
  <2> QED BY <1>1, <1>3, <2>1, <2>2, <2>3, <2>4
<1>8. CASE b + l >= w
  <2>1. contains([start |-> b, end |-> e], m) <=> b <= m \/ m <= b + l - w
    BY <1>2, <1>3, <1>6, <1>8
  <2>2. ASSUME b <= m PROVE Covers(b, l, m)
    <3>1. m - b \in 0..l /\ b + (m - b) < w /\ b + (m - b) = m
      BY <1>2, <1>8, <2>2
    <3> QED BY <1>5, <3>1
  <2>3. ASSUME m <= b + l - w PROVE Covers(b, l, m)
    <3>1. m + w - b \in 0..l /\ b + (m + w - b) >= w /\ b + (m + w - b) - w = m
      BY <1>2, <1>8, <2>3
    <3> QED BY <1>5, <3>1
  <2>4. Covers(b, l, m) => b <= m \/ m <= b + l - w
    BY <1>2, <1>5, <1>8
  <2> QED BY <1>1, <1>3, <2>1, <2>2, <2>3, <2>4
<1> QED BY <1>2, <1>7, <1>8

LEMMA TimeOfWeek ==
  ASSUME NEW d, isWeekday(d), NEW s \in TimesOfDay
  PROVE  d * MinutesPerDay + s \in 0..(WeekMinutes - 1) /\ d * MinutesPerDay \in Nat
<1>1. d * MinutesPerDay \in Nat /\ d * MinutesPerDay + MinutesPerDay <= WeekMinutes
  BY WeekIs DEF isWeekday
<1>2. PICK x \in Nat : x = d * MinutesPerDay
  BY <1>1
<1>3. s \in 0..(MinutesPerDay - 1) /\ x + MinutesPerDay <= WeekMinutes
  BY <1>1, <1>2 DEF TimesOfDay
<1>4. x + s \in 0..(WeekMinutes - 1)
  BY <1>3, WeekIs
<1> QED BY <1>2, <1>4

DailyWindow(d, s) ==
    [start |-> d * MinutesPerDay + s.start,
     end |-> (d * MinutesPerDay + s.end + (IF s.end < s.start THEN MinutesPerDay ELSE 0)) % WeekMinutes]

LEMMA DailyIs ==
  ASSUME NEW d, isWeekday(d), NEW s, s.start \in TimesOfDay, s.end \in TimesOfDay,
         NEW m \in 0..(WeekMinutes - 1)
  PROVE  contains(DailyWindow(d, s), m)
           <=> Covers(d * MinutesPerDay + s.start, (s.end - s.start) % MinutesPerDay, m)
<1>1. PICK n \in Nat \ {0} : n = MinutesPerDay
  BY WeekIs
<1>2. PICK i \in 0..(n - 1), j \in 0..(n - 1) : i = s.start /\ j = s.end
  BY <1>1 DEF TimesOfDay
<1>3. PICK x \in Nat : x = d * MinutesPerDay
  BY TimeOfWeek
<1>4. PICK b \in 0..(WeekMinutes - 1) : b = x + i
  BY <1>2, <1>3, TimeOfWeek
<1>5. (j - i) % n = IF j < i THEN j - i + n ELSE j - i
  <2>1. CASE j < i
    <3>1. PICK v \in Int, r \in 0..(n - 1) : v = j - i /\ r = j - i + n
      BY <1>2, <2>1
    <3>2. v = n * (-1) + r
      BY <3>1
    <3>3. v % n = r
      BY <3>2, RemainderIs
    <3> QED BY <2>1, <3>1, <3>3
  <2>2. CASE j >= i
    <3>1. PICK r \in 0..(n - 1) : r = j - i
      BY <1>2, <2>2
    <3>2. r = n * 0 + r
      OBVIOUS
    <3>3. r % n = r
      BY <3>2, RemainderIs
    <3> QED BY <2>2, <3>1, <3>3
  <2> QED BY <2>1, <2>2
<1>6. PICK l \in 0..(n - 1) : l = (j - i) % n
  BY <1>2, <1>5
<1>7. l \in 0..(WeekMinutes - 1)
  <2>1. isWeekday(0)
    BY TimetableAssumption DEF isWeekday
  <2>2. 0 * MinutesPerDay + MinutesPerDay <= WeekMinutes
    BY <2>1, WeekIs DEF isWeekday
  <2> QED BY <1>1, <2>2, WeekIs
<1>8. b + l = x + j + (IF j < i THEN n ELSE 0)
  BY <1>2, <1>4, <1>5, <1>6
<1>9. DailyWindow(d, s) = [start |-> b, end |-> (b + l) % WeekMinutes]
  BY <1>1, <1>2, <1>3, <1>4, <1>8 DEF DailyWindow
<1>10. contains([start |-> b, end |-> (b + l) % WeekMinutes], m) <=> Covers(b, l, m)
  BY <1>7, WindowCovers
<1> QED BY <1>1, <1>2, <1>3, <1>4, <1>6, <1>9, <1>10

SpanWindow(s) ==
    [start |-> s.startDay * MinutesPerDay + s.start, end |-> s.endDay * MinutesPerDay + s.end]

LEMMA SpanIs ==
  ASSUME NEW s, isWeekday(s.startDay), isWeekday(s.endDay),
         s.start \in TimesOfDay, s.end \in TimesOfDay, NEW m \in 0..(WeekMinutes - 1)
  PROVE  contains(SpanWindow(s), m)
           <=> Covers(s.startDay * MinutesPerDay + s.start,
                      ((s.endDay - s.startDay) * MinutesPerDay + s.end - s.start) % WeekMinutes, m)
<1>1. PICK w \in Nat \ {0} : w = WeekMinutes
  BY WeekIs
<1>2. PICK n \in Nat \ {0} : n = MinutesPerDay
  BY WeekIs
<1>3. PICK i \in 0..(n - 1), j \in 0..(n - 1) : i = s.start /\ j = s.end
  BY <1>2 DEF TimesOfDay
<1>4. PICK c \in Int, d \in Int : c = s.startDay /\ d = s.endDay
  BY DEF isWeekday
<1>5. PICK b \in 0..(w - 1) : b = c * n + i
  BY <1>1, <1>2, <1>3, <1>4, TimeOfWeek
<1>6. PICK e \in 0..(w - 1) : e = d * n + j
  BY <1>1, <1>2, <1>3, <1>4, TimeOfWeek
<1>7. PICK v \in Int : v = e - b /\ v = (d - c) * n + j - i
  <2>1. PICK x \in Int, y \in Int : x = c * n /\ y = d * n
    OBVIOUS
  <2>2. (d - c) * n = y - x
    BY <2>1
  <2>3. b = x + i /\ e = y + j
    BY <1>5, <1>6, <2>1
  <2>4. (d - c) * n + j - i = e - b
    BY <2>2, <2>3
  <2>5. e - b \in Int
    OBVIOUS
  <2> QED BY <2>4, <2>5
<1>8. PICK l \in 0..(w - 1) : l = v % w
  BY DivIs
<1>9. PICK q \in Int : q = v \div w
  BY DivIs
<1>10. (b + l) % w = e
  <2>1. v = w * q + l
    BY <1>8, <1>9, DivIs
  <2>2. b + l = w * (-q) + e /\ -q \in Int /\ b + l \in Int
    BY <1>7, <2>1
  <2>3. PICK z \in Int, u \in Int : z = b + l /\ u = -q
    BY <2>2
  <2>4. z = w * u + e
    BY <2>2, <2>3
  <2>5. z % w = e
    BY <2>4, RemainderIs
  <2> QED BY <2>3, <2>5
<1>11. SpanWindow(s) = [start |-> b, end |-> (b + l) % w]
  BY <1>2, <1>3, <1>4, <1>5, <1>6, <1>10 DEF SpanWindow
<1>12. contains([start |-> b, end |-> (b + l) % w], m) <=> Covers(b, l, m)
  BY <1>1, WindowCovers
<1> QED BY <1>1, <1>2, <1>3, <1>4, <1>5, <1>7, <1>8, <1>11, <1>12

\* The windows of a schedule cover the minutes it means (parseWindow, weeklyWindow.contains).
LEMMA WindowMeant ==
  ASSUME NEW s \in Written, NEW m \in 0..(WeekMinutes - 1)
  PROVE  (\E w \in parseWindow(s) : contains(w, m)) <=> Meant(s, m)
<1>1. CASE s.form = "daily"
  <2>1. s.start \in TimesOfDay /\ s.end \in TimesOfDay
    BY <1>1 DEF Written, Unusable
  <2>2. parseWindow(s) = {DailyWindow(d, s) : d \in {x \in s.days : isWeekday(x)}}
    BY <1>1 DEF parseWindow, DailyWindow
  <2>3. Meant(s, m) <=> \E d \in s.days :
          isWeekday(d) /\ Covers(d * MinutesPerDay + s.start, (s.end - s.start) % MinutesPerDay, m)
    BY <1>1 DEF Meant, Covers
  <2> QED BY <2>1, <2>2, <2>3, DailyIs
<1>2. CASE s.form = "span"
  <2>1. s.start \in TimesOfDay /\ s.end \in TimesOfDay
    BY <1>2 DEF Written, Unusable
  <2>2. parseWindow(s) = IF isWeekday(s.startDay) /\ isWeekday(s.endDay) THEN {SpanWindow(s)} ELSE {}
    BY <1>2 DEF parseWindow, SpanWindow
  <2>3. Meant(s, m) <=>
          /\ isWeekday(s.startDay) /\ isWeekday(s.endDay)
          /\ Covers(s.startDay * MinutesPerDay + s.start,
                    ((s.endDay - s.startDay) * MinutesPerDay + s.end - s.start) % WeekMinutes, m)
    BY <1>2 DEF Meant, Covers
  <2> QED BY <2>1, <2>2, <2>3, SpanIs
<1>3. CASE s.form = "unusable"
  BY <1>3 DEF parseWindow, Meant
<1>4. s.form \in {"daily", "span", "unusable"}
  BY DEF Written, Unusable
<1> QED BY <1>1, <1>2, <1>3, <1>4

-----------------------------------------------------------------------------
(* Exceptions, resolved and put in a row.                                   *)

LEMMA LeastNumber ==
    ASSUME NEW S \in SUBSET Nat, S # {}
    PROVE  \E m \in S : \A k \in S : m <= k
<1> DEFINE R == {p \in Nat \X Nat : p[1] < p[2]}
<1>1. IsWellFoundedOn(R, Nat)
  BY NatLessThanWellFounded DEF OpToRel
<1>2. PICK m \in S : \A k \in S : ~(<<k, m>> \in R)
  <2> HIDE DEF R
  <2> QED BY <1>1, WFMin
<1>3. \A k \in S : ~(k < m)
  BY <1>2
<1> QED BY <1>3

\* What holds at 0 and goes on holding does not stop (the set of the numbers it holds for).
LEMMA GoesOn ==
  ASSUME NEW G, NEW n \in Nat, 0 \in G, \A k \in 0..(n - 1) : k \in G => k + 1 \in G
  PROVE  n \in G
<1> SUFFICES ASSUME n \notin G PROVE FALSE
  OBVIOUS
<1>1. PICK S \in SUBSET Nat : S = {k \in 0..n : k \notin G}
  <2>1. PICK S : S = {k \in 0..n : k \notin G}
    BY Zenon
  <2>2. S \in SUBSET Nat
    BY <2>1
  <2> QED BY <2>1, <2>2, Zenon
<1>2. S # {}
  BY <1>1
<1>3. PICK m \in S : \A k \in S : m <= k
  BY <1>2, LeastNumber
<1>4. m \in 0..n /\ m \notin G /\ m # 0
  BY <1>1, <1>3
<1>5. m - 1 \in 0..(n - 1) /\ m - 1 \notin S
  BY <1>3, <1>4
<1>6. m - 1 \in G
  BY <1>1, <1>5
<1> QED BY <1>4, <1>5, <1>6

Flattening(S, n, f) == f = [i \in 1..n |-> IF i = 1 THEN S[i] ELSE f[i - 1] \o S[i]]

LEMMA FlatteningExists ==
  ASSUME NEW S, NEW n \in Nat
  PROVE  \E f : Flattening(S, n, f)
<1>1. PICK G : G = {k \in 0..n : \E f : Flattening(S, k, f)}
  BY Zenon
<1>2. 0 \in G
  <2>1. Flattening(S, 0, [i \in {} |-> i])
    BY DEF Flattening
  <2> QED BY <1>1, <2>1
<1>3. ASSUME NEW k \in 0..(n - 1), k \in G PROVE k + 1 \in G
  <2>1. PICK f : Flattening(S, k, f)
    BY <1>1, <1>3
  <2>2. PICK v : v = IF k = 0 THEN S[1] ELSE f[k] \o S[k + 1]
    OBVIOUS
  <2>3. PICK g : g = [i \in 1..(k + 1) |-> IF i = k + 1 THEN v ELSE f[i]]
    OBVIOUS
  <2>4. ASSUME NEW i \in 1..(k + 1) PROVE g[i] = IF i = 1 THEN S[i] ELSE g[i - 1] \o S[i]
    <3>1. CASE i = k + 1
      <4>1. g[i] = v
        BY <2>3, <3>1
      <4>2. i # 1 => g[i - 1] = f[k]
        BY <2>3, <3>1
      <4> QED BY <2>2, <3>1, <4>1, <4>2
    <3>2. CASE i # k + 1
      <4>1. i \in 1..k /\ g[i] = f[i]
        BY <2>3, <3>2
      <4>2. f[i] = IF i = 1 THEN S[i] ELSE f[i - 1] \o S[i]
        BY <2>1, <4>1 DEF Flattening
      <4>3. i # 1 => g[i - 1] = f[i - 1]
        BY <2>3, <4>1
      <4> QED BY <4>1, <4>2, <4>3
    <3> QED BY <3>1, <3>2
  <2>5. Flattening(S, k + 1, g)
    BY <2>3, <2>4 DEF Flattening
  <2> QED BY <1>1, <2>5
<1>4. n \in G
  BY <1>2, <1>3, GoesOn
<1> QED BY <1>1, <1>4

\* Flattened are all the elements, and no others.
LEMMA FlattenIs ==
  ASSUME NEW E, NEW S \in Seq(Seq(E))
  PROVE  /\ FlattenSeq(S) \in Seq(E)
         /\ Range(FlattenSeq(S)) = UNION {Range(S[i]) : i \in 1..Len(S)}
<1>1. Len(S) \in Nat /\ \A i \in 1..Len(S) : S[i] \in Seq(E)
  BY ElementOfSeq, LenProperties
<1>2. CASE Len(S) = 0
  <2>1. FlattenSeq(S) = S /\ S = <<>>
    BY <1>2, EmptySeq DEF FlattenSeq
  <2>2. Range(<<>>) = {}
    BY DEF Range
  <2> QED BY <1>2, <2>1, <2>2, EmptySeq
<1>3. CASE Len(S) # 0
  <2>1. PICK f : f = CHOOSE g : Flattening(S, Len(S), g)
    BY Zenon
  <2>2. Flattening(S, Len(S), f)
    BY <1>1, <2>1, FlatteningExists, Zenon
  <2>3. FlattenSeq(S) = f[Len(S)]
    BY <1>3, <2>1, Zenon DEF FlattenSeq, Flattening
  <2>4. PICK G : G = {k \in 0..Len(S) : k = 0 \/ (f[k] \in Seq(E) /\ Range(f[k]) = UNION {Range(S[i]) : i \in 1..k})}
    BY Zenon
  <2>5. ASSUME NEW k \in 0..(Len(S) - 1), k \in G PROVE k + 1 \in G
    <3>1. k + 1 \in 1..Len(S) /\ S[k + 1] \in Seq(E)
      BY <1>1
    <3>2. f[k + 1] = IF k = 0 THEN S[k + 1] ELSE f[k] \o S[k + 1]
      <4>1. \A i \in 1..Len(S) : f[i] = IF i = 1 THEN S[i] ELSE f[i - 1] \o S[i]
        BY <2>2, Zenon DEF Flattening
      <4>2. f[k + 1] = IF k + 1 = 1 THEN S[k + 1] ELSE f[(k + 1) - 1] \o S[k + 1]
        BY <3>1, <4>1, Zenon
      <4>3. (k + 1) - 1 = k /\ (k + 1 = 1 <=> k = 0)
        OBVIOUS
      <4> QED BY <4>2, <4>3, Zenon
    <3>3. CASE k = 0
      <4>1. f[k + 1] = S[1] /\ 1..(k + 1) = {1}
        BY <3>2, <3>3
      <4> QED BY <2>4, <3>1, <3>3, <4>1
    <3>4. CASE k # 0
      <4>1. f[k] \in Seq(E) /\ Range(f[k]) = UNION {Range(S[i]) : i \in 1..k}
        BY <2>4, <2>5, <3>4
      <4>2. f[k + 1] \in Seq(E) /\ Range(f[k + 1]) = Range(f[k]) \cup Range(S[k + 1])
        BY <3>1, <3>2, <3>4, <4>1, ConcatProperties, RangeConcatenation
      <4>3. 1..(k + 1) = (1..k) \cup {k + 1}
        OBVIOUS
      <4>4. Range(f[k + 1]) = UNION {Range(S[i]) : i \in 1..(k + 1)}
        BY <4>1, <4>2, <4>3
      <4> QED BY <2>4, <3>1, <4>2, <4>4
    <3> QED BY <3>3, <3>4
  <2>6. Len(S) \in G
    <3>1. PICK n \in Nat : n = Len(S)
      BY <1>1
    <3>2. 0 \in G /\ \A k \in 0..(n - 1) : k \in G => k + 1 \in G
      <4>1. 0 \in G
        BY <2>4, <1>1
      <4> QED BY <2>5, <3>1, <4>1
    <3>3. n \in G
      BY <3>2, GoesOn
    <3> QED BY <3>1, <3>3
  <2> QED BY <1>3, <2>3, <2>4, <2>6
<1> QED BY <1>2, <1>3

Interval == [from : Int, to : Int, active : BOOLEAN]

\* The interval an entry stands for.
Stands(e, v) == resolveException(e) = <<v>>

LEMMA ResolvedIs ==
  ASSUME NEW e \in WrittenException
  PROVE  /\ resolveException(e) \in Seq(Interval)
         /\ resolveException(e) = <<>> \/ \E v \in Interval : v.from < v.to /\ Stands(e, v)
         /\ \A v : Stands(e, v) => /\ v \in Interval /\ v.from = e.start - e.zone * Minute
                                   /\ v.active = (e.state = "Up") /\ e.state \in {"Up", "Down"}
<1>1. e.start \in Int /\ e.end \in Int /\ e.zone \in Int /\ e.endForm \in {"none", "date", "time"}
  BY DEF WrittenException
<1>2. PICK to \in Int :
        to = CASE e.endForm = "none" -> endOfDay(e.start)
               [] e.endForm = "date" -> endOfDay(e.end)
               [] e.endForm = "time" -> e.end
  <2>1. PICK n \in Nat \ {0} : n = DayTicks
    BY TimetableAssumption DEF DayTicks, Minute
  <2>2. endOfDay(e.start) \in Int /\ endOfDay(e.end) \in Int
    <3>1. PICK a \in Int, b \in Int : a = e.start \div n /\ b = e.end \div n
      BY <1>1, DivIs
    <3>2. (a + 1) * n \in Int /\ (b + 1) * n \in Int
      OBVIOUS
    <3> QED BY <2>1, <3>1, <3>2 DEF endOfDay
  <2> QED BY <1>1, <2>2
<1>3. PICK v : v = [from |-> e.start - e.zone * Minute, to |-> to - e.zone * Minute,
                    active |-> e.state = "Up"]
  BY Zenon
<1>4. v \in Interval
  <2>1. e.start - e.zone * Minute \in Int /\ to - e.zone * Minute \in Int
    BY <1>1, <1>2 DEF Minute
  <2> QED BY <1>3, <2>1 DEF Interval
<1>5. resolveException(e) = IF to <= e.start \/ e.state \notin {"Up", "Down"} THEN <<>> ELSE <<v>>
  BY <1>2, <1>3 DEF resolveException
<1>6. v.from < v.to <=> ~(to <= e.start)
  BY <1>1, <1>2, <1>3 DEF Minute
<1>7. resolveException(e) \in Seq(Interval)
  BY <1>4, <1>5, EmptySeq
<1>8. ASSUME NEW u, Stands(e, u) PROVE u = v /\ e.state \in {"Up", "Down"}
  <2>1. resolveException(e) # <<>>
    BY <1>8 DEF Stands
  <2>2. resolveException(e) = <<v>> /\ e.state \in {"Up", "Down"}
    BY <1>5, <2>1
  <2> QED BY <1>8, <2>2 DEF Stands
<1>9. resolveException(e) = <<>> \/ (v.from < v.to /\ Stands(e, v))
  BY <1>5, <1>6 DEF Stands
<1> QED BY <1>3, <1>4, <1>7, <1>8, <1>9

LEMMA AllResolved ==
  ASSUME NEW es \in Seq(WrittenException)
  PROVE  /\ resolveAll(es) \in Seq(Interval)
         /\ \A v \in Range(resolveAll(es)) : v.from < v.to /\ \E e \in Range(es) : Stands(e, v)
         /\ \A e \in Range(es) : \A v : Stands(e, v) => v \in Range(resolveAll(es))
<1>1. PICK S : S = [i \in DOMAIN es |-> resolveException(es[i])]
  BY Zenon
<1>2. Len(es) \in Nat /\ DOMAIN es = 1..Len(es) /\ \A i \in DOMAIN es : es[i] \in WrittenException
  BY ElementOfSeq, LenProperties
<1>3. ASSUME NEW i \in DOMAIN es PROVE S[i] = resolveException(es[i]) /\ S[i] \in Seq(Interval)
  BY <1>1, <1>2, ResolvedIs
<1>4. S \in Seq(Seq(Interval)) /\ Len(S) = Len(es)
  BY <1>1, <1>2, <1>3
<1>5. resolveAll(es) \in Seq(Interval)
      /\ Range(resolveAll(es)) = UNION {Range(S[i]) : i \in 1..Len(S)}
  <2>1. resolveAll(es) = FlattenSeq(S)
    BY <1>1, Zenon DEF resolveAll
  <2> QED BY <1>4, <2>1, FlattenIs
<1>6. ASSUME NEW e, NEW v, Stands(e, v) PROVE Range(resolveException(e)) = {v}
  <2>1. resolveException(e) = <<v>>
    BY <1>6 DEF Stands
  <2>2. Range(<<v>>) = {v}
    BY DEF Range
  <2> QED BY <2>1, <2>2
<1>7. ASSUME NEW v \in Range(resolveAll(es)) PROVE v.from < v.to /\ \E e \in Range(es) : Stands(e, v)
  <2>1. PICK i \in DOMAIN es : v \in Range(S[i])
    BY <1>2, <1>4, <1>5
  <2>2. es[i] \in Range(es) /\ v \in Range(resolveException(es[i]))
    BY <1>3, <2>1 DEF Range
  <2>3. resolveException(es[i]) # <<>>
    BY <2>2 DEF Range
  <2>4. PICK u \in Interval : u.from < u.to /\ Stands(es[i], u)
    BY <1>2, <2>3, ResolvedIs
  <2> QED BY <1>6, <2>2, <2>4
<1>8. ASSUME NEW e \in Range(es), NEW v, Stands(e, v) PROVE v \in Range(resolveAll(es))
  <2>1. PICK i \in DOMAIN es : e = es[i]
    BY DEF Range
  <2>2. v \in Range(S[i])
    BY <1>3, <1>6, <1>8, <2>1
  <2> QED BY <1>2, <1>4, <1>5, <2>2
<1> QED BY <1>5, <1>7, <1>8

\* The days come first, up to n, the own exceptions after them.
Row(own, days, x, n) ==
    /\ \A i \in DOMAIN x : \/ i <= n /\ \E e \in Range(days) : Stands(e, x[i])
                           \/ i > n /\ \E e \in Range(own) : Stands(e, x[i])
    /\ \A e \in Range(own) : \A v : Stands(e, v) => \E i \in DOMAIN x : i > n /\ x[i] = v

LEMMA InARow ==
  ASSUME NEW own \in Seq(WrittenException), NEW days \in Seq(WrittenException),
         NEW x, x = ResolveExceptions(own, days)
  PROVE  /\ x \in Seq(Interval) /\ \A i \in DOMAIN x : x[i].from < x[i].to
         /\ \E n \in Nat : Row(own, days, x, n)
<1>1. PICK a \in Seq(Interval) : a = resolveAll(days)
  BY AllResolved
<1>2. PICK b \in Seq(Interval) : b = resolveAll(own)
  BY AllResolved
<1>3. PICK n \in Nat : n = Len(a)
  BY LenProperties
<1>4. PICK m \in Nat : m = Len(b)
  BY LenProperties
<1>5. x = a \o b /\ x \in Seq(Interval) /\ DOMAIN x = 1..(n + m)
      /\ \A i \in 1..(n + m) : x[i] = IF i <= n THEN a[i] ELSE b[i - n]
  <2>1. x = a \o b
    BY <1>1, <1>2 DEF ResolveExceptions
  <2>2. x \in Seq(Interval) /\ Len(x) = n + m
    BY <1>3, <1>4, <2>1, ConcatProperties
  <2> QED BY <1>3, <1>4, <2>1, <2>2, ConcatProperties, LenProperties
<1>6. ASSUME NEW i \in 1..(n + m)
      PROVE  \/ i <= n /\ x[i] \in Range(a)
             \/ i > n /\ x[i] \in Range(b)
  <2>1. CASE i <= n
    <3>1. i \in DOMAIN a /\ x[i] = a[i]
      BY <1>3, <1>5, <2>1, LenProperties
    <3> QED BY <2>1, <3>1 DEF Range
  <2>2. CASE i > n
    <3>1. i - n \in DOMAIN b /\ x[i] = b[i - n]
      BY <1>4, <1>5, <2>2, LenProperties
    <3> QED BY <2>2, <3>1 DEF Range
  <2> QED BY <2>1, <2>2
<1>7. ASSUME NEW e \in Range(own), NEW v, Stands(e, v) PROVE \E i \in DOMAIN x : i > n /\ x[i] = v
  <2>1. v \in Range(b)
    BY <1>2, <1>7, AllResolved
  <2>2. PICK j \in 1..m : b[j] = v
    BY <1>4, <2>1, LenProperties DEF Range
  <2>3. PICK i \in 1..(n + m) : i > n /\ ~(i <= n) /\ i - n = j
    <3>1. n + j \in 1..(n + m) /\ n + j > n /\ ~(n + j <= n) /\ (n + j) - n = j
      OBVIOUS
    <3> QED BY <3>1
  <2>4. x[i] = b[j]
    <3>1. x[i] = IF i <= n THEN a[i] ELSE b[i - n]
      BY <1>5, Zenon
    <3> QED BY <2>3, <3>1
  <2>5. i \in DOMAIN x /\ i > n /\ x[i] = v
    BY <1>5, <2>2, <2>3, <2>4
  <2> QED BY <2>5, Zenon
<1>8. ASSUME NEW i \in DOMAIN x
      PROVE  /\ x[i].from < x[i].to
             /\ \/ i <= n /\ \E e \in Range(days) : Stands(e, x[i])
                \/ i > n /\ \E e \in Range(own) : Stands(e, x[i])
  BY <1>1, <1>2, <1>5, <1>6, AllResolved
<1>9. Row(own, days, x, n)
  BY <1>7, <1>8 DEF Row
<1> QED BY <1>5, <1>8, <1>9

-----------------------------------------------------------------------------
(* The exception in force.                                                  *)

\* A timetable as the operator works with it.
Usable(x) ==
    /\ x.schedules \in Seq(Written)
    /\ x.exceptions \in Seq(Interval)
    /\ \A i \in DOMAIN x.exceptions : x.exceptions[i].from < x.exceptions[i].to
    /\ x.lead \in Nat /\ x.lead % Minute = 0

CoversAt(x, t, i) ==
    i \in DOMAIN x.exceptions /\ x.exceptions[i].from <= t /\ t < x.exceptions[i].to
Outranks(x, i, j) ==
    \/ x.exceptions[j].from < x.exceptions[i].from
    \/ x.exceptions[j].from = x.exceptions[i].from /\ j <= i

LEMMA ExceptionIs ==
  ASSUME NEW x, Usable(x), NEW t \in Int
  PROVE  /\ DOMAIN x.exceptions \subseteq Nat \ {0}
         /\ \A j \in DOMAIN x.exceptions : x.exceptions[j] \in Interval
         /\ \/ exceptionAt(x, t) = 0 /\ \A j : ~CoversAt(x, t, j)
            \/ /\ exceptionAt(x, t) # 0 /\ CoversAt(x, t, exceptionAt(x, t))
               /\ \A j : CoversAt(x, t, j) => Outranks(x, exceptionAt(x, t), j)
<1>1. PICK n \in Nat : n = Len(x.exceptions) /\ DOMAIN x.exceptions = 1..n
  BY LenProperties DEF Usable
<1>2. \A j \in 1..n : x.exceptions[j] \in Interval
  BY <1>1, ElementOfSeq DEF Usable
<1>3. \A j \in 1..n : x.exceptions[j].from \in Int
  BY <1>2 DEF Interval
<1>4. PICK C : C = {i \in DOMAIN x.exceptions : x.exceptions[i].from <= t /\ t < x.exceptions[i].to}
  BY Zenon
<1>5. \A j : j \in C <=> CoversAt(x, t, j)
  BY <1>4, Zenon DEF CoversAt
<1>6. exceptionAt(x, t) = IF C = {} THEN 0 ELSE CHOOSE i \in C : \A j \in C : Outranks(x, i, j)
  <2> DEFINE D == {i \in DOMAIN x.exceptions : x.exceptions[i].from <= t /\ t < x.exceptions[i].to}
  <2>1. exceptionAt(x, t) = IF D = {} THEN 0 ELSE CHOOSE i \in D : \A j \in D : Outranks(x, i, j)
    BY DEF exceptionAt, Outranks
  <2>2. C = D
    BY <1>4
  <2> HIDE DEF D
  <2> QED BY <2>1, <2>2
<1>7. C # {} => \E i \in C : \A j \in C : Outranks(x, i, j)
  <2> DEFINE Upto(k) == {j \in C : j <= k}
  <2>1. PICK G : G = {k \in 0..n : Upto(k) = {} \/ \E i \in Upto(k) : \A j \in Upto(k) : Outranks(x, i, j)}
    BY Zenon
  <2>2. 0 \in G
    BY <1>1, <1>4, <2>1
  <2>3. ASSUME NEW k \in 0..(n - 1), k \in G PROVE k + 1 \in G
    <3>1. CASE k + 1 \notin C
      <4>1. Upto(k + 1) = Upto(k)
        BY <1>1, <1>4, <3>1
      <4> QED BY <2>1, <2>3, <4>1
    <3>2. CASE k + 1 \in C
      <4>1. Upto(k + 1) = Upto(k) \cup {k + 1}
        BY <1>1, <1>4, <3>2
      <4>2. Outranks(x, k + 1, k + 1)
        BY DEF Outranks
      <4>3. CASE Upto(k) = {}
        BY <2>1, <2>3, <4>1, <4>2, <4>3
      <4>4. CASE Upto(k) # {}
        <5>1. PICK i \in Upto(k) : \A j \in Upto(k) : Outranks(x, i, j)
          BY <2>1, <2>3, <4>4
        <5>2. i \in 1..n /\ k + 1 \in 1..n /\ i <= k
          BY <1>1, <1>4, <3>2
        <5>3. CASE x.exceptions[i].from <= x.exceptions[k + 1].from
          <6>1. ASSUME NEW j \in Upto(k) PROVE Outranks(x, k + 1, j)
            <7>1. Outranks(x, i, j) /\ j \in 1..n
              BY <1>1, <1>4, <5>1
            <7> QED BY <1>3, <5>2, <5>3, <7>1 DEF Outranks
          <6>2. \A j \in Upto(k + 1) : Outranks(x, k + 1, j)
            BY <4>1, <4>2, <6>1
          <6>3. k + 1 \in Upto(k + 1) /\ k + 1 \in 0..n
            BY <4>1, <5>2
          <6> QED BY <2>1, <6>2, <6>3
        <5>4. CASE ~(x.exceptions[i].from <= x.exceptions[k + 1].from)
          <6>1. Outranks(x, i, k + 1)
            BY <1>3, <5>2, <5>4 DEF Outranks
          <6>2. \A j \in Upto(k + 1) : Outranks(x, i, j)
            BY <4>1, <5>1, <6>1
          <6>3. i \in Upto(k + 1) /\ k + 1 \in 0..n
            BY <4>1, <5>1, <5>2
          <6> QED BY <2>1, <6>2, <6>3
        <5> QED BY <5>3, <5>4
      <4> QED BY <4>3, <4>4
    <3> QED BY <3>1, <3>2
  <2>4. n \in G
    BY <2>2, <2>3, GoesOn
  <2>5. Upto(n) = C
    BY <1>1, <1>4
  <2> QED BY <2>1, <2>4, <2>5
<1>8. CASE C = {}
  BY <1>1, <1>2, <1>5, <1>6, <1>8
<1>9. CASE C # {}
  <2>1. exceptionAt(x, t) \in C /\ \A j \in C : Outranks(x, exceptionAt(x, t), j)
    BY <1>6, <1>7, <1>9, Zenon
  <2>2. exceptionAt(x, t) # 0
    BY <1>1, <1>4, <2>1
  <2> QED BY <1>1, <1>2, <1>5, <2>1, <2>2
<1> QED BY <1>8, <1>9

LEMMA TimetableIs ==
  ASSUME NEW x \in Timetables
  PROVE  Usable(x)
<1>1. /\ x.schedules \in Seq(Written)
      /\ x.own \in Seq(WrittenException) /\ x.days \in Seq(WrittenException)
      /\ x.exceptions = ResolveExceptions(x.own, x.days)
      /\ x.lead \in Nat /\ x.lead % Minute = 0
  BY TimetableAssumption
<1>2. x.exceptions \in Seq(Interval) /\ \A i \in DOMAIN x.exceptions : x.exceptions[i].from < x.exceptions[i].to
  BY <1>1, InARow
<1> QED BY <1>1, <1>2 DEF Usable

\* When e is meant to be in force.
MeantAt(e, t) ==
    LET local == t + e.zone * Minute
    IN  /\ e.start <= local
        /\ CASE e.endForm = "none" -> local \div DayTicks = e.start \div DayTicks
             [] e.endForm = "date" -> local \div DayTicks <= e.end \div DayTicks
             [] e.endForm = "time" -> local < e.end

LEMMA DayEnds ==
  ASSUME NEW l \in Int, NEW u \in Int, l \div DayTicks <= u \div DayTicks
  PROVE  l < endOfDay(u) /\ endOfDay(u) \in Int
<1>1. PICK n \in Nat \ {0} : n = DayTicks
  BY TimetableAssumption DEF DayTicks, Minute
<1>2. PICK a \in Int, b \in Int : a = l \div n /\ b = u \div n
  BY DivIs
<1>3. PICK r \in 0..(n - 1) : r = l % n
  BY DivIs
<1>4. l = n * a + r
  BY <1>2, <1>3, DivIs
<1>5. a <= b
  BY <1>1, <1>2
<1>6. (b + 1) * n \in Int /\ (b - a) * n >= 0
  BY <1>5
<1>7. (b + 1) * n = n * a + n + (b - a) * n
  OBVIOUS
<1>8. n * a \in Int /\ (b - a) * n \in Int
  OBVIOUS
<1>9. l < (b + 1) * n
  BY <1>4, <1>6, <1>7, <1>8
<1> QED BY <1>1, <1>2, <1>6, <1>9 DEF endOfDay

LEMMA MeantIsResolved ==
  ASSUME NEW e \in WrittenException, NEW t \in Int, e.state \in {"Up", "Down"}, MeantAt(e, t)
  PROVE  \E v \in Interval : Stands(e, v) /\ v.from <= t /\ t < v.to
<1>1. e.start \in Int /\ e.end \in Int /\ e.zone \in Int /\ e.endForm \in {"none", "date", "time"}
  BY DEF WrittenException
<1>2. PICK z \in Int : z = e.zone * Minute
  BY <1>1 DEF Minute
<1>3. e.start <= t + z /\ CASE e.endForm = "none" -> (t + z) \div DayTicks = e.start \div DayTicks
                             [] e.endForm = "date" -> (t + z) \div DayTicks <= e.end \div DayTicks
                             [] e.endForm = "time" -> t + z < e.end
  BY <1>2, Zenon DEF MeantAt
<1>4. PICK to \in Int : t + z < to /\
        to = CASE e.endForm = "none" -> endOfDay(e.start)
               [] e.endForm = "date" -> endOfDay(e.end)
               [] e.endForm = "time" -> e.end
  <2>1. PICK l \in Int : l = t + z
    BY <1>2
  <2>2. CASE e.endForm = "none"
    <3>1. PICK a \in Int : a = l \div DayTicks /\ a = e.start \div DayTicks
      <4>1. l \div DayTicks = e.start \div DayTicks
        BY <1>3, <2>1, <2>2
      <4>2. PICK n \in Nat \ {0} : n = DayTicks
        BY TimetableAssumption DEF DayTicks, Minute
      <4> QED BY <4>1, <4>2, DivIs
    <3>2. l \div DayTicks <= e.start \div DayTicks
      BY <3>1
    <3> QED BY <1>1, <2>1, <2>2, <3>2, DayEnds
  <2>3. CASE e.endForm = "date"
    <3>1. l \div DayTicks <= e.end \div DayTicks
      BY <1>3, <2>1, <2>3
    <3> QED BY <1>1, <2>1, <2>3, <3>1, DayEnds
  <2>4. CASE e.endForm = "time"
    BY <1>1, <1>3, <2>4
  <2> QED BY <1>1, <2>2, <2>3, <2>4
<1>5. PICK v : v = [from |-> e.start - z, to |-> to - z, active |-> e.state = "Up"]
  BY Zenon
<1>6. v \in Interval /\ v.from <= t /\ t < v.to
  <2>1. e.start - z \in Int /\ to - z \in Int /\ e.start - z <= t /\ t < to - z
    BY <1>1, <1>3, <1>4
  <2> QED BY <1>5, <2>1 DEF Interval
<1>7. ~(to <= e.start)
  BY <1>1, <1>3, <1>4
<1>8. resolveException(e) = <<v>>
  BY <1>2, <1>4, <1>5, <1>7 DEF resolveException
<1> QED BY <1>6, <1>8 DEF Stands

\* What an object's own exception asks for holds (ResolveExceptions, exceptionAt).
LEMMA OwnHolds ==
  ASSUME tt \in Timetables, now \in Nat
  PROVE  OwnExceptionHolds
<1>1. PICK x : x = tt /\ Usable(x)
  BY TimetableIs
<1>2. /\ x.own \in Seq(WrittenException) /\ x.days \in Seq(WrittenException)
      /\ x.exceptions = ResolveExceptions(x.own, x.days)
  BY <1>1, TimetableAssumption
<1> DEFINE Begins(f) == f.start - f.zone * Minute
           First(e) == \A f \in Range(x.own) \cup Range(x.days) :
                           \/ f = e \/ Begins(f) < Begins(e) \/ f.start > now + f.zone * Minute
                           \/ f \in Range(x.days) \ Range(x.own) /\ Begins(f) = Begins(e)
<1>3. ASSUME NEW e \in Range(x.own), e.state \in {"Up", "Down"}, MeantAt(e, now), First(e)
      PROVE  activeWithoutLead(x, now) = (e.state = "Up")
  <2>1. e \in WrittenException /\ \A f \in Range(x.own) \cup Range(x.days) : f \in WrittenException
    BY <1>2, ElementOfSeq, LenProperties DEF Range
  <2>2. PICK v \in Interval : Stands(e, v) /\ v.from <= now /\ now < v.to
    BY <1>3, <2>1, MeantIsResolved
  <2>3. PICK n \in Nat : Row(x.own, x.days, x.exceptions, n)
    BY <1>2, InARow, Zenon
  <2>4. PICK k \in DOMAIN x.exceptions : k > n /\ x.exceptions[k] = v
    BY <2>2, <2>3 DEF Row
  <2>5. CoversAt(x, now, k)
    BY <2>2, <2>4 DEF CoversAt
  <2>6. PICK i \in DOMAIN x.exceptions :
          i = exceptionAt(x, now) /\ i # 0 /\ CoversAt(x, now, i) /\ Outranks(x, i, k)
    BY <1>1, <2>5, ExceptionIs DEF CoversAt
  <2>7. PICK u \in Interval : u = x.exceptions[i] /\ u.from <= now /\ now < u.to
    BY <1>1, <2>6, ExceptionIs DEF CoversAt
  <2>8. activeWithoutLead(x, now) = u.active
    BY <2>6, <2>7 DEF activeWithoutLead
  <2>9. i \in Nat /\ k \in Nat /\ (v.from < u.from \/ (v.from = u.from /\ k <= i))
    BY <1>1, <2>4, <2>6, <2>7, ExceptionIs DEF Outranks
  <2>10. v.from = Begins(e) /\ v.from \in Int /\ u.from \in Int
    BY <2>1, <2>2, ResolvedIs DEF Interval
  <2>11. ASSUME NEW f \in Range(x.own) \cup Range(x.days), Stands(f, u)
         PROVE  /\ u.from = Begins(f) /\ ~(f.start > now + f.zone * Minute)
                /\ u.active = (f.state = "Up")
    <3>1. u.from = Begins(f) /\ u.active = (f.state = "Up")
      BY <2>1, <2>11, ResolvedIs
    <3>2. f.start \in Int /\ f.zone \in Int
      BY <2>1, <2>11 DEF WrittenException
    <3> QED BY <2>7, <2>10, <3>1, <3>2 DEF Minute
  <2>12. CASE i <= n
    <3>1. PICK f \in Range(x.days) : Stands(f, u)
      BY <2>3, <2>7, <2>9, <2>12 DEF Row
    <3>2. v.from < u.from
      BY <2>4, <2>9, <2>12
    <3>3. u.from = Begins(f) /\ ~(f.start > now + f.zone * Minute)
      BY <2>11, <3>1
    <3>4. f # e /\ ~(Begins(f) < Begins(e)) /\ Begins(f) # Begins(e)
      BY <2>10, <3>2, <3>3
    <3> QED BY <1>3, <3>3, <3>4
  <2>13. CASE i > n
    <3>1. PICK f \in Range(x.own) : Stands(f, u)
      BY <2>3, <2>7, <2>9, <2>13 DEF Row
    <3>2. u.from = Begins(f) /\ ~(f.start > now + f.zone * Minute) /\ u.active = (f.state = "Up")
      BY <2>11, <3>1
    <3>3. ~(Begins(f) < Begins(e))
      BY <2>9, <2>10, <3>2
    <3>4. f = e
      BY <1>3, <3>1, <3>2, <3>3
    <3> QED BY <2>8, <3>2, <3>4
  <2> QED BY <2>9, <2>12, <2>13
<1>4. ASSUME NEW i \in DOMAIN tt.own PROVE tt.own[i] \in Range(x.own)
  BY <1>1 DEF Range
<1> QED BY <1>1, <1>3, <1>4 DEF OwnExceptionHolds, MeantAt

\* A target is warmed up for the whole lead (ActiveAt).
LEMMA WarmInTime ==
  ASSUME tt \in Timetables, now \in Nat
  PROVE  PrewarmedInTime
<1>1. PICK l \in Nat : l = tt.lead
  BY TimetableIs DEF Usable
<1>2. ASSUME \A k \in 0..l : activeWithoutLead(tt, now + k), NEW k \in 0..l
      PROVE  ActiveAt(tt, now - k)
  <2>1. CASE l = 0
    <3>1. k = 0 /\ now + 0 = now /\ now - 0 = now /\ 0 \in 0..l
      BY <2>1
    <3>2. activeWithoutLead(tt, now)
      BY <1>2, <3>1
    <3> QED BY <3>1, <3>2 DEF ActiveAt
  <2>2. CASE l > 0
    <3>1. l - k \in 0..l /\ now - k + l = now + (l - k)
      OBVIOUS
    <3>2. activeWithoutLead(tt, now - k + l)
      BY <1>2, <3>1
    <3> QED BY <1>1, <2>2, <3>2 DEF ActiveAt
  <2> QED BY <2>1, <2>2
<1> QED BY <1>1, <1>2 DEF PrewarmedInTime

LEMMA WindowsHold ==
  ASSUME tt \in Timetables
  PROVE  WindowsMeanTheCalendar
<1>1. \A i \in DOMAIN tt.schedules : tt.schedules[i] \in Written
  BY TimetableIs, ElementOfSeq, LenProperties DEF Usable
<1> QED BY <1>1, WindowMeant DEF WindowsMeanTheCalendar

Clocked == tt \in Timetables /\ now \in Nat

LEMMA ClockedStarts == Init => Clocked
BY DEF Init, Clocked

LEMMA ClockedStep == Clocked /\ [Next]_vars => Clocked'
<1> SUFFICES ASSUME Clocked, [Next]_vars PROVE Clocked'
  OBVIOUS
<1>1. CASE Tick
  BY <1>1 DEF Clocked, Tick
<1>2. ASSUME NEW o \in Overrides, SetOverride(o) PROVE Clocked'
  BY <1>2 DEF Clocked, SetOverride
<1>3. CASE FallAsleep
  BY <1>3 DEF Clocked, FallAsleep
<1>4. CASE UNCHANGED vars
  BY <1>4 DEF Clocked, vars
<1> QED BY <1>1, <1>2, <1>3, <1>4 DEF Next

\* Whatever is written in a timetable is what happens, for any length of a day and a week:
\* its windows cover the minutes of the calendar they name, its own exceptions hold for all
\* of their days, and what must be up in time is warmed up (IsActiveAt, exceptionAt, ActiveAt).
THEOREM TimetablesMeanWhatTheySay == Spec => []MeansWhatItSays
<1>1. Clocked => MeansWhatItSays
  BY OwnHolds, WarmInTime, WindowsHold DEF Clocked, MeansWhatItSays
<1> QED BY <1>1, ClockedStarts, ClockedStep, PTL DEF Spec

-----------------------------------------------------------------------------
(* What the state depends on.                                               *)

\* No exception begins or ends after t and up to u.
NoEdge(x, t, u) ==
    \A i \in DOMAIN x.exceptions : /\ ~(t < x.exceptions[i].from /\ x.exceptions[i].from <= u)
                                   /\ ~(t < x.exceptions[i].to /\ x.exceptions[i].to <= u)

\* The same exceptions are in force, now and by the lead.
Alike(x, t, u) ==
    /\ exceptionAt(x, t) = exceptionAt(x, u)
    /\ exceptionAt(x, t + x.lead) = exceptionAt(x, u + x.lead)

LEMMA SameException ==
  ASSUME NEW x, Usable(x), NEW t \in Int, NEW u \in Int, t <= u, NoEdge(x, t, u)
  PROVE  exceptionAt(x, t) = exceptionAt(x, u)
<1> DEFINE C(v) == {i \in DOMAIN x.exceptions : x.exceptions[i].from <= v /\ v < x.exceptions[i].to}
<1>1. ASSUME NEW i \in DOMAIN x.exceptions
      PROVE  (x.exceptions[i].from <= t /\ t < x.exceptions[i].to)
               <=> (x.exceptions[i].from <= u /\ u < x.exceptions[i].to)
  <2>1. x.exceptions[i] \in Interval
    BY ExceptionIs
  <2>2. x.exceptions[i].from \in Int /\ x.exceptions[i].to \in Int
    BY <2>1 DEF Interval
  <2> QED BY <2>2 DEF NoEdge
<1>2. C(t) = C(u)
  BY <1>1
<1> DEFINE P(S) == IF S = {} THEN 0
                   ELSE CHOOSE i \in S : \A j \in S :
                            \/ x.exceptions[j].from < x.exceptions[i].from
                            \/ x.exceptions[j].from = x.exceptions[i].from /\ j <= i
<1>3. exceptionAt(x, t) = P(C(t)) /\ exceptionAt(x, u) = P(C(u))
  BY DEF exceptionAt
<1> HIDE DEF C, P
<1> QED BY <1>2, <1>3

LEMMA LeadIs ==
  ASSUME NEW x, Usable(x)
  PROVE  x.lead \in Nat /\ x.lead % Minute = 0 /\ x.schedules \in Seq(Written)
BY DEF Usable

\* Between two boundaries the exceptions are the same.
LEMMA AlikeBetween ==
  ASSUME NEW x, Usable(x), NEW t \in Int, NEW f \in Int, NEW u \in Int, t <= f, f <= u,
         \A b \in boundaries(x, t) : ~(f < b /\ b <= u)
  PROVE  Alike(x, f, u)
<1>1. PICK l \in Nat : l = x.lead
  BY LeadIs
<1>2. ASSUME NEW i \in DOMAIN x.exceptions
      PROVE  LET e == x.exceptions[i]
             IN  e.from \in Int /\ e.to \in Int /\ \A b \in {e.from, e.to, e.from - l, e.to - l} : ~(f < b /\ b <= u)
  <2>1. PICK a \in Int, c \in Int : a = x.exceptions[i].from /\ c = x.exceptions[i].to
    <3>1. x.exceptions[i] \in Interval
      BY ExceptionIs
    <3> QED BY <3>1 DEF Interval
  <2>2. ASSUME NEW b \in {a, c, a - l, c - l}, f < b /\ b <= u PROVE FALSE
    <3>1. b \in Int /\ b > t
      BY <2>2
    <3>2. b \in boundaries(x, t)
      BY <1>1, <2>1, <2>2, <3>1 DEF boundaries
    <3> QED BY <2>2, <3>2
  <2> QED BY <2>1, <2>2
<1>3. NoEdge(x, f, u)
  BY <1>2 DEF NoEdge
<1>4. NoEdge(x, f + l, u + l)
  BY <1>2 DEF NoEdge
<1>5. exceptionAt(x, f) = exceptionAt(x, u)
  BY <1>3, SameException
<1>6. exceptionAt(x, f + l) = exceptionAt(x, u + l)
  BY <1>4, SameException
<1> QED BY <1>1, <1>5, <1>6 DEF Alike

LEMMA SameState ==
  ASSUME NEW x, Usable(x), NEW t \in Int, NEW u \in Int, Alike(x, t, u), MinuteOf(t) = MinuteOf(u)
  PROVE  ActiveAt(x, t) = ActiveAt(x, u)
<1>1. MinuteOf(t + x.lead) = MinuteOf(u + x.lead) /\ t + x.lead \in Int /\ u + x.lead \in Int
  BY LeadIs, MinuteAhead
<1>2. IsActiveAt(t, x.schedules) = IsActiveAt(u, x.schedules)
  BY LeadIs, SameSchedule
<1>3. IsActiveAt(t + x.lead, x.schedules) = IsActiveAt(u + x.lead, x.schedules)
  BY <1>1, LeadIs, SameSchedule
<1> QED BY <1>2, <1>3 DEF Alike, ActiveAt, activeWithoutLead

\* Where exceptions decide, the minute does not matter.
LEMMA DecidedState ==
  ASSUME NEW x, Usable(x), NEW t \in Int, NEW u \in Int, Alike(x, t, u), exceptionsDecide(x, t)
  PROVE  ActiveAt(x, t) = ActiveAt(x, u)
<1>1. x.lead \in Nat
  BY LeadIs
<1> QED BY <1>1 DEF Alike, ActiveAt, activeWithoutLead, exceptionsDecide

\* What the schedules alone say.
Scheduled(x, t) ==
    IsActiveAt(t, x.schedules) \/ (x.lead > 0 /\ IsActiveAt(t + x.lead, x.schedules))
ScheduleOnly(x, f) == exceptionAt(x, f) = 0 /\ (x.lead <= 0 \/ exceptionAt(x, f + x.lead) = 0)

LEMMA ScheduledIs ==
  ASSUME NEW x, Usable(x), NEW t \in Int, ScheduleOnly(x, t)
  PROVE  ActiveAt(x, t) = Scheduled(x, t)
BY LeadIs DEF ScheduleOnly, Scheduled, ActiveAt, activeWithoutLead

LEMMA SameScheduled ==
  ASSUME NEW x, Usable(x), NEW t \in Int, NEW u \in Int, MinuteOf(t) = MinuteOf(u)
  PROVE  Scheduled(x, t) = Scheduled(x, u)
<1>1. MinuteOf(t + x.lead) = MinuteOf(u + x.lead) /\ t + x.lead \in Int /\ u + x.lead \in Int
  BY LeadIs, MinuteAhead
<1>2. IsActiveAt(t, x.schedules) = IsActiveAt(u, x.schedules)
  BY LeadIs, SameSchedule
<1>3. IsActiveAt(t + x.lead, x.schedules) = IsActiveAt(u + x.lead, x.schedules)
  BY <1>1, LeadIs, SameSchedule
<1> QED BY <1>2, <1>3 DEF Scheduled

-----------------------------------------------------------------------------
(* The scan through the minutes of a week.                                  *)

MinuteAfter(f, k) == truncate(f) + k * Minute
Before(f, until, k) == until = None \/ MinuteAfter(f, k) < until
Flips(x, f, until, c) ==
    {k \in 1..(WeekMinutes + 1) : Before(f, until, k) /\ ActiveAt(x, MinuteAfter(f, k)) # c}

LEMMA ScanIs ==
  ASSUME NEW x, NEW f, NEW until, NEW c
  PROVE  scheduleChangeBefore(x, f, until, c) =
           [change |-> IF Flips(x, f, until, c) = {} THEN None ELSE MinuteAfter(f, Min(Flips(x, f, until, c))),
            wholeWeek |-> Flips(x, f, until, c) = {} /\ Before(f, until, WeekMinutes + 1)]
BY DEF scheduleChangeBefore, Flips, Before, MinuteAfter

LEMMA FlipsAre == ASSUME NEW x, NEW f, NEW until, NEW c PROVE Flips(x, f, until, c) \in SUBSET Nat
<1>1. PICK w \in Nat \ {0} : w = WeekMinutes
  BY WeekIs
<1>2. 1..(w + 1) \subseteq Nat
  OBVIOUS
<1>3. Flips(x, f, until, c) \subseteq 1..(w + 1)
  BY <1>1 DEF Flips
<1> QED BY <1>2, <1>3

LEMMA MinIs ==
  ASSUME NEW S \in SUBSET Nat, S # {}
  PROVE  Min(S) \in S /\ \A k \in S : Min(S) <= k
BY LeastNumber DEF Min

LEMMA MinuteAfterIs ==
  ASSUME NEW f \in Nat, NEW k \in Nat \ {0}
  PROVE  /\ MinuteAfter(f, k) \in Nat /\ f < MinuteAfter(f, k)
         /\ MinuteAfter(f, k) \div Minute = f \div Minute + k
         /\ MinuteAfter(f, k) = Minute * (f \div Minute + k)
BY DEF MinuteAfter, truncate, Minute

\* A change that the scan reports is one.
LEMMA ScanSound ==
  ASSUME NEW x, NEW f \in Nat, NEW until, NEW c,
         NEW n, n = scheduleChangeBefore(x, f, until, c).change, n # None
  PROVE  n \in Nat /\ f < n /\ ActiveAt(x, n) # c /\ (until = None \/ n < until)
<1>1. PICK S \in SUBSET Nat : S = Flips(x, f, until, c)
  BY FlipsAre
<1>2. S # {} /\ n = MinuteAfter(f, Min(S))
  BY <1>1, ScanIs
<1>3. PICK k \in S : n = MinuteAfter(f, k)
  BY <1>2, MinIs
<1>4. k \in Nat \ {0} /\ Before(f, until, k) /\ ActiveAt(x, n) # c
  BY <1>1, <1>3 DEF Flips
<1> QED BY <1>3, <1>4, MinuteAfterIs DEF Before

\* What it finds no change in has none.
LEMMA ScanNone ==
  ASSUME NEW x, NEW f \in Nat, NEW until, NEW c, NEW k \in 1..(WeekMinutes + 1), Before(f, until, k)
  PROVE  /\ scheduleChangeBefore(x, f, until, c).change = None => ActiveAt(x, MinuteAfter(f, k)) = c
         /\ scheduleChangeBefore(x, f, until, c).wholeWeek => ActiveAt(x, MinuteAfter(f, k)) = c
<1>1. PICK S \in SUBSET Nat : S = Flips(x, f, until, c)
  BY FlipsAre
<1>2. ASSUME S = {} PROVE ActiveAt(x, MinuteAfter(f, k)) = c
  BY <1>1, <1>2 DEF Flips
<1>3. ASSUME S # {} PROVE MinuteAfter(f, Min(S)) # None
  <2>1. PICK j \in S : j = Min(S)
    BY <1>3, MinIs
  <2>2. j \in Nat \ {0}
    BY <1>1 DEF Flips
  <2>3. MinuteAfter(f, j) \in Nat
    BY <2>2, MinuteAfterIs
  <2> QED BY <2>1, <2>3 DEF None
<1> QED BY <1>1, <1>2, <1>3, ScanIs

\* The first moment after f with another state: a whole minute, within a week.
FlipsFirst(x, f, u, c) == f < u /\ ActiveAt(x, u) # c /\ \A v \in f..(u - 1) : ActiveAt(x, v) = c

LEMMA FlipIsMinute ==
  ASSUME NEW x, Usable(x), NEW f \in Nat, NEW u \in Nat, NEW c, FlipsFirst(x, f, u, c),
         \A v \in f..u : Alike(x, f, v)
  PROVE  \E k \in 1..WeekMinutes : u = MinuteAfter(f, k)
<1>1. PICK a \in Nat, b \in Nat : a = f \div Minute /\ b = u \div Minute
  BY DEF Minute
<1>2. PICK w \in Nat \ {0} : w = WeekMinutes
  BY WeekIs
<1>3. f \in f..u /\ u \in f..u /\ ActiveAt(x, f) = c /\ f < u /\ ActiveAt(x, u) # c
  BY DEF FlipsFirst
<1>4. ASSUME NEW v \in f..(u - 1) PROVE MinuteOf(v) # MinuteOf(u)
  <2>1. v \in Int /\ u \in Int /\ v \in f..u /\ ActiveAt(x, v) = c
    BY DEF FlipsFirst
  <2>2. Alike(x, v, u)
    BY <1>3, <2>1 DEF Alike
  <2>3. MinuteOf(v) = MinuteOf(u) => ActiveAt(x, v) = ActiveAt(x, u)
    BY <2>1, <2>2, SameState
  <2> QED BY <1>3, <2>1, <2>3
<1>5. a < b
  <2>1. a # b
    BY <1>1, <1>3, <1>4 DEF MinuteOf
  <2> QED BY <1>1, <1>3, <2>1 DEF Minute
<1>6. u = Minute * b
  <2> SUFFICES ASSUME u # Minute * b PROVE FALSE
    OBVIOUS
  <2>1. u - 1 \in f..(u - 1) /\ (u - 1) \div Minute = u \div Minute
    BY <1>1, <1>5 DEF Minute
  <2> QED BY <1>4, <2>1 DEF MinuteOf
<1>7. b - a \in 1..w
  <2> SUFFICES ASSUME b - a > w PROVE FALSE
    BY <1>5
  <2>1. u - Minute * w \in f..(u - 1) /\ (u - Minute * w) \div Minute = b - w
    BY <1>1, <1>6 DEF Minute
  <2>2. (b - w) % w = b % w
    <3>1. PICK y \in Int : y = b - w
      OBVIOUS
    <3>2. PICK q \in Int : q = 1
      OBVIOUS
    <3>3. (y + w * q) % w = y % w
      BY RemainderOfMore
    <3>4. w * q = w
      BY <3>2
    <3>5. y + w * q = b
      BY <3>1, <3>4
    <3> QED BY <3>1, <3>3, <3>5
  <2>3. MinuteOf(u - Minute * w) = MinuteOf(u)
    BY <1>1, <1>2, <2>1, <2>2 DEF MinuteOf
  <2> QED BY <1>4, <2>1, <2>3
<1>8. u = MinuteAfter(f, b - a)
  BY <1>1, <1>6 DEF MinuteAfter, truncate, Minute
<1> QED BY <1>2, <1>7, <1>8

\* The scan reports the first change, if it comes before the stretch ends.
LEMMA ScanFinds ==
  ASSUME NEW x, Usable(x), NEW f \in Nat, NEW u \in Nat, NEW c, FlipsFirst(x, f, u, c),
         \A v \in f..u : Alike(x, f, v), NEW until \in Nat \cup {None}, until = None \/ u < until
  PROVE  scheduleChangeBefore(x, f, until, c).change = u
<1>1. PICK S \in SUBSET Nat : S = Flips(x, f, until, c)
  BY FlipsAre
<1>2. PICK k \in 1..WeekMinutes : u = MinuteAfter(f, k)
  BY FlipIsMinute
<1>3. PICK w \in Nat \ {0} : w = WeekMinutes
  BY WeekIs
<1>4. k \in S
  <2>1. k \in 1..(WeekMinutes + 1)
    BY <1>3
  <2> QED BY <1>1, <1>2, <2>1 DEF Flips, Before, FlipsFirst
<1>5. PICK j \in S : j = Min(S) /\ j <= k
  BY <1>4, MinIs
<1>6. j \in Nat \ {0} /\ ActiveAt(x, MinuteAfter(f, j)) # c
  BY <1>1, <1>5 DEF Flips
<1>7. PICK v \in Nat : v = MinuteAfter(f, j) /\ f < v
  BY <1>6, MinuteAfterIs
<1>8. v <= u
  BY <1>2, <1>5, <1>6, <1>7 DEF MinuteAfter, truncate, Minute
<1>9. v = u
  BY <1>6, <1>7, <1>8 DEF FlipsFirst
<1> QED BY <1>1, <1>4, <1>5, <1>7, <1>9, ScanIs

\* Schedules that were steady for a week are steady.
LEMMA SteadyForever ==
  ASSUME NEW x, Usable(x), NEW f \in Nat, NEW until \in Nat \cup {None}, NEW c, ScheduleOnly(x, f),
         \A v \in Nat : f <= v /\ (until = None \/ v < until) => Alike(x, f, v),
         scheduleChangeBefore(x, f, until, c).wholeWeek,
         NEW u \in Nat
  PROVE  Scheduled(x, u) = c
<1>1. PICK w \in Nat \ {0} : w = WeekMinutes
  BY WeekIs
<1>2. PICK a \in Nat, b \in Nat : a = f \div Minute /\ b = u \div Minute
  BY DEF Minute
<1>3. PICK y \in Int : y = b - a - 1
  OBVIOUS
<1>4. PICK r \in 0..(w - 1), q \in Int : y = w * q + r
  <2>1. PICK r \in 0..(w - 1) : r = y % w
    BY DivIs
  <2>2. PICK q \in Int : q = y \div w
    BY DivIs
  <2>3. y = w * q + r
    BY <2>1, <2>2, DivIs
  <2> QED BY <2>3
<1>5. PICK k \in 1..w : k = r + 1
  OBVIOUS
<1>6. PICK v \in Nat : v = MinuteAfter(f, k) /\ f < v /\ v \div Minute = a + k
  <2>1. k \in Nat \ {0}
    OBVIOUS
  <2>2. PICK v \in Nat : v = MinuteAfter(f, k) /\ f < v /\ v \div Minute = f \div Minute + k
    BY <2>1, MinuteAfterIs
  <2> QED BY <1>2, <2>2
<1>7. MinuteOf(v) = MinuteOf(u)
  <2>1. PICK s \in Int : s = a + k
    OBVIOUS
  <2>2. (s + w * q) % w = s % w
    BY RemainderOfMore
  <2>3. s + w * q = b
    BY <1>3, <1>4, <1>5, <2>1
  <2> QED BY <1>1, <1>2, <1>6, <2>1, <2>2, <2>3 DEF MinuteOf
<1>8. Before(f, until, w + 1)
  BY <1>1, ScanIs
<1>9. Before(f, until, k)
  <2>1. MinuteAfter(f, k) <= MinuteAfter(f, w + 1) /\ MinuteAfter(f, k) \in Int /\ MinuteAfter(f, w + 1) \in Int
    BY DEF MinuteAfter, truncate, Minute
  <2> QED BY <1>8, <2>1 DEF Before
<1>10. ActiveAt(x, v) = c
  BY <1>1, <1>6, <1>9, ScanNone
<1>11. Alike(x, f, v)
  BY <1>6, <1>9 DEF Before
<1>12. ScheduleOnly(x, v)
  BY <1>11 DEF Alike, ScheduleOnly
<1>13. Scheduled(x, v) = c
  <2>1. v \in Int
    BY <1>6
  <2>2. ActiveAt(x, v) = Scheduled(x, v)
    BY <1>12, <2>1, ScheduledIs, Zenon
  <2> QED BY <1>10, <2>2
<1> QED BY <1>7, <1>13, SameScheduled

-----------------------------------------------------------------------------
(* The walk through the stretches.                                          *)

Until(bounds, f) ==
    LET after == {b \in bounds : b > f}
    IN  IF after = {} THEN None ELSE Min(after)
Scan(x, c, bounds, f) == scheduleChangeBefore(x, f, Until(bounds, f), c)
Steady(x, t, c, bounds, f) ==
    \/ ~hasUsableSchedule(x.schedules)
    \/ \E g \in {t} \cup bounds : g < f /\ ScheduleOnly(x, g) /\ Scan(x, c, bounds, g).wholeWeek
Scanned(x, t, c, bounds, f) ==
    IF exceptionsDecide(x, f) \/ (ScheduleOnly(x, f) /\ Steady(x, t, c, bounds, f)) THEN None
    ELSE Scan(x, c, bounds, f).change
Found(x, t, c, bounds, f) ==
    IF Scanned(x, t, c, bounds, f) # None THEN Scanned(x, t, c, bounds, f)
    ELSE IF Until(bounds, f) # None /\ ActiveAt(x, Until(bounds, f)) # c THEN Until(bounds, f)
    ELSE None
Hits(x, t, c, bounds) == {f \in {t} \cup bounds : Found(x, t, c, bounds, f) # None}

LEMMA ChangeAfterIs ==
  ASSUME NEW x, NEW t, NEW c, NEW bounds
  PROVE  changeAfter(x, t, c, bounds) =
           IF ~hasUsableSchedule(x.schedules) /\ x.exceptions = <<>> THEN None
           ELSE IF Hits(x, t, c, bounds) = {} THEN None
           ELSE Found(x, t, c, bounds, Min(Hits(x, t, c, bounds)))
BY Zenon DEF changeAfter, Hits, Found, Scanned, Steady, Scan, Until, ScheduleOnly

LEMMA BoundariesAre ==
  ASSUME NEW x, Usable(x), NEW t \in Nat
  PROVE  boundaries(x, t) \in SUBSET Nat /\ \A b \in boundaries(x, t) : b > t
<1>1. PICK l \in Nat : l = x.lead
  BY LeadIs
<1>2. ASSUME NEW b \in boundaries(x, t) PROVE b \in Nat /\ b > t
  <2>1. PICK i \in DOMAIN x.exceptions :
          LET e == x.exceptions[i] IN b \in {e.from, e.to, e.from - l, e.to - l} /\ b > t
    BY <1>1 DEF boundaries
  <2>2. x.exceptions[i] \in Interval
    BY ExceptionIs
  <2> QED BY <2>1, <2>2 DEF Interval
<1> QED BY <1>2

LEMMA UntilIs ==
  ASSUME NEW bounds \in SUBSET Nat, NEW f \in Nat
  PROVE  \/ Until(bounds, f) = None /\ \A b \in bounds : b <= f
         \/ /\ Until(bounds, f) \in bounds /\ Until(bounds, f) > f /\ Until(bounds, f) # None
            /\ \A b \in bounds : b > f => Until(bounds, f) <= b
<1>1. PICK S \in SUBSET Nat : S = {b \in bounds : b > f}
  <2>1. PICK S : S = {b \in bounds : b > f}
    BY Zenon
  <2>2. S \in SUBSET Nat
    BY <2>1
  <2> QED BY <2>1, <2>2, Zenon
<1>2. Until(bounds, f) = IF S = {} THEN None ELSE Min(S)
  BY <1>1 DEF Until
<1>3. CASE S = {}
  BY <1>1, <1>2, <1>3
<1>4. CASE S # {}
  <2>1. PICK m \in S : m = Min(S) /\ \A k \in S : m <= k
    BY <1>4, MinIs
  <2> QED BY <1>1, <1>2, <1>4, <2>1 DEF None
<1> QED BY <1>3, <1>4

\* The stretch of f goes up to u at least.
Reaches(x, t, f, u) ==
    /\ f \in {t} \cup boundaries(x, t) /\ f < u
    /\ \A b \in boundaries(x, t) : b > f => u <= b

LEMMA AlikeInStretch ==
  ASSUME NEW x, Usable(x), NEW t \in Nat, NEW f \in Nat, NEW u \in Nat, f >= t, f <= u,
         \A b \in boundaries(x, t) : b > f => u < b
  PROVE  \A v \in f..u : Alike(x, f, v)
<1>1. boundaries(x, t) \in SUBSET Nat
  BY BoundariesAre
<1>2. ASSUME NEW v \in f..u PROVE Alike(x, f, v)
  <2>1. \A b \in boundaries(x, t) : ~(f < b /\ b <= v)
    BY <1>1
  <2> QED BY <2>1, AlikeBetween
<1> QED BY <1>2

LEMMA FoundSound ==
  ASSUME NEW x, Usable(x), NEW t \in Nat, NEW c, NEW f \in {t} \cup boundaries(x, t),
         NEW n, n = Found(x, t, c, boundaries(x, t), f), n # None
  PROVE  /\ n \in Nat /\ f < n /\ ActiveAt(x, n) # c
         /\ \A b \in boundaries(x, t) : b > f => n <= b
<1>1. PICK B \in SUBSET Nat : B = boundaries(x, t)
  BY BoundariesAre
<1>2. f \in Nat
  BY <1>1
<1>3. PICK e : e = Until(B, f)
  BY Zenon
<1>4. \/ e = None /\ \A b \in B : b <= f
      \/ e \in B /\ e > f /\ e # None /\ \A b \in B : b > f => e <= b
  BY <1>2, <1>3, UntilIs
<1>5. CASE Scanned(x, t, c, B, f) # None
  <2>1. n = scheduleChangeBefore(x, f, e, c).change
    BY <1>1, <1>3, <1>5 DEF Found, Scanned, Scan
  <2>2. n \in Nat /\ f < n /\ ActiveAt(x, n) # c /\ (e = None \/ n < e)
    BY <1>2, <2>1, ScanSound
  <2> QED BY <1>1, <1>2, <1>4, <2>2
<1>6. CASE Scanned(x, t, c, B, f) = None
  <2>1. n = e /\ e # None /\ ActiveAt(x, e) # c
    BY <1>1, <1>3, <1>6 DEF Found
  <2> QED BY <1>1, <1>2, <1>4, <2>1
<1> QED BY <1>5, <1>6

LEMMA AlwaysOn ==
  ASSUME NEW x, ~hasUsableSchedule(x.schedules), NEW t
  PROVE  Scheduled(x, t) = TRUE
BY DEF Scheduled, IsActiveAt

\* In its stretch a change is found.
LEMMA FoundFirst ==
  ASSUME NEW x, Usable(x), NEW t \in Nat, NEW c, NEW f, NEW u \in Nat, Reaches(x, t, f, u),
         FlipsFirst(x, f, u, c)
  PROVE  Found(x, t, c, boundaries(x, t), f) = u
<1>1. PICK B \in SUBSET Nat : B = boundaries(x, t)
  BY BoundariesAre
<1>2. f \in {t} \cup B /\ f \in Nat /\ f < u /\ t <= f
  BY <1>1, BoundariesAre DEF Reaches
<1>3. PICK e : e = Until(B, f)
  BY Zenon
<1>4. \/ e = None /\ \A b \in B : b <= f
      \/ e \in B /\ e > f /\ e # None /\ \A b \in B : b > f => e <= b
  BY <1>2, <1>3, UntilIs
<1>5. ActiveAt(x, f) = c /\ ActiveAt(x, u) # c /\ \A v \in Nat : f <= v /\ v < u => ActiveAt(x, v) = c
  BY <1>2 DEF FlipsFirst
<1>6. CASE e = u
  <2>1. Scanned(x, t, c, B, f) = None
    <3> SUFFICES ASSUME Scanned(x, t, c, B, f) # None PROVE FALSE
      OBVIOUS
    <3>1. PICK n : n = scheduleChangeBefore(x, f, e, c).change
      BY Zenon
    <3>2. n # None
      BY <1>3, <3>1 DEF Scanned, Scan
    <3>3. n \in Nat /\ f < n /\ ActiveAt(x, n) # c /\ (e = None \/ n < e)
      BY <1>2, <3>1, <3>2, ScanSound
    <3>4. n < u
      BY <1>6, <3>3 DEF None
    <3>5. n \in Nat /\ f <= n
      BY <1>2, <3>3
    <3> QED BY <1>5, <3>3, <3>4, <3>5
  <2> QED BY <1>1, <1>3, <1>4, <1>5, <1>6, <2>1 DEF Found, None
<1>7. CASE e # u
  <2>1. e = None \/ (e \in Nat /\ u < e)
    BY <1>1, <1>2, <1>4, <1>7 DEF Reaches
  <2>2. \A b \in B : b > f => u < b
    BY <1>1, <1>2, <1>4, <2>1
  <2>3. \A v \in f..u : Alike(x, f, v)
    BY <1>1, <1>2, <2>2, AlikeInStretch
  <2>4. Alike(x, f, u)
    BY <1>2, <2>3
  <2>5. ~exceptionsDecide(x, f)
    BY <1>2, <1>5, <2>4, DecidedState
  <2>6. ~(ScheduleOnly(x, f) /\ Steady(x, t, c, B, f))
    <3> SUFFICES ASSUME ScheduleOnly(x, f), Steady(x, t, c, B, f) PROVE FALSE
      OBVIOUS
    <3>1. ScheduleOnly(x, u)
      BY <2>4 DEF Alike, ScheduleOnly
    <3>2. ActiveAt(x, f) = Scheduled(x, f) /\ ActiveAt(x, u) = Scheduled(x, u)
      BY <1>2, <3>1, ScheduledIs
    <3>3. CASE ~hasUsableSchedule(x.schedules)
      BY <1>5, <3>2, <3>3, AlwaysOn
    <3>4. ASSUME NEW g \in {t} \cup B, ScheduleOnly(x, g), Scan(x, c, B, g).wholeWeek PROVE FALSE
      <4>1. g \in Nat /\ t <= g
        BY <1>1, BoundariesAre
      <4>2. PICK d : d = Until(B, g)
        BY Zenon
      <4>3. \/ d = None /\ \A b \in B : b <= g
            \/ d \in B /\ d > g /\ d # None /\ \A b \in B : b > g => d <= b
        BY <4>1, <4>2, UntilIs
      <4>4. ASSUME NEW v \in Nat, g <= v /\ (d = None \/ v < d) PROVE Alike(x, g, v)
        <5>1. \A b \in boundaries(x, t) : b > g => v < b
          BY <1>1, <4>1, <4>3, <4>4
        <5>2. v \in g..v
          BY <4>1, <4>4
        <5> QED BY <4>1, <4>4, <5>1, <5>2, AlikeInStretch
      <4>5. d \in Nat \cup {None} /\ scheduleChangeBefore(x, g, d, c).wholeWeek
        BY <3>4, <4>2, <4>3 DEF Scan
      <4>6. Scheduled(x, u) = c
        BY <3>4, <4>1, <4>4, <4>5, SteadyForever
      <4> QED BY <1>5, <3>2, <4>6
    <3> QED BY <3>3, <3>4 DEF Steady
  <2>7. Scanned(x, t, c, B, f) = scheduleChangeBefore(x, f, e, c).change
    BY <1>3, <2>5, <2>6 DEF Scanned, Scan
  <2>8. e \in Nat \cup {None} /\ (e = None \/ u < e)
    BY <2>1
  <2>9. scheduleChangeBefore(x, f, e, c).change = u
    BY <1>2, <2>3, <2>8, ScanFinds
  <2> QED BY <1>1, <2>7, <2>9 DEF Found, None
<1> QED BY <1>6, <1>7

\* The next change is the first moment with another state, and none if there is none.
Foretells(x, t, n) ==
    \/ n = None /\ \A u \in Nat : t < u => ActiveAt(x, u) = ActiveAt(x, t)
    \/ n \in Nat /\ FlipsFirst(x, t, n, ActiveAt(x, t))

\* The last boundary before u, or t.
LEMMA StretchOf ==
  ASSUME NEW x, Usable(x), NEW t \in Nat, NEW u \in Nat, t < u
  PROVE  \E f \in {t} \cup boundaries(x, t) : Reaches(x, t, f, u)
<1>1. PICK B \in SUBSET Nat : B = boundaries(x, t) /\ \A b \in B : b > t
  BY BoundariesAre
<1>2. PICK S \in SUBSET Nat : \A d : d \in S <=> d \in 1..u /\ u - d \in {t} \cup B
  <2>1. PICK S : S = {d \in 1..u : u - d \in {t} \cup B}
    BY Zenon
  <2>2. S \in SUBSET Nat
    BY <2>1
  <2> QED BY <2>1, <2>2
<1>3. u - t \in S
  BY <1>2
<1>4. PICK d \in S : \A k \in S : d <= k
  BY <1>3, LeastNumber
<1>5. d \in 1..u /\ u - d \in {t} \cup B
  BY <1>2
<1>6. ASSUME NEW b \in B, b > u - d PROVE u <= b
  <2>1. CASE b < u
    <3>1. u - b \in 1..u /\ u - (u - b) = b
      BY <1>5, <2>1
    <3>2. u - b \in S
      BY <1>2, <3>1
    <3> QED BY <1>4, <1>5, <1>6, <3>1, <3>2
  <2> QED BY <2>1
<1>7. u - d < u
  BY <1>5
<1> QED BY <1>1, <1>5, <1>6, <1>7 DEF Reaches

\* The first flip after t is in some stretch, and no stretch before it has a hit.
LEMMA FirstFlip ==
  ASSUME NEW x, Usable(x), NEW t \in Nat, NEW c, c = ActiveAt(x, t), NEW v \in Nat, t < v, ActiveAt(x, v) # c
  PROVE  \E u \in Nat : /\ FlipsFirst(x, t, u, c)
                        /\ \E f \in {t} \cup boundaries(x, t) :
                             Reaches(x, t, f, u) /\ FlipsFirst(x, f, u, c)
<1>1. PICK S \in SUBSET Nat : S = {k \in Nat : t < k /\ ActiveAt(x, k) # c}
  <2>1. PICK S : S = {k \in Nat : t < k /\ ActiveAt(x, k) # c}
    BY Zenon
  <2>2. S \in SUBSET Nat
    BY <2>1
  <2> QED BY <2>1, <2>2, Zenon
<1>2. v \in S
  BY <1>1
<1>3. PICK u \in S : \A k \in S : u <= k
  BY <1>2, LeastNumber
<1>4. u \in Nat /\ t < u /\ ActiveAt(x, u) # c
  BY <1>1
<1>5. \A k \in t..(u - 1) : ActiveAt(x, k) = c
  BY <1>1, <1>3, <1>4
<1>6. PICK f \in {t} \cup boundaries(x, t) : Reaches(x, t, f, u)
  BY <1>4, StretchOf
<1>7. t <= f /\ f \in Nat /\ f < u
  BY <1>6, BoundariesAre DEF Reaches
<1>8. \A k \in f..(u - 1) : ActiveAt(x, k) = c
  BY <1>5, <1>7
<1> QED BY <1>4, <1>5, <1>6, <1>7, <1>8 DEF FlipsFirst

LEMMA NextChangeIs ==
  ASSUME NEW x, Usable(x), NEW t \in Nat
  PROVE  Foretells(x, t, NextChange(x, t))
<1>1. PICK c : c = ActiveAt(x, t)
  BY Zenon
<1>2. PICK B \in SUBSET Nat : B = boundaries(x, t) /\ \A b \in B : b > t
  BY BoundariesAre
<1>3. PICK H \in SUBSET Nat : H = Hits(x, t, c, B)
  BY DEF Hits
<1>4. PICK n : n = NextChange(x, t)
  BY Zenon
<1>5. n = IF ~hasUsableSchedule(x.schedules) /\ x.exceptions = <<>> THEN None
          ELSE IF H = {} THEN None ELSE Found(x, t, c, B, Min(H))
  BY <1>1, <1>2, <1>3, <1>4, ChangeAfterIs DEF NextChange
<1>6. CASE ~hasUsableSchedule(x.schedules) /\ x.exceptions = <<>>
  <2>1. ASSUME NEW v \in Int PROVE ScheduleOnly(x, v)
    <3>1. x.lead \in Nat /\ DOMAIN x.exceptions = {}
      BY <1>6, LeadIs
    <3>2. \A w \in Int : exceptionAt(x, w) = 0
      BY <3>1, ExceptionIs DEF CoversAt
    <3> QED BY <3>1, <3>2 DEF ScheduleOnly
  <2>2. \A v \in Int : ActiveAt(x, v) = TRUE
    BY <1>6, <2>1, ScheduledIs, AlwaysOn
  <2>3. n = None
    BY <1>5, <1>6
  <2>4. ASSUME NEW v \in Nat PROVE ActiveAt(x, v) = ActiveAt(x, t)
    <3>1. v \in Int /\ t \in Int
      OBVIOUS
    <3> QED BY <2>2, <3>1
  <2> QED BY <1>4, <2>3, <2>4 DEF Foretells
<1>7. CASE ~(~hasUsableSchedule(x.schedules) /\ x.exceptions = <<>>)
  <2>1. ASSUME NEW u \in Nat, FlipsFirst(x, t, u, c), NEW f \in {t} \cup B, Reaches(x, t, f, u),
               FlipsFirst(x, f, u, c)
        PROVE  n = u
    <3>1. Found(x, t, c, B, f) = u
      BY <1>2, <2>1, FoundFirst
    <3>2. f \in H /\ f \in Nat
      BY <1>2, <1>3, <3>1 DEF Hits, None
    <3>3. PICK g \in H : g = Min(H) /\ g <= f
      BY <3>2, MinIs
    <3>4. PICK m : m = Found(x, t, c, B, g)
      BY Zenon
    <3>5. m # None /\ g \in {t} \cup B
      BY <1>3, <3>4 DEF Hits
    <3>6. m \in Nat /\ g < m /\ ActiveAt(x, m) # c /\ \A b \in B : b > g => m <= b
      BY <1>2, <3>4, <3>5, FoundSound
    <3>7. n = m
      BY <1>5, <1>7, <3>2, <3>3, <3>4
    <3>8. t < m
      BY <1>2, <3>5, <3>6
    <3>9. u <= m
      BY <2>1, <3>6, <3>8 DEF FlipsFirst
    <3>10. CASE g = f
      BY <3>1, <3>4, <3>7, <3>10
    <3>11. CASE g # f
      <4>1. f \in B /\ f > g
        BY <1>2, <3>3, <3>5, <3>11
      <4>2. m <= f /\ f < u
        BY <3>6, <4>1, <2>1 DEF Reaches
      <4> QED BY <3>2, <3>6, <3>9, <4>2
    <3> QED BY <3>10, <3>11
  <2>2. CASE \E v \in Nat : t < v /\ ActiveAt(x, v) # c
    <3>1. PICK u \in Nat, f \in {t} \cup B :
            FlipsFirst(x, t, u, c) /\ Reaches(x, t, f, u) /\ FlipsFirst(x, f, u, c)
      BY <1>1, <1>2, <2>2, FirstFlip
    <3>2. n = u
      BY <2>1, <3>1
    <3> QED BY <1>1, <1>4, <3>1, <3>2 DEF Foretells
  <2>3. CASE \A v \in Nat : t < v => ActiveAt(x, v) = c
    <3>1. H = {}
      <4> SUFFICES ASSUME H # {} PROVE FALSE
        OBVIOUS
      <4>1. PICK g \in H : TRUE
        OBVIOUS
      <4>2. PICK m : m = Found(x, t, c, B, g)
        BY Zenon
      <4>3. m # None /\ g \in {t} \cup B
        BY <1>3, <4>2 DEF Hits
      <4>4. m \in Nat /\ g < m /\ ActiveAt(x, m) # c
        BY <1>2, <4>2, <4>3, FoundSound
      <4>5. t < m
        BY <1>2, <4>3, <4>4
      <4> QED BY <2>3, <4>4, <4>5
    <3>2. n = None
      BY <1>5, <1>7, <3>1
    <3> QED BY <1>1, <1>4, <2>3, <3>2 DEF Foretells
  <2> QED BY <2>2, <2>3
<1> QED BY <1>6, <1>7

-----------------------------------------------------------------------------
(* Decisions.                                                               *)

OverrideType == [active : {"none", "up", "down"}, until : Nat \cup {None}]

LEMMA UnforcedIs ==
  ASSUME NEW x, Usable(x), NEW t \in Nat, NEW o, EffectiveOverride(o, t) = "none"
  PROVE  /\ decide(x, o, t).active = ActiveAt(x, t)
         /\ decide(x, o, t).next = NextChange(x, t)
         /\ decide(x, o, t).mode \in {"Prewarm", "Exception", "Schedule", "AlwaysOn"}
         /\ decide(x, o, t).mode = "Schedule" => exceptionAt(x, t) = 0 /\ hasUsableSchedule(x.schedules)
         /\ decide(x, o, t).mode = "AlwaysOn" => ~hasUsableSchedule(x.schedules)
<1>1. PICK i : i = exceptionAt(x, t)
  BY Zenon
<1>2. PICK a : a = IF i # 0 /\ ~prewarming(x, t) THEN x.exceptions[i].active ELSE ActiveAt(x, t)
  BY Zenon
<1>3. decide(x, o, t) =
        [active |-> a,
         mode |-> IF prewarming(x, t) THEN "Prewarm" ELSE IF i # 0 THEN "Exception"
                  ELSE IF hasUsableSchedule(x.schedules) THEN "Schedule" ELSE "AlwaysOn",
         next |-> NextChange(x, t)]
  BY <1>1, <1>2 DEF decide
<1>4. a = ActiveAt(x, t)
  <2>1. CASE i # 0 /\ ~prewarming(x, t)
    <3>1. x.exceptions[i] \in Interval
      BY <1>1, <2>1, ExceptionIs DEF CoversAt
    <3>2. x.exceptions[i].active \in BOOLEAN
      BY <3>1 DEF Interval
    <3> QED BY <1>1, <1>2, <2>1, <3>2 DEF ActiveAt, activeWithoutLead, prewarming
  <2>2. CASE ~(i # 0 /\ ~prewarming(x, t))
    BY <1>2, <2>2
  <2> QED BY <2>1, <2>2
<1> QED BY <1>1, <1>3, <1>4

LEMMA ForcedIs ==
  ASSUME NEW x, NEW t, NEW o \in OverrideType, EffectiveOverride(o, t) # "none"
  PROVE  /\ decide(x, o, t) = [active |-> o.active = "up", mode |-> "Manual", next |-> overrideTransition(x, o)]
         /\ o.active # "none" /\ (o.until = None \/ ~(t >= o.until))
BY DEF decide, EffectiveOverride

\* An override or the timetable: a decision knows when its state ends.
LEMMA KnowsItsEnd ==
  ASSUME NEW x, Usable(x), NEW t \in Nat, NEW o \in OverrideType
  PROVE  decide(x, o, t).active # decide(x, o, t + 1).active <=> decide(x, o, t).next = t + 1
<1>1. o.until \in Nat \cup {None} /\ o.active \in {"none", "up", "down"}
  BY DEF OverrideType
<1>2. CASE EffectiveOverride(o, t) = "none"
  <2>1. EffectiveOverride(o, t + 1) = "none"
    BY <1>1, <1>2 DEF EffectiveOverride, None
  <2>2. PICK n : n = NextChange(x, t) /\ Foretells(x, t, n)
    BY NextChangeIs
  <2>3. decide(x, o, t).active = ActiveAt(x, t) /\ decide(x, o, t).next = n
    BY <1>2, <2>2, UnforcedIs
  <2>4. decide(x, o, t + 1).active = ActiveAt(x, t + 1)
    BY <2>1, UnforcedIs
  <2>5. ActiveAt(x, t) # ActiveAt(x, t + 1) <=> n = t + 1
    <3>1. CASE n = None
      BY <2>2, <3>1 DEF Foretells, None
    <3>2. CASE n \in Nat /\ FlipsFirst(x, t, n, ActiveAt(x, t))
      <4>1. n # t + 1 => t + 1 \in t..(n - 1)
        BY <3>2 DEF FlipsFirst
      <4> QED BY <3>2, <4>1 DEF FlipsFirst
    <3> QED BY <2>2, <3>1, <3>2 DEF Foretells
  <2> QED BY <2>3, <2>4, <2>5
<1>3. CASE EffectiveOverride(o, t) # "none"
  <2>1. decide(x, o, t) = [active |-> o.active = "up", mode |-> "Manual", next |-> overrideTransition(x, o)]
        /\ o.active # "none" /\ (o.until = None \/ ~(t >= o.until))
    BY <1>3, ForcedIs
  <2>2. CASE o.until # t + 1
    <3>1. EffectiveOverride(o, t + 1) # "none"
      BY <1>1, <2>1, <2>2 DEF EffectiveOverride, None
    <3>2. decide(x, o, t + 1).active = (o.active = "up")
      BY <3>1, ForcedIs
    <3>3. overrideTransition(x, o) # t + 1
      <4>1. CASE o.until = None
        BY <4>1 DEF overrideTransition, None
      <4>2. CASE o.until # None
        <5>1. PICK u \in Nat : u = o.until /\ u > t + 1
          BY <1>1, <2>1, <2>2, <4>2
        <5>2. PICK n : n = NextChange(x, u) /\ Foretells(x, u, n)
          BY NextChangeIs
        <5>3. n # t + 1
          BY <5>1, <5>2 DEF Foretells, FlipsFirst, None
        <5> QED BY <4>2, <5>1, <5>2, <5>3 DEF overrideTransition
      <4> QED BY <4>1, <4>2
    <3> QED BY <2>1, <3>2, <3>3
  <2>3. CASE o.until = t + 1
    <3>1. EffectiveOverride(o, t + 1) = "none"
      BY <1>1, <2>3 DEF EffectiveOverride, None
    <3>2. decide(x, o, t + 1).active = ActiveAt(x, t + 1)
      BY <3>1, UnforcedIs
    <3>3. PICK n : n = NextChange(x, t + 1) /\ Foretells(x, t + 1, n)
      BY NextChangeIs
    <3>4. n # t + 1
      BY <3>3 DEF Foretells, FlipsFirst, None
    <3>5. overrideTransition(x, o) = IF ActiveAt(x, t + 1) # (o.active = "up") THEN t + 1 ELSE n
      BY <2>3, <3>3 DEF overrideTransition, None
    <3>6. decide(x, o, t).next = t + 1 <=> ActiveAt(x, t + 1) # (o.active = "up")
      <4>1. decide(x, o, t).next = overrideTransition(x, o)
        BY <2>1
      <4>2. PICK m : m = t + 1
        BY Zenon
      <4> QED BY <3>4, <3>5, <4>1, <4>2, Zenon
    <3>7. decide(x, o, t).active = (o.active = "up")
      BY <2>1
    <3> QED BY <3>2, <3>6, <3>7, Zenon
  <2> QED BY <2>2, <2>3
<1> QED BY <1>2, <1>3

\* A schedule's decision while the idle sleep lasts, and any other.
Asleep(d, until, t) == until # None /\ t < until /\ d.mode = "Schedule" /\ d.active

LEMMA IdleIs ==
  ASSUME NEW x, NEW o, NEW t \in Nat, NEW until \in Nat \cup {None}, NEW d
  PROVE  /\ ~Asleep(d, until, t) => ApplyIdle(d, until, x, o, t) = d
         /\ Asleep(d, until, t) =>
              ApplyIdle(d, until, x, o, t) =
                [active |-> FALSE, mode |-> "Idle",
                 next |-> IF decide(x, o, until).active THEN until ELSE decide(x, o, until).next]
<1>1. ~(until = None \/ t >= until \/ d.mode # "Schedule" \/ ~d.active) <=> Asleep(d, until, t)
  BY DEF Asleep, None
<1> QED BY <1>1 DEF ApplyIdle

LEMMA NeverIdle == ASSUME NEW x, NEW o, NEW t PROVE decide(x, o, t).mode # "Idle"
BY DEF decide

\* The last decision is what a reconcile decides now; the namespaces sleep only in the
\* schedule's own hours.
DecisionInv ==
    /\ Clocked /\ override \in OverrideType /\ idleUntil \in Nat \cup {None}
    /\ decision = ApplyIdle(decide(tt, override, now), idleUntil, tt, override, now)
    /\ idleUntil # None =>
         /\ decision.mode = "Idle" /\ now < idleUntil
         /\ EffectiveOverride(override, now) = "none" /\ exceptionAt(tt, now) = 0
         /\ \A t \in now..(idleUntil - 1) : ActiveAt(tt, t)

LEMMA DecisionStarts == Init => DecisionInv
<1> SUFFICES ASSUME Init PROVE DecisionInv
  OBVIOUS
<1>1. now = 0 /\ override = NoOverride /\ idleUntil = None /\ decision = decide(tt, NoOverride, 0)
  BY DEF Init
<1>2. NoOverride \in OverrideType
  BY DEF NoOverride, OverrideType, None
<1>3. ApplyIdle(decide(tt, NoOverride, 0), None, tt, NoOverride, 0) = decide(tt, NoOverride, 0)
  BY DEF ApplyIdle
<1> QED BY <1>1, <1>2, <1>3, ClockedStarts DEF DecisionInv

LEMMA ReconcileKeeps ==
  ASSUME DecisionInv, NEW t \in Nat, now <= t, NEW o \in OverrideType, Reconcile(DecisionAt(t, o), t),
         now' = t, override' = o, tt' = tt
  PROVE  DecisionInv'
<1>1. PICK d : d = decide(tt, o, t)
  BY Zenon
<1>2. decision' = ApplyIdle(d, idleUntil, tt, o, t)
      /\ idleUntil' = IF decision'.mode = "Idle" THEN idleUntil ELSE None
  BY <1>1 DEF Reconcile, DecisionAt
<1>3. idleUntil \in Nat \cup {None} /\ tt \in Timetables /\ Usable(tt) /\ now \in Nat
  BY TimetableIs DEF DecisionInv, Clocked
<1>4. CASE Asleep(d, idleUntil, t)
  <2>1. decision'.mode = "Idle" /\ idleUntil' = idleUntil
    BY <1>2, <1>3, <1>4, IdleIs
  <2>2. EffectiveOverride(o, t) = "none"
    <3>1. d.mode = "Schedule"
      BY <1>4 DEF Asleep
    <3> QED BY <1>1, <3>1, ForcedIs
  <2>3. exceptionAt(tt, t) = 0
    BY <1>1, <1>3, <1>4, <2>2, UnforcedIs DEF Asleep
  <2>4. \A s \in t..(idleUntil - 1) : ActiveAt(tt, s)
    <3>1. idleUntil \in Nat /\ \A s \in now..(idleUntil - 1) : ActiveAt(tt, s)
      BY <1>3, <1>4 DEF Asleep, DecisionInv
    <3> QED BY <1>3, <3>1
  <2>5. idleUntil # None /\ t < idleUntil
    BY <1>4 DEF Asleep
  <2> QED BY <1>1, <1>2, <1>3, <2>1, <2>2, <2>3, <2>4, <2>5 DEF DecisionInv, Clocked
<1>5. CASE ~Asleep(d, idleUntil, t)
  <2>1. decision' = d
    BY <1>2, <1>3, <1>5, IdleIs
  <2>2. idleUntil' = None
    BY <1>1, <1>2, <2>1, NeverIdle
  <2>3. ApplyIdle(d, None, tt, o, t) = d
    BY DEF ApplyIdle
  <2> QED BY <1>1, <1>3, <2>1, <2>2, <2>3 DEF DecisionInv, Clocked
<1> QED BY <1>4, <1>5

LEMMA FallAsleepKeeps ==
  ASSUME DecisionInv, FallAsleep
  PROVE  DecisionInv'
<1>1. tt \in Timetables /\ Usable(tt) /\ now \in Nat /\ override \in OverrideType /\ idleUntil \in Nat \cup {None}
  BY TimetableIs DEF DecisionInv, Clocked
<1>2. PICK d : d = decide(tt, override, now)
  BY Zenon
<1>3. decision.mode = "Schedule" /\ decision.active
  BY DEF FallAsleep
<1>4. decision = d
  <2>1. decision = ApplyIdle(d, idleUntil, tt, override, now)
    BY <1>2 DEF DecisionInv
  <2>2. Asleep(d, idleUntil, now) => decision.mode = "Idle"
    BY <1>1, <2>1, IdleIs
  <2> QED BY <1>1, <1>3, <2>1, <2>2, IdleIs
<1>5. EffectiveOverride(override, now) = "none"
  BY <1>1, <1>2, <1>3, <1>4, ForcedIs
<1>6. d.active = ActiveAt(tt, now) /\ d.next = NextChange(tt, now) /\ exceptionAt(tt, now) = 0
  BY <1>1, <1>2, <1>3, <1>4, <1>5, UnforcedIs
<1>7. PICK n : n = NextChange(tt, now) /\ Foretells(tt, now, n)
  BY <1>1, NextChangeIs
<1>8. PICK k \in Nat : k = now + idleSleepLongest /\ k > now
  <2>1. PICK w \in Nat \ {0} : w = WeekMinutes
    BY WeekIs
  <2> QED BY <1>1, <2>1 DEF idleSleepLongest, Minute
<1>9. PICK u \in Nat : u = idleUntil' /\ u > now /\ u <= k /\ (n = None \/ u <= n)
  <2>1. idleUntil' = IF n # None /\ n < k THEN n ELSE k
    BY <1>4, <1>6, <1>7, <1>8 DEF FallAsleep
  <2>2. n = None \/ (n \in Nat /\ now < n)
    BY <1>7 DEF Foretells, FlipsFirst
  <2> QED BY <1>8, <2>1, <2>2 DEF None
<1>10. decision' = ApplyIdle(d, u, tt, override, now)
       /\ tt' = tt /\ now' = now /\ override' = override
  BY <1>4, <1>9 DEF FallAsleep
<1>11. Asleep(d, u, now)
  BY <1>3, <1>4, <1>9 DEF Asleep, None
<1>12. decision'.mode = "Idle"
  BY <1>1, <1>10, <1>11, IdleIs
<1>13. \A t \in now..(u - 1) : ActiveAt(tt, t)
  <2>1. ActiveAt(tt, now)
    BY <1>3, <1>4, <1>6
  <2>2. ASSUME NEW t \in now..(u - 1) PROVE ActiveAt(tt, t) = ActiveAt(tt, now)
    <3>1. t = now \/ now < t
      BY <1>1
    <3>2. t \in Nat /\ now <= t /\ t < u
      <4>1. now \in Nat /\ u \in Nat
        BY <1>1
      <4> QED BY <4>1, <2>2
    <3>3. CASE n = None
      BY <1>7, <3>1, <3>2, <3>3 DEF Foretells, None
    <3>4. CASE n # None
      <4>1. n \in Nat /\ FlipsFirst(tt, now, n, ActiveAt(tt, now))
        BY <1>7, <3>4 DEF Foretells
      <4>2. u <= n
        BY <1>9, <3>4
      <4>3. t \in now..(n - 1)
        BY <1>1, <1>9, <3>2, <4>1, <4>2
      <4> QED BY <4>1, <4>3 DEF FlipsFirst
    <3> QED BY <3>3, <3>4
  <2> QED BY <2>1, <2>2
<1> QED BY <1>1, <1>2, <1>5, <1>6, <1>9, <1>10, <1>12, <1>13 DEF DecisionInv, Clocked

\* Every step keeps it: a reconcile at the next tick or for a new override, or the
\* idle watch.
LEMMA DecisionStep == DecisionInv /\ [Next]_vars => DecisionInv'
<1> SUFFICES ASSUME DecisionInv, [Next]_vars PROVE DecisionInv'
  OBVIOUS
<1>1. now \in Nat /\ override \in OverrideType
  BY DEF DecisionInv, Clocked
<1>2. CASE Tick
  <2>1. now' = now + 1 /\ tt' = tt /\ override' = override
        /\ Reconcile(DecisionAt(now + 1, override), now + 1)
    BY <1>2 DEF Tick
  <2>2. PICK t \in Nat : t = now + 1 /\ now <= t
    BY <1>1
  <2> QED BY <1>1, <2>1, <2>2, ReconcileKeeps
<1>3. ASSUME NEW o \in Overrides, SetOverride(o) PROVE DecisionInv'
  <2>1. PICK set : /\ set = IF o.active = "none" THEN NoOverride
                            ELSE [active |-> o.active, until |-> IF o.for = 0 THEN None ELSE now + o.for]
                   /\ override' = set /\ now' = now /\ tt' = tt /\ Reconcile(DecisionAt(now, set), now)
    BY <1>3 DEF SetOverride
  <2>2. o \in [active : {"up", "down", "none"}, for : Nat]
    BY TimetableAssumption
  <2>3. set \in OverrideType
    <3>1. CASE o.active = "none"
      BY <2>1, <3>1 DEF NoOverride, OverrideType, None
    <3>2. CASE o.active # "none"
      <4>1. PICK u : u = IF o.for = 0 THEN None ELSE now + o.for
        OBVIOUS
      <4>2. u \in Nat \cup {None}
        BY <1>1, <2>2, <4>1
      <4>3. set = [active |-> o.active, until |-> u]
        BY <2>1, <3>2, <4>1
      <4> QED BY <2>2, <4>2, <4>3 DEF OverrideType
    <3> QED BY <3>1, <3>2
  <2>4. now <= now
    BY <1>1
  <2> QED BY <1>1, <2>1, <2>3, <2>4, ReconcileKeeps
<1>4. CASE FallAsleep
  BY <1>4, FallAsleepKeeps
<1>5. CASE UNCHANGED vars
  BY <1>5 DEF vars, DecisionInv, Clocked
<1> QED BY <1>2, <1>3, <1>4, <1>5 DEF Next

LEMMA DecisionsHold == Spec => []DecisionInv
BY DecisionStarts, DecisionStep, PTL DEF Spec

\* Only the clock's tick moves the clock.
LEMMA OnlyTicks ==
  ASSUME DecisionInv, Next, now' # now
  PROVE  Tick
BY DEF Next, SetOverride, FallAsleep

\* A decision foretells its own next change: the clock changes the desired state exactly
\* when the last decision said it would, through exceptions, prewarm and overrides that
\* run out (NextChange, decide).
THEOREM DecisionsForetellTransitions == Spec => TransitionsForetold
<1>1. ASSUME DecisionInv, Next, now' # now, decision.mode # "Idle"
      PROVE  decision.active # decision'.active <=> decision.next = now'
  <2>1. now' = now + 1 /\ Reconcile(DecisionAt(now + 1, override), now + 1)
    BY <1>1, OnlyTicks DEF Tick
  <2>2. tt \in Timetables /\ Usable(tt) /\ now \in Nat /\ override \in OverrideType /\ idleUntil = None
    BY <1>1, TimetableIs DEF DecisionInv, Clocked
  <2>3. decision = decide(tt, override, now)
    BY <1>1, <2>2 DEF DecisionInv, ApplyIdle
  <2>4. decision' = decide(tt, override, now + 1)
    BY <2>1, <2>2 DEF Reconcile, DecisionAt, ApplyIdle
  <2> QED BY <2>1, <2>2, <2>3, <2>4, KnowsItsEnd
<1>2. DecisionInv /\ [Next]_vars
      => [now' # now /\ decision.mode # "Idle" =>
           (decision.active # decision'.active <=> decision.next = now')]_vars
  BY <1>1
<1> QED BY <1>2, DecisionsHold, PTL DEF Spec, TransitionsForetold

\* An override that is over stays over.
LEMMA NoLongerForced ==
  ASSUME NEW o \in OverrideType, NEW t \in Nat, NEW u \in Nat, t <= u, EffectiveOverride(o, t) = "none"
  PROVE  EffectiveOverride(o, u) = "none"
<1>1. o.until \in Nat \cup {None}
  BY DEF OverrideType
<1> QED BY <1>1 DEF EffectiveOverride, None

\* The tick after an idle decision.
LEMMA SleeperWakes ==
  ASSUME DecisionInv, Next, now' # now, decision.mode = "Idle"
  PROVE  /\ decision.next = now' => decision'.active
         /\ decision'.active => decision.next = now' \/ decision'.mode \in {"Exception", "Prewarm"}
<1>1. now' = now + 1 /\ Reconcile(DecisionAt(now + 1, override), now + 1)
  BY OnlyTicks DEF Tick
<1>2. tt \in Timetables /\ Usable(tt) /\ now \in Nat /\ override \in OverrideType /\ idleUntil \in Nat \cup {None}
  BY TimetableIs DEF DecisionInv, Clocked
<1>3. PICK t \in Nat : t = now + 1 /\ t = now' /\ now <= t
  BY <1>1, <1>2
<1>4. PICK d : d = decide(tt, override, now)
  BY Zenon
<1>5. decision = ApplyIdle(d, idleUntil, tt, override, now)
  BY <1>4 DEF DecisionInv
<1>6. Asleep(d, idleUntil, now)
  BY <1>2, <1>4, <1>5, NeverIdle, IdleIs
<1>7. PICK u \in Nat : u = idleUntil /\ now < u
  BY <1>2, <1>6 DEF Asleep
<1>8. t <= u
  BY <1>2, <1>3, <1>7
<1>9. EffectiveOverride(override, now) = "none"
  BY <1>2, <1>4, <1>6, ForcedIs DEF Asleep
<1>10. hasUsableSchedule(tt.schedules)
  BY <1>2, <1>4, <1>6, <1>9, UnforcedIs DEF Asleep
<1>11. EffectiveOverride(override, t) = "none" /\ EffectiveOverride(override, u) = "none"
  BY <1>2, <1>3, <1>7, <1>9, NoLongerForced
<1>12. PICK e : e = decide(tt, override, t)
  BY Zenon
<1>13. decision' = ApplyIdle(e, u, tt, override, t)
  BY <1>1, <1>3, <1>7, <1>12 DEF Reconcile, DecisionAt
<1>14. PICK n : n = NextChange(tt, u) /\ Foretells(tt, u, n)
  BY <1>2, NextChangeIs
<1>15. decide(tt, override, u).next = n
  BY <1>2, <1>11, <1>14, UnforcedIs
<1>16. decision.next = IF decide(tt, override, u).active THEN u ELSE n
  BY <1>2, <1>5, <1>6, <1>7, <1>15, IdleIs
<1>17. n # t
  BY <1>8, <1>14 DEF Foretells, FlipsFirst, None
<1>18. decision.next = t => decision'.active
  <2> SUFFICES ASSUME decision.next = t PROVE decision'.active
    OBVIOUS
  <2>1. u = t /\ decide(tt, override, u).active
    BY <1>16, <1>17
  <2>2. ~Asleep(e, u, t)
    BY <2>1 DEF Asleep
  <2> QED BY <1>2, <1>12, <1>13, <2>1, <2>2, IdleIs
<1>19. decision'.active => decision.next = t \/ decision'.mode \in {"Exception", "Prewarm"}
  <2> SUFFICES ASSUME decision'.active, decision'.mode \notin {"Exception", "Prewarm"}
               PROVE  decision.next = t
    OBVIOUS
  <2>1. ~Asleep(e, u, t) /\ decision' = e
    <3>1. CASE Asleep(e, u, t)
      <4>1. decision' = [active |-> FALSE, mode |-> "Idle",
                         next |-> IF decide(tt, override, u).active THEN u ELSE decide(tt, override, u).next]
        BY <1>13, <3>1, IdleIs
      <4> QED BY <4>1
    <3>2. CASE ~Asleep(e, u, t)
      BY <1>13, <3>2, IdleIs
    <3> QED BY <3>1, <3>2
  <2>2. e.mode = "Schedule"
    BY <1>2, <1>10, <1>11, <1>12, <2>1, UnforcedIs
  <2>3. u = t
    BY <1>8, <2>1, <2>2 DEF Asleep, None
  <2> QED BY <1>12, <1>16, <2>1, <2>3
<1> QED BY <1>3, <1>18, <1>19

\* A sleeper is up no later than its decision said, and earlier only because an exception
\* or a prewarm took charge; the sleep takes away hours of the schedule itself, never what
\* a user or an exception asked for (ApplyIdle, idleWatch.reconcile).
THEOREM IdleSleepersWakeInTime == Spec => SleepersWakeInTime
<1>1. DecisionInv /\ DecisionInv' /\ [Next]_vars
      => [/\ now' # now /\ decision.mode = "Idle" =>
               /\ decision.next = now' => decision'.active
               /\ decision'.active =>
                   decision.next = now' \/ decision'.mode \in {"Exception", "Prewarm"}
          /\ idleUntil' # None =>
               /\ EffectiveOverride(override', now') = "none" /\ exceptionAt(tt, now') = 0
               /\ \A t \in now'..(idleUntil' - 1) : ActiveAt(tt, t)]_vars
  <2> SUFFICES ASSUME DecisionInv, DecisionInv', Next
               PROVE  /\ now' # now /\ decision.mode = "Idle" =>
                           /\ decision.next = now' => decision'.active
                           /\ decision'.active =>
                               decision.next = now' \/ decision'.mode \in {"Exception", "Prewarm"}
                      /\ idleUntil' # None =>
                           /\ EffectiveOverride(override', now') = "none" /\ exceptionAt(tt, now') = 0
                           /\ \A t \in now'..(idleUntil' - 1) : ActiveAt(tt, t)
    OBVIOUS
  <2>1. tt' = tt
    BY DEF Next, Tick, SetOverride, FallAsleep
  <2>2. idleUntil' # None =>
          /\ EffectiveOverride(override', now') = "none" /\ exceptionAt(tt, now') = 0
          /\ \A t \in now'..(idleUntil' - 1) : ActiveAt(tt, t)
    BY <2>1 DEF DecisionInv
  <2> QED BY <2>2, SleeperWakes
<1> QED BY <1>1, DecisionsHold, PTL DEF Spec, SleepersWakeInTime

-----------------------------------------------------------------------------
(* Previews.                                                                *)

LEMMA ReasonIs ==
  ASSUME NEW x, Usable(x), NEW t \in Nat
  PROVE  reason(x, t) \in Int /\ ActiveAt(x, t) \in BOOLEAN
<1>1. exceptionAt(x, t) \in Int
  BY ExceptionIs DEF CoversAt
<1> QED BY <1>1 DEF reason, Prewarm, ActiveAt

\* The least of a time and of earlier ones after t.
LEMMA SoonerIs ==
  ASSUME NEW t \in Nat, NEW e \in Nat, t < e, NEW S, \A b \in S : b \in Nat /\ t < b /\ b < e
  PROVE  Min({e} \cup S) \in Nat /\ t < Min({e} \cup S) /\ Min({e} \cup S) <= e
<1>1. PICK T \in SUBSET Nat : T = {e} \cup S
  OBVIOUS
<1>2. PICK m \in T : m = Min(T) /\ \A k \in T : m <= k
  BY <1>1, MinIs
<1> QED BY <1>1, <1>2

\* A stretch of a preview goes forward, not beyond its end, and keeps its state.
LEMMA EndIs ==
  ASSUME NEW x, Usable(x), NEW t \in Nat, NEW to \in Nat, t < to
  PROVE  /\ endOfInterval(x, t, to) \in Nat
         /\ t < endOfInterval(x, t, to) /\ endOfInterval(x, t, to) <= to
         /\ \A v \in t..(endOfInterval(x, t, to) - 1) : ActiveAt(x, v) = ActiveAt(x, t)
<1>1. PICK n : n = NextChange(x, t) /\ Foretells(x, t, n)
  BY NextChangeIs
<1>2. PICK s : s = IF n # None /\ n < to THEN n ELSE to
  BY Zenon
<1>3. s \in Nat /\ t < s /\ s <= to
  BY <1>1, <1>2 DEF Foretells, FlipsFirst, None
<1>4. ASSUME NEW v \in t..(s - 1) PROVE ActiveAt(x, v) = ActiveAt(x, t)
  <2>1. v \in Nat /\ t <= v /\ v < s
    BY <1>3
  <2>2. CASE n = None
    <3>1. v = t \/ t < v
      BY <2>1
    <3> QED BY <1>1, <2>1, <2>2, <3>1 DEF Foretells, None
  <2>3. CASE n # None
    <3>1. n \in Nat /\ FlipsFirst(x, t, n, ActiveAt(x, t))
      BY <1>1, <2>3 DEF Foretells
    <3>2. s <= n
      BY <1>2, <2>3, <3>1
    <3>3. v \in t..(n - 1)
      BY <1>3, <2>1, <3>1, <3>2
    <3> QED BY <3>1, <3>3 DEF FlipsFirst
  <2> QED BY <2>2, <2>3
<1>5. PICK r : r = Min({s} \cup reasonChanges(x, t, s))
  BY Zenon
<1>6. ASSUME NEW b \in reasonChanges(x, t, s) PROVE b \in Nat /\ t < b /\ b < s
  <2>1. PICK i \in DOMAIN x.exceptions :
          b \in {x.exceptions[i].from, x.exceptions[i].to} /\ t < b /\ b < s
    BY DEF reasonChanges
  <2>2. x.exceptions[i] \in Interval
    BY ExceptionIs
  <2>3. b \in Int
    BY <2>1, <2>2 DEF Interval
  <2> QED BY <2>1, <2>3
<1>7. r \in Nat /\ t < r /\ r <= s
  BY <1>3, <1>5, <1>6, SoonerIs
<1>8. PICK W : W = {b \in (truncate(t) + Minute)..(r - 1) :
                      b % Minute = 0 /\ b <= t + x.lead /\ ~prewarming(x, b)}
  BY Zenon
<1>9. ASSUME NEW b \in W PROVE b \in Nat /\ t < b /\ b < r
  <2>1. truncate(t) + Minute \in Nat /\ t < truncate(t) + Minute
    BY DEF truncate, Minute
  <2> QED BY <1>7, <1>8, <2>1
<1>10. Min({r} \cup W) \in Nat /\ t < Min({r} \cup W) /\ Min({r} \cup W) <= r
  BY <1>7, <1>9, SoonerIs
<1>11. endOfInterval(x, t, to) = IF reason(x, t) = Prewarm THEN Min({r} \cup W) ELSE r
  BY <1>1, <1>2, <1>5, <1>8 DEF endOfInterval
<1>12. PICK e : e = endOfInterval(x, t, to)
  BY Zenon
<1>13. e \in Nat /\ t < e /\ e <= s
  BY <1>3, <1>7, <1>10, <1>11, <1>12
<1>14. \A v \in t..(e - 1) : v \in t..(s - 1)
  BY <1>3, <1>13
<1> QED BY <1>3, <1>4, <1>12, <1>13, <1>14

Stretch(x, t, end) == [from |-> t, to |-> end, active |-> ActiveAt(x, t), why |-> reason(x, t)]
StretchesFrom(x, from, to, f) ==
    f = [t \in from..to |->
            IF t = to THEN <<>>
            ELSE <<Stretch(x, t, endOfInterval(x, t, to))>> \o f[endOfInterval(x, t, to)]]

\* The recursion on the stretches is well founded: each one ends later.
LEMMA StretchesExist ==
  ASSUME NEW x, Usable(x), NEW from \in Nat, NEW to \in Nat, from <= to
  PROVE  \E f : StretchesFrom(x, from, to, f)
<1>1. PICK n \in Nat : n = to - from
  OBVIOUS
<1>2. PICK G : G = {k \in 0..n : \E f : StretchesFrom(x, to - k, to, f)}
  BY Zenon
<1>3. 0 \in G
  <2>1. PICK f : f = [t \in to..to |-> <<>>]
    OBVIOUS
  <2>2. f = [t \in to..to |->
               IF t = to THEN <<>>
               ELSE <<Stretch(x, t, endOfInterval(x, t, to))>> \o f[endOfInterval(x, t, to)]]
    BY <2>1
  <2>3. to - 0 = to
    OBVIOUS
  <2>4. StretchesFrom(x, to - 0, to, f)
    BY <2>2, <2>3 DEF StretchesFrom
  <2> QED BY <1>1, <1>2, <2>4
<1>4. ASSUME NEW k \in 0..(n - 1), k \in G PROVE k + 1 \in G
  <2>1. PICK b \in Nat : b = to - k /\ b <= to /\ b > 0
    BY <1>1
  <2>2. PICK f : StretchesFrom(x, b, to, f)
    BY <1>2, <1>4, <2>1
  <2>3. PICK a \in Nat : a = b - 1 /\ a < to /\ a = to - (k + 1)
    BY <2>1
  <2>4. PICK e : e = endOfInterval(x, a, to)
    BY Zenon
  <2>5. e \in b..to
    BY <2>1, <2>3, <2>4, EndIs
  <2>6. PICK v : v = <<Stretch(x, a, e)>> \o f[e]
    OBVIOUS
  <2>7. PICK g : g = [t \in a..to |-> IF t = a THEN v ELSE f[t]]
    OBVIOUS
  <2>8. ASSUME NEW t \in a..to
        PROVE  g[t] = IF t = to THEN <<>>
                      ELSE <<Stretch(x, t, endOfInterval(x, t, to))>> \o g[endOfInterval(x, t, to)]
    <3>1. CASE t = a
      <4>1. g[t] = v /\ t # to
        BY <2>3, <2>7, <3>1
      <4>2. g[e] = f[e]
        BY <2>1, <2>3, <2>5, <2>7
      <4> QED BY <2>4, <2>6, <3>1, <4>1, <4>2
    <3>2. CASE t # a
      <4>1. t \in b..to /\ g[t] = f[t]
        BY <2>1, <2>3, <2>7, <3>2
      <4>2. f[t] = IF t = to THEN <<>>
                   ELSE <<Stretch(x, t, endOfInterval(x, t, to))>> \o f[endOfInterval(x, t, to)]
        BY <2>2, <4>1 DEF StretchesFrom
      <4>3. CASE t = to
        BY <4>1, <4>2, <4>3
      <4>4. CASE t # to
        <5>1. PICK d : d = endOfInterval(x, t, to)
          BY Zenon
        <5>2. t \in Nat /\ t < to
          BY <2>1, <4>1, <4>4
        <5>3. d \in Nat /\ t < d /\ d <= to
          BY <5>1, <5>2, EndIs
        <5>4. d \in a..to /\ d # a
          BY <2>3, <4>1, <5>3
        <5>5. g[d] = f[d]
          BY <2>7, <5>4
        <5> QED BY <4>1, <4>2, <4>4, <5>1, <5>5
      <4> QED BY <4>3, <4>4
    <3> QED BY <3>1, <3>2
  <2>9. StretchesFrom(x, a, to, g)
    BY <2>7, <2>8 DEF StretchesFrom
  <2> QED BY <1>1, <1>2, <2>3, <2>9
<1>5. n \in G
  BY <1>3, <1>4, GoesOn
<1>6. to - n = from
  BY <1>1
<1> QED BY <1>2, <1>5, <1>6

Stretches == [from : Nat, to : Nat, active : BOOLEAN, why : Int]

\* The stretches s follow one another from t to to, each in one state.
Follows(x, s, t, to) ==
    /\ s \in Seq(Stretches)
    /\ IF t = to THEN s = <<>> ELSE Len(s) > 0 /\ s[1].from = t /\ s[Len(s)].to = to
    /\ \A i \in 1..Len(s) :
        /\ i > 1 => s[i].from = s[i - 1].to
        /\ \A v \in s[i].from..(s[i].to - 1) : ActiveAt(x, v) = s[i].active

LEMMA Prepended ==
  ASSUME NEW e \in Stretches, NEW s \in Seq(Stretches)
  PROVE  /\ <<e>> \o s \in Seq(Stretches) /\ Len(s) \in Nat /\ Len(<<e>> \o s) = Len(s) + 1
         /\ (<<e>> \o s)[1] = e
         /\ \A i \in 1..Len(s) : (<<e>> \o s)[i + 1] = s[i] /\ s[i] \in Stretches
<1>1. PICK p : p = <<e>>
  OBVIOUS
<1>2. p \in Seq(Stretches) /\ Len(p) = 1 /\ p[1] = e
  BY <1>1
<1>3. Len(s) \in Nat /\ \A i \in 1..Len(s) : s[i] \in Stretches
  BY LenProperties, ElementOfSeq
<1>4. /\ p \o s \in Seq(Stretches) /\ Len(p \o s) = 1 + Len(s)
      /\ \A i \in 1..(1 + Len(s)) : (p \o s)[i] = IF i <= 1 THEN p[i] ELSE s[i - 1]
  <2>1. /\ p \o s \in Seq(Stretches) /\ Len(p \o s) = Len(p) + Len(s)
        /\ \A i \in 1..(Len(p) + Len(s)) : (p \o s)[i] = IF i <= Len(p) THEN p[i] ELSE s[i - Len(p)]
    BY <1>2, ConcatProperties, Zenon
  <2>2. Len(p) = 1
    BY <1>2
  <2> QED BY <2>1, <2>2
<1>5. ASSUME NEW i \in 1..Len(s) PROVE (p \o s)[i + 1] = s[i]
  <2>1. i + 1 \in 1..(1 + Len(s)) /\ ~(i + 1 <= 1) /\ (i + 1) - 1 = i
    BY <1>3
  <2> QED BY <1>4, <2>1
<1>6. (p \o s)[1] = e
  <2>1. 1 \in 1..(1 + Len(s)) /\ 1 <= 1
    BY <1>3
  <2> QED BY <1>2, <1>4, <2>1
<1> QED BY <1>1, <1>3, <1>4, <1>5, <1>6

\* A stretch before the stretches that follow it.
LEMMA FollowedBy ==
  ASSUME NEW x, Usable(x), NEW t \in Nat, NEW end \in Nat, NEW to \in Nat, t < end, end <= to,
         \A v \in t..(end - 1) : ActiveAt(x, v) = ActiveAt(x, t),
         NEW s, Follows(x, s, end, to)
  PROVE  Follows(x, <<Stretch(x, t, end)>> \o s, t, to)
<1>1. PICK e \in Stretches : e = Stretch(x, t, end)
  <2>1. PICK a \in BOOLEAN : a = ActiveAt(x, t)
    BY ReasonIs, Zenon
  <2>2. PICK w \in Int : w = reason(x, t)
    BY ReasonIs
  <2>3. Stretch(x, t, end) = [from |-> t, to |-> end, active |-> a, why |-> w]
    BY <2>1, <2>2, Zenon DEF Stretch
  <2>4. [from |-> t, to |-> end, active |-> a, why |-> w] \in Stretches
    BY DEF Stretches
  <2> QED BY <2>3, <2>4
<1>2. e.from = t /\ e.to = end
  BY <1>1 DEF Stretch
<1>3. e.active = ActiveAt(x, t)
  BY <1>1, Zenon DEF Stretch
<1>4. s \in Seq(Stretches)
  BY DEF Follows
<1>5. PICK q : q = <<e>> \o s
  OBVIOUS
<1>6. PICK n \in Nat : n = Len(s)
  BY <1>4, LenProperties
<1>7. /\ q \in Seq(Stretches) /\ Len(q) = n + 1 /\ q[1] = e
      /\ \A i \in 1..n : q[i + 1] = s[i] /\ s[i] \in Stretches
  BY <1>4, <1>5, <1>6, Prepended
<1>8. IF end = to THEN n = 0 ELSE n > 0 /\ s[1].from = end /\ s[n].to = to
  BY <1>4, <1>6, EmptySeq DEF Follows
<1>9. \A i \in 1..n : /\ i > 1 => s[i].from = s[i - 1].to
                      /\ \A v \in s[i].from..(s[i].to - 1) : ActiveAt(x, v) = s[i].active
  BY <1>6 DEF Follows
<1>10. q[1].from = t
  BY <1>2, <1>7
<1>11. q[n + 1].to = to
  <2>1. CASE end = to
    BY <1>2, <1>7, <1>8, <2>1
  <2>2. CASE end # to
    <3>1. n \in 1..n
      BY <1>8, <2>2
    <3> QED BY <1>7, <1>8, <2>2, <3>1
  <2> QED BY <2>1, <2>2
<1>12. ASSUME NEW i \in 1..(n + 1)
       PROVE  /\ i > 1 => q[i].from = q[i - 1].to
              /\ \A v \in q[i].from..(q[i].to - 1) : ActiveAt(x, v) = q[i].active
  <2>1. CASE i = 1
    <3>1. q[i] = e
      BY <1>7, <2>1
    <3>2. ASSUME NEW v \in t..(end - 1) PROVE ActiveAt(x, v) = e.active
      <4>1. ActiveAt(x, v) = ActiveAt(x, t)
        OBVIOUS
      <4> QED BY <1>3, <4>1, Zenon
    <3> QED BY <1>2, <2>1, <3>1, <3>2
  <2>2. CASE i # 1
    <3>1. PICK j \in 1..n : i = j + 1 /\ i - 1 = j
      BY <1>6, <2>2
    <3>2. q[i] = s[j]
      BY <1>7, <3>1
    <3>3. \A v \in q[i].from..(q[i].to - 1) : ActiveAt(x, v) = q[i].active
      BY <1>9, <3>2
    <3>4. q[i].from = q[j].to
      <4>1. CASE j = 1
        <5>1. end # to
          BY <1>8, <3>1
        <5> QED BY <1>2, <1>7, <1>8, <3>2, <4>1, <5>1
      <4>2. CASE j # 1
        <5>1. PICK k \in 1..n : j = k + 1 /\ j - 1 = k
          BY <3>1, <4>2
        <5>2. q[j] = s[k] /\ s[j].from = s[k].to
          BY <1>7, <1>9, <3>1, <5>1
        <5> QED BY <3>2, <5>2
      <4> QED BY <4>1, <4>2
    <3> QED BY <3>1, <3>3, <3>4
  <2> QED BY <2>1, <2>2
<1>13. Len(q) > 0 /\ t # to
  BY <1>6, <1>7
<1>14. Follows(x, q, t, to)
  BY <1>7, <1>10, <1>11, <1>12, <1>13 DEF Follows
<1> QED BY <1>1, <1>5, <1>14

\* All the way to the end.
LEMMA StretchesFollow ==
  ASSUME NEW x, Usable(x), NEW from \in Nat, NEW to \in Nat, from <= to, NEW f, StretchesFrom(x, from, to, f)
  PROVE  Follows(x, f[from], from, to)
<1>1. PICK n \in Nat : n = to - from
  OBVIOUS
<1>2. PICK S \in SUBSET Nat : S = {k \in 0..n : ~Follows(x, f[to - k], to - k, to)}
  <2>1. PICK S : S = {k \in 0..n : ~Follows(x, f[to - k], to - k, to)}
    BY Zenon
  <2>2. S \in SUBSET Nat
    BY <2>1
  <2> QED BY <2>1, <2>2, Zenon
<1>3. S = {}
  <2> SUFFICES ASSUME S # {} PROVE FALSE
    OBVIOUS
  <2>1. PICK k \in S : \A j \in S : k <= j
    BY LeastNumber
  <2>2. PICK t \in from..to : t = to - k /\ ~Follows(x, f[t], t, to)
    BY <1>1, <1>2
  <2>3. f[t] = IF t = to THEN <<>>
               ELSE <<Stretch(x, t, endOfInterval(x, t, to))>> \o f[endOfInterval(x, t, to)]
    BY DEF StretchesFrom
  <2>4. CASE t = to
    <3>1. f[t] = <<>>
      BY <2>3, <2>4
    <3>2. f[t] \in Seq(Stretches) /\ 1..Len(f[t]) = {}
      BY <3>1, EmptySeq
    <3> QED BY <2>2, <2>4, <3>1, <3>2 DEF Follows
  <2>5. CASE t # to
    <3>1. t \in Nat /\ t < to
      BY <2>5
    <3>2. PICK e \in Nat : /\ e = endOfInterval(x, t, to) /\ t < e /\ e <= to
                           /\ \A v \in t..(e - 1) : ActiveAt(x, v) = ActiveAt(x, t)
      BY <3>1, EndIs
    <3>3. PICK j \in 0..n : j = to - e /\ j < k /\ to - j = e
      BY <1>1, <1>2, <2>2, <3>2
    <3>4. Follows(x, f[e], e, to)
      BY <1>2, <2>1, <3>3
    <3>5. Follows(x, <<Stretch(x, t, e)>> \o f[e], t, to)
      BY <3>1, <3>2, <3>4, FollowedBy
    <3> QED BY <2>2, <2>3, <2>5, <3>2, <3>5
  <2> QED BY <2>4, <2>5
<1>4. n \notin S /\ n \in 0..n /\ to - n = from
  BY <1>1, <1>3
<1> QED BY <1>2, <1>4

LEMMA IntervalsAre ==
  ASSUME NEW x, Usable(x), NEW from \in Nat, NEW to \in Nat, from <= to
  PROVE  Follows(x, Intervals(x, from, to), from, to)
<1>1. PICK f : f = CHOOSE g : StretchesFrom(x, from, to, g)
  BY Zenon
<1>2. StretchesFrom(x, from, to, f)
  BY <1>1, StretchesExist, Zenon
<1>3. Intervals(x, from, to) = f[from]
  BY <1>1, Zenon DEF Intervals, StretchesFrom, Stretch
<1> QED BY <1>2, <1>3, StretchesFollow

\* Every stretch of a preview is in one state from its beginning to its end, and the
\* stretches follow one another through the whole period (Intervals, endOfInterval).
THEOREM PreviewsKeepState == Spec => []IntervalsKeepState
<1>1. ASSUME Clocked PROVE IntervalsKeepState
  <2>1. Usable(tt)
    BY <1>1, TimetableIs DEF Clocked
  <2>2. PICK to \in Nat : to = LastTick + 1 /\ 1 < to
    BY TimetableAssumption
  <2>3. PICK s : s = Intervals(tt, 1, to)
    BY Zenon
  <2>4. Follows(tt, s, 1, to)
    BY <2>1, <2>2, <2>3, IntervalsAre
  <2>5. s \in Seq(Stretches) /\ DOMAIN s = 1..Len(s)
    BY <2>4, LenProperties DEF Follows
  <2>6. KeepState(s, 1, to)
    BY <2>2, <2>4, <2>5 DEF KeepState, Follows
  <2> QED BY <2>2, <2>3, <2>6 DEF IntervalsKeepState
<1>2. Clocked => IntervalsKeepState
  BY <1>1
<1> QED BY <1>2, ClockedStarts, ClockedStep, PTL DEF Spec

-----------------------------------------------------------------------------
(* The depth-first search (findCycles).                                     *)

Wants(s, g) == s[g].dependsOn
Frames == [name : Groups, next : Nat \ {0}]
Search ==
    [stack : Seq(Frames), state : [Groups -> {"unvisited", "visiting", "done"}], inCycle : SUBSET Groups]

LEMMA WantsAre ==
  ASSUME NEW s \in [Groups -> GroupSpec], NEW g \in Groups
  PROVE  /\ Wants(s, g) \in Seq(Groups \cup {Missing}) /\ Len(Wants(s, g)) \in Nat
         /\ \A j \in 1..Len(Wants(s, g)) : Wants(s, g)[j] \in Groups \cup {Missing}
         /\ \A d \in Groups : d \in dependenciesIn(s, g) <=> \E j \in 1..Len(Wants(s, g)) : Wants(s, g)[j] = d
         /\ dependenciesIn(s, g) \subseteq Groups
<1>1. Wants(s, g) \in Seq(Groups \cup {Missing})
  BY DEF Wants, GroupSpec
<1>2. Len(Wants(s, g)) \in Nat /\ DOMAIN Wants(s, g) = 1..Len(Wants(s, g))
  BY <1>1, LenProperties
<1>3. \A j \in 1..Len(Wants(s, g)) : Wants(s, g)[j] \in Groups \cup {Missing}
  BY <1>1, ElementOfSeq
<1>4. Missing \notin Groups
  BY DEF Missing, Groups
<1>5. dependenciesIn(s, g) = {Wants(s, g)[j] : j \in 1..Len(Wants(s, g))} \ {Missing}
  BY <1>2 DEF dependenciesIn, Range, Wants
<1> QED BY <1>1, <1>2, <1>3, <1>4, <1>5

LEMMA NIs == N \in Nat \ {0} /\ Groups = 1..N /\ Missing \notin Groups
BY ConstantsAssumption DEF Groups, Missing

\* What one step of the search may be.
Rests(c) == c.stack = <<>> /\ \A g \in Groups : c.state[g] # "unvisited"

Begins(c, e, g) ==
    /\ c.stack = <<>> /\ c.state[g] = "unvisited"
    /\ e = [stack |-> <<Frame(g)>>, state |-> [c.state EXCEPT ![g] = "visiting"], inCycle |-> c.inCycle]

Top(c) == c.stack[Len(c.stack)]
Advanced(c) == [c.stack EXCEPT ![Len(c.stack)].next = @ + 1]

Finishes(s, c, e) ==
    /\ Len(c.stack) > 0 /\ Top(c).next > Len(Wants(s, Top(c).name))
    /\ e = [stack |-> SubSeq(c.stack, 1, Len(c.stack) - 1),
            state |-> [c.state EXCEPT ![Top(c).name] = "done"], inCycle |-> c.inCycle]

Looks(s, c, d) ==
    /\ Len(c.stack) > 0 /\ Top(c).next <= Len(Wants(s, Top(c).name))
    /\ d = Wants(s, Top(c).name)[Top(c).next]

Passes(s, c, e, d) ==
    /\ Looks(s, c, d) /\ (d = Missing \/ c.state[d] = "done")
    /\ e = [stack |-> Advanced(c), state |-> c.state, inCycle |-> c.inCycle]

Descends(s, c, e, d) ==
    /\ Looks(s, c, d) /\ d \in Groups /\ c.state[d] = "unvisited"
    /\ e = [stack |-> Append(Advanced(c), Frame(d)), state |-> [c.state EXCEPT ![d] = "visiting"],
            inCycle |-> c.inCycle]

Returns(s, c, e, d) ==
    /\ Looks(s, c, d) /\ d \in Groups /\ c.state[d] = "visiting"
    /\ e = [stack |-> Advanced(c), state |-> c.state, inCycle |-> c.inCycle \cup stackFrom(c.stack, d)]

LEMMA TopIs ==
  ASSUME NEW c \in Search
  PROVE  /\ Len(c.stack) \in Nat /\ DOMAIN c.stack = 1..Len(c.stack) /\ (c.stack = <<>> <=> Len(c.stack) = 0)
         /\ \A i \in 1..Len(c.stack) : c.stack[i] \in Frames
         /\ c.stack \in Seq(Frames) /\ c.state \in [Groups -> {"unvisited", "visiting", "done"}]
         /\ c.inCycle \in SUBSET Groups
         /\ c = [stack |-> c.stack, state |-> c.state, inCycle |-> c.inCycle]
<1>1. c.stack \in Seq(Frames) /\ c.state \in [Groups -> {"unvisited", "visiting", "done"}]
      /\ c.inCycle \in SUBSET Groups /\ c = [stack |-> c.stack, state |-> c.state, inCycle |-> c.inCycle]
  BY DEF Search
<1> QED BY <1>1, LenProperties, ElementOfSeq, EmptySeq

\* What a step may do.
Moves(s, c, e) ==
    \/ Rests(c) /\ e = c
    \/ \E g \in Groups : Begins(c, e, g)
    \/ Finishes(s, c, e)
    \/ \E d \in Groups \cup {Missing} : Passes(s, c, e, d) \/ Descends(s, c, e, d) \/ Returns(s, c, e, d)

LEMMA StepIs ==
  ASSUME NEW s \in [Groups -> GroupSpec], NEW c \in Search
  PROVE  Moves(s, c, visitStep(s, c))
<1>1. PICK U \in SUBSET Nat : U = {g \in Groups : c.state[g] = "unvisited"}
  <2>1. PICK U : U = {g \in Groups : c.state[g] = "unvisited"}
    BY Zenon
  <2>2. U \in SUBSET Nat
    BY <2>1, NIs
  <2> QED BY <2>1, <2>2, Zenon
<1>2. PICK e : e = visitStep(s, c)
  BY Zenon
<1> SUFFICES Moves(s, c, e)
  BY <1>2, Zenon
<1>3. CASE c.stack = <<>> /\ U = {}
  <2>1. e = c
    BY <1>1, <1>2, <1>3 DEF visitStep
  <2>2. \A g \in Groups : c.state[g] # "unvisited"
    BY <1>1, <1>3, Zenon
  <2>3. Rests(c) /\ e = c
    BY <1>3, <2>1, <2>2, Zenon DEF Rests
  <2> QED BY <2>3 DEF Moves
<1>4. CASE c.stack = <<>> /\ U # {}
  <2>1. PICK g \in U : g = Min(U)
    BY <1>4, MinIs
  <2>2. e = [stack |-> Append(<<>>, Frame(g)), state |-> [c.state EXCEPT ![g] = "visiting"], inCycle |-> c.inCycle]
    BY <1>1, <1>2, <1>4, <2>1 DEF visitStep
  <2>3. Append(<<>>, Frame(g)) = <<Frame(g)>>
    OBVIOUS
  <2>4. Begins(c, e, g) /\ g \in Groups
    BY <1>1, <1>4, <2>1, <2>2, <2>3 DEF Begins
  <2> QED BY <2>4, Zenon DEF Moves
<1>5. CASE c.stack # <<>>
  <2>1. Len(c.stack) \in Nat /\ Len(c.stack) > 0 /\ Top(c) \in Frames
    BY <1>5, TopIs DEF Top
  <2>2. PICK t \in Groups : t = Top(c).name
    BY <2>1 DEF Frames
  <2>3. PICK j \in Nat \ {0} : j = Top(c).next
    BY <2>1 DEF Frames
  <2>4. PICK n \in Nat : n = Len(Wants(s, t))
    BY WantsAre
  <2>5. CASE j > n
    <3>1. Top(c).next > Len(Wants(s, Top(c).name))
      BY <2>2, <2>3, <2>4, <2>5
    <3>2. e = [stack |-> Front(c.stack), state |-> [c.state EXCEPT ![Top(c).name] = "done"], inCycle |-> c.inCycle]
      BY <1>2, <1>5, <3>1, Zenon DEF visitStep, Top, Wants
    <3> QED BY <2>1, <3>1, <3>2, Zenon DEF Finishes, Front, Moves
  <2>6. CASE j <= n
    <3>1. PICK d \in Groups \cup {Missing} : d = Wants(s, t)[j]
      BY <2>3, <2>4, <2>6, WantsAre
    <3>2. Looks(s, c, d)
      BY <2>1, <2>2, <2>3, <2>4, <2>6, <3>1 DEF Looks
    <3>3. e = IF d = Missing THEN [stack |-> Advanced(c), state |-> c.state, inCycle |-> c.inCycle]
              ELSE IF c.state[d] = "unvisited"
              THEN [stack |-> Append(Advanced(c), Frame(d)), state |-> [c.state EXCEPT ![d] = "visiting"],
                    inCycle |-> c.inCycle]
              ELSE IF c.state[d] = "visiting"
              THEN [stack |-> Advanced(c), state |-> c.state, inCycle |-> c.inCycle \cup stackFrom(c.stack, d)]
              ELSE [stack |-> Advanced(c), state |-> c.state, inCycle |-> c.inCycle]
      <4>1. ~(Top(c).next > Len(s[Top(c).name].dependsOn)) /\ d = s[Top(c).name].dependsOn[Top(c).next]
        BY <2>2, <2>3, <2>4, <2>6, <3>1 DEF Wants
      <4> QED BY <1>2, <1>5, <4>1, Zenon DEF visitStep, Top, Advanced
    <3>4. CASE d = Missing
      <4>1. e = [stack |-> Advanced(c), state |-> c.state, inCycle |-> c.inCycle]
        BY <3>3, <3>4
      <4> QED BY <3>1, <3>2, <3>4, <4>1, Zenon DEF Passes, Moves
    <3>5. CASE d # Missing
      <4>1. d \in Groups /\ c.state[d] \in {"unvisited", "visiting", "done"}
        BY <3>5, TopIs
      <4>2. CASE c.state[d] = "unvisited"
        <5>1. e = [stack |-> Append(Advanced(c), Frame(d)), state |-> [c.state EXCEPT ![d] = "visiting"],
                   inCycle |-> c.inCycle]
          BY <3>3, <3>5, <4>2
        <5> QED BY <3>1, <3>2, <4>1, <4>2, <5>1, Zenon DEF Descends, Moves
      <4>3. CASE c.state[d] = "visiting"
        <5>1. e = [stack |-> Advanced(c), state |-> c.state, inCycle |-> c.inCycle \cup stackFrom(c.stack, d)]
          BY <3>3, <3>5, <4>3
        <5> QED BY <3>1, <3>2, <4>1, <4>3, <5>1, Zenon DEF Returns, Moves
      <4>4. CASE c.state[d] = "done"
        <5>1. e = [stack |-> Advanced(c), state |-> c.state, inCycle |-> c.inCycle]
          BY <3>3, <3>5, <4>4
        <5> QED BY <3>1, <3>2, <4>4, <5>1, Zenon DEF Passes, Moves
      <4> QED BY <4>1, <4>2, <4>3, <4>4
    <3> QED BY <3>4, <3>5
  <2> QED BY <2>3, <2>4, <2>5, <2>6
<1> QED BY <1>3, <1>4, <1>5

\* The stack K is a path of wants, one frame for each group that is being visited.
Stacked(s, K, T) ==
    /\ K \in Seq(Frames) /\ T \in [Groups -> {"unvisited", "visiting", "done"}]
    /\ \A i, j \in 1..Len(K) : K[i].name = K[j].name => i = j
    /\ \A g \in Groups : T[g] = "visiting" <=> \E i \in 1..Len(K) : K[i].name = g
    /\ \A i \in 1..Len(K) : K[i].next <= Len(Wants(s, K[i].name)) + 1
    /\ \A i \in 1..(Len(K) - 1) : K[i].next > 1 /\ Wants(s, K[i].name)[K[i].next - 1] = K[i + 1].name

\* A is K with the last frame one further.
Advances(K, A) ==
    /\ A \in Seq(Frames) /\ Len(A) = Len(K)
    /\ \A i \in 1..Len(K) : A[i].name = K[i].name /\ (i < Len(K) => A[i].next = K[i].next)
    /\ A[Len(K)].next = K[Len(K)].next + 1

LEMMA AdvancedIs ==
  ASSUME NEW K \in Seq(Frames), Len(K) > 0
  PROVE  Advances(K, [K EXCEPT ![Len(K)].next = @ + 1])
<1>1. PICK n \in Nat \ {0} : n = Len(K)
  BY LenProperties
<1>2. \A i \in 1..n : K[i] \in Frames
  BY <1>1, ElementOfSeq
<1>3. PICK f \in Frames : f = K[n]
  BY <1>1, <1>2
<1>4. PICK m \in Nat \ {0} : m = f.next + 1
  BY <1>3 DEF Frames
<1>5. PICK e \in Frames : e = [f EXCEPT !.next = m] /\ e.name = f.name /\ e.next = m
  <2>1. [name |-> f.name, next |-> m] \in Frames
    BY <1>4 DEF Frames
  <2>2. [f EXCEPT !.next = m] = [name |-> f.name, next |-> m]
    BY DEF Frames
  <2> QED BY <2>1, <2>2
<1>6. PICK A : A = [K EXCEPT ![n] = e]
  OBVIOUS
<1>7. A \in Seq(Frames) /\ Len(A) = n /\ \A i \in 1..n : A[i] = IF i = n THEN e ELSE K[i]
  BY <1>1, <1>6, ExceptSeq
<1>8. [K EXCEPT ![Len(K)].next = @ + 1] = A
  BY <1>1, <1>3, <1>4, <1>5, <1>6
<1> QED BY <1>1, <1>3, <1>4, <1>5, <1>7, <1>8 DEF Advances

LEMMA StackedAhead ==
  ASSUME NEW s \in [Groups -> GroupSpec], NEW K, NEW T, Stacked(s, K, T), Len(K) > 0,
         K[Len(K)].next <= Len(Wants(s, K[Len(K)].name)), NEW A, Advances(K, A)
  PROVE  Stacked(s, A, T)
<1>1. PICK n \in Nat : n = Len(K) /\ n = Len(A) /\ n > 0
  BY LenProperties DEF Stacked, Advances
<1>2. \A i \in 1..n : K[i] \in Frames /\ A[i] \in Frames /\ A[i].name = K[i].name
  BY <1>1, ElementOfSeq DEF Stacked, Advances
<1>3. \A i \in 1..n : K[i].name \in Groups /\ K[i].next \in Nat
  BY <1>2 DEF Frames
<1>4. A[n].next = K[n].next + 1 /\ \A i \in 1..n : i < n => A[i].next = K[i].next
  BY <1>1 DEF Advances
<1>5. ASSUME NEW i \in 1..n PROVE A[i].next <= Len(Wants(s, A[i].name)) + 1
  <2>1. PICK l \in Nat : l = Len(Wants(s, K[i].name)) /\ l = Len(Wants(s, A[i].name))
    BY <1>2, <1>3, WantsAre
  <2>2. K[i].next <= l + 1
    BY <1>1, <2>1 DEF Stacked
  <2>3. i = n => K[i].next <= l
    BY <1>1, <2>1
  <2>4. i = n \/ i < n
    BY <1>1
  <2> QED BY <1>3, <1>4, <2>1, <2>2, <2>3, <2>4
<1>6. ASSUME NEW i \in 1..(n - 1)
      PROVE  A[i].next > 1 /\ Wants(s, A[i].name)[A[i].next - 1] = A[i + 1].name
  <2>1. i \in 1..n /\ i + 1 \in 1..n /\ i < n
    BY <1>1
  <2>2. K[i].next > 1 /\ Wants(s, K[i].name)[K[i].next - 1] = K[i + 1].name
    BY <1>1 DEF Stacked
  <2> QED BY <1>2, <1>4, <2>1, <2>2
<1>7. \A i, j \in 1..n : A[i].name = A[j].name => i = j
  BY <1>1, <1>2 DEF Stacked
<1>8. \A g \in Groups : T[g] = "visiting" <=> \E i \in 1..n : A[i].name = g
  <2>1. \A g \in Groups : T[g] = "visiting" <=> \E i \in 1..n : K[i].name = g
    BY <1>1 DEF Stacked
  <2> QED BY <1>2, <2>1
<1>9. A \in Seq(Frames) /\ T \in [Groups -> {"unvisited", "visiting", "done"}]
  BY DEF Stacked, Advances
<1> QED BY <1>1, <1>5, <1>6, <1>7, <1>8, <1>9 DEF Stacked

\* P is K with a frame for d on top.
PushesOn(K, d, P) ==
    /\ P \in Seq(Frames) /\ Len(P) = Len(K) + 1
    /\ \A i \in 1..Len(K) : P[i] = K[i]
    /\ P[Len(K) + 1].name = d /\ P[Len(K) + 1].next = 1

LEMMA PushedIs ==
  ASSUME NEW K \in Seq(Frames), NEW d \in Groups
  PROVE  PushesOn(K, d, Append(K, Frame(d)))
<1>1. PICK f \in Frames : f = Frame(d) /\ f.name = d /\ f.next = 1
  <2>1. [name |-> d, next |-> 1] \in Frames
    BY DEF Frames
  <2> QED BY <2>1 DEF Frame
<1>2. /\ Append(K, f) \in Seq(Frames) /\ Len(Append(K, f)) = Len(K) + 1
      /\ \A i \in 1..Len(K) : Append(K, f)[i] = K[i]
      /\ Append(K, f)[Len(K) + 1] = f
  BY AppendProperties
<1> QED BY <1>1, <1>2 DEF PushesOn

LEMMA StackedMore ==
  ASSUME NEW s \in [Groups -> GroupSpec], NEW K, NEW T, Stacked(s, K, T), NEW d \in Groups, T[d] = "unvisited",
         Len(K) > 0 => K[Len(K)].next > 1 /\ Wants(s, K[Len(K)].name)[K[Len(K)].next - 1] = d,
         NEW P, PushesOn(K, d, P)
  PROVE  Stacked(s, P, [T EXCEPT ![d] = "visiting"])
<1>1. PICK n \in Nat : n = Len(K) /\ Len(P) = n + 1
  BY LenProperties DEF Stacked, PushesOn
<1>2. \A i \in 1..n : P[i] = K[i] /\ K[i] \in Frames
  BY <1>1, ElementOfSeq DEF Stacked, PushesOn
<1>3. P[n + 1].name = d /\ P[n + 1].next = 1
  BY <1>1 DEF PushesOn
<1>4. \A i \in 1..n : K[i].name # d
  BY <1>1 DEF Stacked
<1>5. PICK V : V = [T EXCEPT ![d] = "visiting"]
  OBVIOUS
<1>6. /\ V \in [Groups -> {"unvisited", "visiting", "done"}]
      /\ \A g \in Groups : V[g] = IF g = d THEN "visiting" ELSE T[g]
  BY <1>5 DEF Stacked
<1>7. ASSUME NEW i \in 1..(n + 1), NEW j \in 1..(n + 1), P[i].name = P[j].name PROVE i = j
  <2>1. \A k, l \in 1..n : K[k].name = K[l].name => k = l
    BY <1>1 DEF Stacked
  <2>2. (i \in 1..n \/ i = n + 1) /\ (j \in 1..n \/ j = n + 1)
    OBVIOUS
  <2> QED BY <1>2, <1>3, <1>4, <1>7, <2>1, <2>2
<1>8. ASSUME NEW g \in Groups PROVE V[g] = "visiting" <=> \E i \in 1..(n + 1) : P[i].name = g
  <2>1. T[g] = "visiting" <=> \E i \in 1..n : K[i].name = g
    BY <1>1 DEF Stacked
  <2>2. \A i \in 1..(n + 1) : i \in 1..n \/ i = n + 1
    OBVIOUS
  <2>3. n + 1 \in 1..(n + 1) /\ \A i \in 1..n : i \in 1..(n + 1)
    OBVIOUS
  <2>4. CASE g = d
    BY <1>3, <1>6, <2>3, <2>4
  <2>5. CASE g # d
    BY <1>2, <1>3, <1>6, <2>1, <2>2, <2>3, <2>5
  <2> QED BY <2>4, <2>5
<1>9. ASSUME NEW i \in 1..(n + 1) PROVE P[i].next <= Len(Wants(s, P[i].name)) + 1
  <2>1. CASE i \in 1..n
    BY <1>1, <1>2, <2>1 DEF Stacked
  <2>2. CASE i = n + 1
    <3>1. Len(Wants(s, d)) \in Nat
      BY WantsAre
    <3> QED BY <1>3, <2>2, <3>1
  <2> QED BY <2>1, <2>2
<1>10. ASSUME NEW i \in 1..n PROVE P[i].next > 1 /\ Wants(s, P[i].name)[P[i].next - 1] = P[i + 1].name
  <2>1. CASE i = n
    BY <1>1, <1>2, <1>3, <2>1
  <2>2. CASE i # n
    <3>1. i \in 1..(n - 1) /\ i + 1 \in 1..n
      BY <2>2
    <3>2. K[i].next > 1 /\ Wants(s, K[i].name)[K[i].next - 1] = K[i + 1].name
      BY <1>1, <3>1 DEF Stacked
    <3> QED BY <1>2, <3>1, <3>2
  <2> QED BY <2>1, <2>2
<1>11. (n + 1) - 1 = n /\ P \in Seq(Frames)
  BY DEF PushesOn
<1> QED BY <1>1, <1>5, <1>6, <1>7, <1>8, <1>9, <1>10, <1>11 DEF Stacked

LEMMA StackedLess ==
  ASSUME NEW s \in [Groups -> GroupSpec], NEW K, NEW T, Stacked(s, K, T), Len(K) > 0
  PROVE  Stacked(s, SubSeq(K, 1, Len(K) - 1), [T EXCEPT ![K[Len(K)].name] = "done"])
<1>1. PICK n \in Nat : n = Len(K) /\ n > 0
  BY LenProperties DEF Stacked
<1>2. PICK Q : Q = SubSeq(K, 1, n - 1)
  OBVIOUS
<1>3. Q \in Seq(Frames) /\ Len(Q) = n - 1 /\ \A i \in 1..(n - 1) : Q[i] = K[i]
  BY <1>1, <1>2, SubSeqProperties DEF Stacked
<1>4. PICK t \in Groups : t = K[n].name
  <2>1. K[n] \in Frames
    BY <1>1, ElementOfSeq DEF Stacked
  <2> QED BY <2>1 DEF Frames
<1>5. PICK V : V = [T EXCEPT ![t] = "done"]
  OBVIOUS
<1>6. V \in [Groups -> {"unvisited", "visiting", "done"}] /\ \A g \in Groups : V[g] = IF g = t THEN "done" ELSE T[g]
  BY <1>5 DEF Stacked
<1>7. \A i \in 1..(n - 1) : i \in 1..n /\ i # n
  BY <1>1
<1>8. \A i, j \in 1..n : K[i].name = K[j].name => i = j
  BY <1>1 DEF Stacked
<1>9. ASSUME NEW g \in Groups PROVE V[g] = "visiting" <=> \E i \in 1..(n - 1) : Q[i].name = g
  <2>1. T[g] = "visiting" <=> \E i \in 1..n : K[i].name = g
    BY <1>1 DEF Stacked
  <2>2. \A i \in 1..n : i = n \/ i \in 1..(n - 1)
    BY <1>1
  <2>3. n \in 1..n
    BY <1>1
  <2>4. CASE g = t
    BY <1>3, <1>4, <1>6, <1>7, <1>8, <2>3, <2>4
  <2>5. CASE g # t
    BY <1>3, <1>4, <1>6, <1>7, <2>1, <2>2, <2>5
  <2> QED BY <2>4, <2>5
<1>10. \A i \in 1..(n - 1) : Q[i].next <= Len(Wants(s, Q[i].name)) + 1
  BY <1>1, <1>3, <1>7 DEF Stacked
<1>11. ASSUME NEW i \in 1..((n - 1) - 1)
       PROVE  Q[i].next > 1 /\ Wants(s, Q[i].name)[Q[i].next - 1] = Q[i + 1].name
  <2>1. i \in 1..(n - 1) /\ i + 1 \in 1..(n - 1)
    BY <1>1
  <2>2. K[i].next > 1 /\ Wants(s, K[i].name)[K[i].next - 1] = K[i + 1].name
    BY <1>1, <2>1 DEF Stacked
  <2> QED BY <1>3, <2>1, <2>2
<1>12. Stacked(s, Q, V)
  <2>1. \A i, j \in 1..(n - 1) : Q[i].name = Q[j].name => i = j
    BY <1>3, <1>7, <1>8
  <2> QED BY <1>3, <1>6, <1>9, <1>10, <1>11, <2>1 DEF Stacked
<1> QED BY <1>1, <1>2, <1>4, <1>5, <1>12

\* The groups that are done lie in an order R, below m, in which what a group
\* outside C wants comes before it; what a group on the stack has looked at is done
\* or the next one on the stack, unless the group is in C.
Sorted(s, K, T, C, R, m) ==
    /\ R \in [Groups -> Nat] /\ m \in Nat
    /\ \A g \in Groups : T[g] = "done" => R[g] < m
    /\ \A g \in Groups \ C : T[g] = "done" => \A d \in dependenciesIn(s, g) : T[d] = "done" /\ R[d] < R[g]
    /\ \A i \in 1..Len(K) : K[i].name \notin C =>
         \A j \in 1..Len(Wants(s, K[i].name)) : j < K[i].next =>
            \/ Wants(s, K[i].name)[j] = Missing
            \/ T[Wants(s, K[i].name)[j]] = "done"
            \/ i < Len(K) /\ Wants(s, K[i].name)[j] = K[i + 1].name

LEMMA FramesAre ==
  ASSUME NEW K \in Seq(Frames)
  PROVE  \A i \in 1..Len(K) : K[i].name \in Groups /\ K[i].next \in Nat \ {0}
<1>1. \A i \in 1..Len(K) : K[i] \in Frames
  BY ElementOfSeq
<1> QED BY <1>1 DEF Frames

LEMMA SortedAhead ==
  ASSUME NEW s \in [Groups -> GroupSpec], NEW K, NEW T, NEW C, NEW R, NEW m, Stacked(s, K, T), Len(K) > 0,
         Sorted(s, K, T, C, R, m), NEW A, Advances(K, A), NEW B, C \subseteq B,
         LET t == K[Len(K)].name
             d == Wants(s, t)[K[Len(K)].next]
         IN  d = Missing \/ T[d] = "done" \/ t \in B
  PROVE  Sorted(s, A, T, B, R, m)
<1>1. PICK n \in Nat : n = Len(K) /\ n = Len(A) /\ n > 0
  BY LenProperties DEF Stacked, Advances
<1>2. \A i \in 1..n : K[i].name \in Groups /\ K[i].next \in Nat /\ A[i].name = K[i].name
  BY <1>1, FramesAre DEF Stacked, Advances
<1>3. A[n].next = K[n].next + 1 /\ \A i \in 1..n : i < n => A[i].next = K[i].next
  BY <1>1 DEF Advances
<1>4. ASSUME NEW i \in 1..n, A[i].name \notin B, NEW j \in 1..Len(Wants(s, A[i].name)), j < A[i].next
      PROVE  \/ Wants(s, A[i].name)[j] = Missing
             \/ T[Wants(s, A[i].name)[j]] = "done"
             \/ i < n /\ Wants(s, A[i].name)[j] = A[i + 1].name
  <2>1. PICK t : t = K[i].name /\ t = A[i].name /\ t \notin C /\ j \in 1..Len(Wants(s, t))
    BY <1>2, <1>4
  <2>2. i = n \/ (i < n /\ i + 1 \in 1..n)
    BY <1>1
  <2>3. j < K[i].next =>
            Wants(s, t)[j] = Missing \/ T[Wants(s, t)[j]] = "done" \/ (i < n /\ Wants(s, t)[j] = K[i + 1].name)
    BY <1>1, <2>1 DEF Sorted
  <2>4. j < K[i].next \/ (i = n /\ j = K[i].next)
    <3>1. Len(Wants(s, t)) \in Nat
      BY <1>2, <2>1, WantsAre
    <3> QED BY <1>2, <1>3, <1>4, <2>2, <3>1
  <2>5. CASE j < K[i].next
    BY <1>2, <2>1, <2>2, <2>3, <2>5
  <2>6. CASE i = n /\ j = K[i].next
    <3>1. t \notin B
      BY <1>4, <2>1
    <3> QED BY <1>1, <2>1, <2>6, <3>1
  <2> QED BY <2>4, <2>5, <2>6
<1>5. \A g \in Groups \ B : T[g] = "done" => \A d \in dependenciesIn(s, g) : T[d] = "done" /\ R[d] < R[g]
  <2>1. \A g \in Groups \ C : T[g] = "done" => \A d \in dependenciesIn(s, g) : T[d] = "done" /\ R[d] < R[g]
    BY DEF Sorted
  <2> QED BY <2>1
<1>6. R \in [Groups -> Nat] /\ m \in Nat /\ \A g \in Groups : T[g] = "done" => R[g] < m
  BY DEF Sorted
<1> QED BY <1>1, <1>4, <1>5, <1>6 DEF Sorted

LEMMA SortedMore ==
  ASSUME NEW s \in [Groups -> GroupSpec], NEW K, NEW T, NEW C, NEW R, NEW m, Stacked(s, K, T),
         Sorted(s, K, T, C, R, m), NEW d \in Groups, T[d] = "unvisited", NEW A, NEW P, PushesOn(A, d, P),
         \/ Len(K) = 0 /\ A = K
         \/ Len(K) > 0 /\ Advances(K, A) /\ d = Wants(s, K[Len(K)].name)[K[Len(K)].next]
  PROVE  Sorted(s, P, [T EXCEPT ![d] = "visiting"], C, R, m)
<1>1. PICK n \in Nat : n = Len(K) /\ n = Len(A) /\ n + 1 = Len(P)
  BY LenProperties DEF Stacked, Advances, PushesOn
<1>2. \A i \in 1..n : K[i].name \in Groups /\ K[i].next \in Nat /\ P[i].name = K[i].name
  <2>1. \A i \in 1..n : K[i].name \in Groups /\ K[i].next \in Nat
    BY <1>1, FramesAre DEF Stacked
  <2>2. \A i \in 1..n : A[i].name = K[i].name
    BY <1>1 DEF Advances
  <2>3. \A i \in 1..n : P[i] = A[i]
    BY <1>1 DEF PushesOn
  <2> QED BY <2>1, <2>2, <2>3
<1>3. \A i \in 1..n : IF i = n THEN P[i].next = K[i].next + 1 /\ d = Wants(s, K[i].name)[K[i].next]
                               ELSE P[i].next = K[i].next
  <2>1. CASE n = 0
    BY <2>1
  <2>2. CASE n > 0
    <3>1. Advances(K, A) /\ d = Wants(s, K[n].name)[K[n].next]
      BY <1>1, <2>2
    <3>2. A[n].next = K[n].next + 1 /\ \A i \in 1..n : i < n => A[i].next = K[i].next
      BY <1>1, <3>1 DEF Advances
    <3>3. \A i \in 1..n : P[i] = A[i] /\ (i = n \/ i < n)
      BY <1>1 DEF PushesOn
    <3> QED BY <3>1, <3>2, <3>3
  <2> QED BY <2>1, <2>2
<1>4. P[n + 1].name = d /\ P[n + 1].next = 1
  BY <1>1 DEF PushesOn
<1>5. PICK V : V = [T EXCEPT ![d] = "visiting"]
  OBVIOUS
<1>6. \A g \in Groups : V[g] = IF g = d THEN "visiting" ELSE T[g]
  BY <1>5 DEF Stacked
<1>7. \A g \in Groups : V[g] = "done" <=> T[g] = "done"
  BY <1>6
<1>8. ASSUME NEW i \in 1..(n + 1), P[i].name \notin C,
             NEW j \in 1..Len(Wants(s, P[i].name)), j < P[i].next
      PROVE  \/ Wants(s, P[i].name)[j] = Missing
             \/ V[Wants(s, P[i].name)[j]] = "done"
             \/ i < n + 1 /\ Wants(s, P[i].name)[j] = P[i + 1].name
  <2>1. i \in 1..n
    <3>1. i # n + 1
      <4>1. Len(Wants(s, d)) \in Nat
        BY WantsAre
      <4> QED BY <1>4, <1>8, <4>1
    <3> QED BY <3>1
  <2>2. PICK t \in Groups : t = K[i].name /\ t = P[i].name /\ t \notin C /\ j \in 1..Len(Wants(s, t))
    BY <1>2, <1>8, <2>1
  <2>3. j < K[i].next =>
            Wants(s, t)[j] = Missing \/ T[Wants(s, t)[j]] = "done" \/ (i < n /\ Wants(s, t)[j] = K[i + 1].name)
    BY <1>1, <2>1, <2>2 DEF Sorted
  <2>4. Wants(s, t)[j] \in Groups \cup {Missing} /\ Len(Wants(s, t)) \in Nat
    BY <2>2, WantsAre
  <2>5. CASE j < K[i].next
    <3>1. i < n => i + 1 \in 1..n
      BY <2>1
    <3> QED BY <1>2, <1>7, <2>1, <2>2, <2>3, <2>4, <2>5, <3>1
  <2>6. CASE ~(j < K[i].next)
    <3>1. i = n /\ j = K[i].next
      BY <1>2, <1>3, <1>8, <2>1, <2>4, <2>6
    <3>2. Wants(s, t)[j] = d
      BY <1>3, <2>1, <2>2, <3>1
    <3> QED BY <1>4, <2>2, <3>1, <3>2
  <2> QED BY <2>5, <2>6
<1>9. \A g \in Groups \ C : V[g] = "done" => \A e \in dependenciesIn(s, g) : V[e] = "done" /\ R[e] < R[g]
  <2>1. \A g \in Groups \ C : T[g] = "done" => \A e \in dependenciesIn(s, g) : T[e] = "done" /\ R[e] < R[g]
    BY DEF Sorted
  <2>2. \A g \in Groups : dependenciesIn(s, g) \subseteq Groups
    BY WantsAre
  <2> QED BY <1>7, <2>1, <2>2
<1>10. R \in [Groups -> Nat] /\ m \in Nat /\ \A g \in Groups : V[g] = "done" => R[g] < m
  BY <1>7 DEF Sorted
<1> QED BY <1>1, <1>5, <1>8, <1>9, <1>10 DEF Sorted

LEMMA SortedLess ==
  ASSUME NEW s \in [Groups -> GroupSpec], NEW K, NEW T, NEW C, NEW R, NEW m, Stacked(s, K, T), Len(K) > 0,
         Sorted(s, K, T, C, R, m), K[Len(K)].next > Len(Wants(s, K[Len(K)].name))
  PROVE  Sorted(s, SubSeq(K, 1, Len(K) - 1), [T EXCEPT ![K[Len(K)].name] = "done"], C,
                [R EXCEPT ![K[Len(K)].name] = m], m + 1)
<1>1. PICK n \in Nat : n = Len(K) /\ n > 0
  BY LenProperties DEF Stacked
<1>2. PICK Q : Q = SubSeq(K, 1, n - 1)
  OBVIOUS
<1>3. Len(Q) = n - 1 /\ \A i \in 1..(n - 1) : Q[i] = K[i]
  BY <1>1, <1>2, SubSeqProperties DEF Stacked
<1>4. PICK t \in Groups : t = K[n].name
  BY <1>1, FramesAre DEF Stacked
<1>5. PICK V : V = [T EXCEPT ![t] = "done"]
  OBVIOUS
<1>6. \A g \in Groups : V[g] = IF g = t THEN "done" ELSE T[g]
  BY <1>5 DEF Stacked
<1>7. PICK O : O = [R EXCEPT ![t] = m]
  OBVIOUS
<1>8. R \in [Groups -> Nat] /\ m \in Nat /\ \A g \in Groups : T[g] = "done" => R[g] < m
  BY DEF Sorted
<1>9. O \in [Groups -> Nat] /\ \A g \in Groups : O[g] = IF g = t THEN m ELSE R[g]
  BY <1>7, <1>8
<1>10. T[t] = "visiting"
  <2>1. n \in 1..Len(K)
    BY <1>1
  <2> QED BY <1>4, <2>1 DEF Stacked
<1>11. ASSUME NEW g \in Groups \ C, V[g] = "done", NEW d \in dependenciesIn(s, g)
       PROVE  V[d] = "done" /\ O[d] < O[g]
  <2>1. d \in Groups
    BY <1>11, WantsAre
  <2>2. CASE g = t
    <3>1. PICK j \in 1..Len(Wants(s, t)) : Wants(s, t)[j] = d
      BY <1>11, <2>1, <2>2, WantsAre
    <3>2. n \in 1..n /\ j < K[n].next
      <4>1. K[n].next \in Nat
        BY <1>1, FramesAre DEF Stacked
      <4>2. PICK l \in Nat : l = Len(Wants(s, t)) /\ K[n].next > l
        BY <1>1, <1>4, WantsAre
      <4> QED BY <1>1, <3>1, <4>1, <4>2
    <3>3. T[d] = "done"
      <4>1. d # Missing
        BY <2>1, NIs
      <4>2. K[n].name \notin C
        BY <1>4, <1>11, <2>2
      <4>3. Wants(s, t)[j] = Missing \/ T[Wants(s, t)[j]] = "done" \/ (n < n /\ Wants(s, t)[j] = K[n + 1].name)
        BY <1>1, <1>4, <3>1, <3>2, <4>2 DEF Sorted
      <4> QED BY <1>1, <3>1, <4>1, <4>3
    <3>4. d # t
      BY <1>10, <3>3
    <3> QED BY <1>6, <1>8, <1>9, <2>1, <2>2, <3>3, <3>4
  <2>3. CASE g # t
    <3>1. T[g] = "done"
      BY <1>6, <1>11, <2>3
    <3>2. T[d] = "done" /\ R[d] < R[g]
      BY <1>11, <3>1 DEF Sorted
    <3>3. d # t
      BY <1>10, <3>2
    <3> QED BY <1>6, <1>9, <2>1, <2>3, <3>2, <3>3
  <2> QED BY <2>2, <2>3
<1>12. ASSUME NEW i \in 1..(n - 1), Q[i].name \notin C, NEW j \in 1..Len(Wants(s, Q[i].name)), j < Q[i].next
       PROVE  \/ Wants(s, Q[i].name)[j] = Missing
              \/ V[Wants(s, Q[i].name)[j]] = "done"
              \/ i < n - 1 /\ Wants(s, Q[i].name)[j] = Q[i + 1].name
  <2>1. i \in 1..n /\ Q[i] = K[i]
    BY <1>1, <1>3
  <2>2. PICK g \in Groups : g = K[i].name
    BY <1>1, <2>1, FramesAre DEF Stacked
  <2>3. PICK d \in Groups \cup {Missing} : d = Wants(s, g)[j]
    BY <1>12, <2>1, <2>2, WantsAre
  <2>4. d = Missing \/ T[d] = "done" \/ d = K[i + 1].name
    BY <1>1, <1>12, <2>1, <2>2, <2>3 DEF Sorted
  <2>5. CASE d = Missing
    BY <2>1, <2>2, <2>3, <2>5
  <2>6. CASE d \in Groups /\ (T[d] = "done" \/ d = t)
    BY <1>6, <2>1, <2>2, <2>3, <2>6
  <2>7. CASE d = K[i + 1].name /\ i < n - 1
    <3>1. i + 1 \in 1..(n - 1)
      BY <1>1, <2>7
    <3> QED BY <1>3, <2>1, <2>2, <2>3, <2>7, <3>1
  <2>8. i < n - 1 \/ i + 1 = n
    BY <1>1
  <2> QED BY <1>4, <2>3, <2>4, <2>5, <2>6, <2>7, <2>8
<1>13. m + 1 \in Nat /\ \A g \in Groups : V[g] = "done" => O[g] < m + 1
  BY <1>6, <1>8, <1>9
<1>14. Sorted(s, Q, V, C, O, m + 1)
  BY <1>3, <1>9, <1>11, <1>12, <1>13 DEF Sorted
<1> QED BY <1>1, <1>2, <1>4, <1>5, <1>7, <1>14

\* f is what the steps of F make of b, level by level.
Steppers(n, D) == [(1..n) \X D -> D]
Recurs(n, D, b, F, f) == f \in [0..n -> D] /\ f[0] = b /\ \A k \in 1..n : f[k] = F[<<k, f[k - 1]>>]

LEMMA Recursion ==
  ASSUME NEW n \in Nat, NEW D, NEW b \in D, NEW F \in Steppers(n, D)
  PROVE  \E f : Recurs(n, D, b, F, f)
<1> USE DEF Steppers
<1>1. PICK G : G = {l \in 0..n : \E f \in [0..l -> D] : f[0] = b /\ \A k \in 1..l : f[k] = F[<<k, f[k - 1]>>]}
  BY Zenon
<1>2. 0 \in G
  <2>1. PICK f \in [0..0 -> D] : f[0] = b
    <3>1. [i \in 0..0 |-> b] \in [0..0 -> D] /\ [i \in 0..0 |-> b][0] = b
      OBVIOUS
    <3> QED BY <3>1
  <2>2. \A k \in 1..0 : f[k] = F[<<k, f[k - 1]>>]
    OBVIOUS
  <2>3. 0 \in 0..n
    OBVIOUS
  <2> QED BY <1>1, <2>1, <2>2, <2>3
<1>3. ASSUME NEW l \in 0..(n - 1), l \in G PROVE l + 1 \in G
  <2>1. PICK f \in [0..l -> D] : f[0] = b /\ \A k \in 1..l : f[k] = F[<<k, f[k - 1]>>]
    BY <1>1, <1>3
  <2>2. PICK v \in D : v = F[<<l + 1, f[l]>>]
    <3>1. <<l + 1, f[l]>> \in (1..n) \X D
      BY <2>1
    <3> QED BY <3>1
  <2>3. PICK h : h = [i \in 0..(l + 1) |-> IF i = l + 1 THEN v ELSE f[i]]
    OBVIOUS
  <2>4. h \in [0..(l + 1) -> D] /\ h[0] = b
    BY <2>1, <2>2, <2>3
  <2>5. ASSUME NEW k \in 1..(l + 1) PROVE h[k] = F[<<k, h[k - 1]>>]
    <3>1. CASE k = l + 1
      <4>1. k - 1 = l /\ l \in 0..(l + 1) /\ l # l + 1
        BY <3>1
      <4>2. h[k] = v /\ h[k - 1] = f[l]
        BY <2>3, <3>1, <4>1
      <4> QED BY <2>2, <3>1, <4>2
    <3>2. CASE k # l + 1
      <4>1. k \in 1..l /\ k - 1 \in 0..l /\ k - 1 # l + 1
        BY <3>2
      <4> QED BY <2>1, <2>3, <4>1
    <3> QED BY <3>1, <3>2
  <2>6. l + 1 \in 0..n
    OBVIOUS
  <2> QED BY <1>1, <2>4, <2>5, <2>6
<1>4. n \in G
  BY <1>2, <1>3, GoesOn
<1> QED BY <1>1, <1>4 DEF Recurs

\* The groups reached step by step.
Reaching(s, S, g, f) ==
    f = [k \in 0..N |-> IF k = 0 THEN dependenciesIn(s, g)
                        ELSE f[k - 1] \cup UNION {dependenciesIn(s, h) : h \in f[k - 1] \cap S}]

LEMMA ReachedIs ==
  ASSUME NEW s \in [Groups -> GroupSpec], NEW S, NEW g \in Groups
  PROVE  \E f : /\ ReachesThrough(s, S, g) = f[N] /\ f[0] = dependenciesIn(s, g)
                /\ \A k \in 1..N : f[k] = f[k - 1] \cup UNION {dependenciesIn(s, h) : h \in f[k - 1] \cap S}
<1>1. N \in Nat
  BY NIs
<1>2. \E f : Reaching(s, S, g, f)
  <2>1. PICK D : D = SUBSET UNION {dependenciesIn(s, h) : h \in S \cup {g}}
    OBVIOUS
  <2>2. dependenciesIn(s, g) \in D
    BY <2>1
  <2>3. PICK F : F = [p \in (1..N) \X D |-> p[2] \cup UNION {dependenciesIn(s, h) : h \in p[2] \cap S}]
    OBVIOUS
  <2>4. ASSUME NEW X \in D PROVE X \cup UNION {dependenciesIn(s, h) : h \in X \cap S} \in D
    BY <2>1
  <2>5. F \in Steppers(N, D)
    BY <2>3, <2>4 DEF Steppers
  <2>6. PICK f \in [0..N -> D] : f[0] = dependenciesIn(s, g) /\ \A k \in 1..N : f[k] = F[<<k, f[k - 1]>>]
    <3>1. PICK b \in D : b = dependenciesIn(s, g)
      BY <2>2
    <3>2. PICK f : Recurs(N, D, b, F, f)
      BY <1>1, <2>5, Recursion, Zenon
    <3> QED BY <3>1, <3>2 DEF Recurs
  <2>7. ASSUME NEW k \in 0..N
        PROVE  f[k] = IF k = 0 THEN dependenciesIn(s, g)
                      ELSE f[k - 1] \cup UNION {dependenciesIn(s, h) : h \in f[k - 1] \cap S}
    <3>1. CASE k = 0
      BY <2>6, <3>1
    <3>2. CASE k # 0
      <4>1. k \in 1..N /\ f[k - 1] \in D
        BY <1>1, <3>2
      <4>2. f[k] = F[<<k, f[k - 1]>>]
        BY <2>6, <4>1
      <4>3. F[<<k, f[k - 1]>>] = f[k - 1] \cup UNION {dependenciesIn(s, h) : h \in f[k - 1] \cap S}
        BY <2>3, <4>1
      <4> QED BY <3>2, <4>2, <4>3
    <3> QED BY <3>1, <3>2
  <2>8. f = [k \in 0..N |-> IF k = 0 THEN dependenciesIn(s, g)
                            ELSE f[k - 1] \cup UNION {dependenciesIn(s, h) : h \in f[k - 1] \cap S}]
    BY <2>6, <2>7, Zenon
  <2> QED BY <2>8, Zenon DEF Reaching
<1>3. PICK f : f = CHOOSE r : Reaching(s, S, g, r)
  BY Zenon
<1>4. Reaching(s, S, g, f)
  BY <1>2, <1>3, Zenon
<1>5. ReachesThrough(s, S, g) = f[N]
  BY <1>3, Zenon DEF ReachesThrough, Reaching
<1>6. f[0] = dependenciesIn(s, g)
  BY <1>1, <1>4 DEF Reaching
<1>7. ASSUME NEW k \in 1..N PROVE f[k] = f[k - 1] \cup UNION {dependenciesIn(s, h) : h \in f[k - 1] \cap S}
  <2>1. k \in 0..N /\ k # 0
    BY <1>1
  <2> QED BY <1>4, <2>1, Zenon DEF Reaching
<1> QED BY <1>5, <1>6, <1>7

\* P walks along dependsOn for L steps.
Walks(s, L, P) == P \in [0..L -> Groups] /\ \A q \in 0..(L - 1) : P[q + 1] \in dependenciesIn(s, P[q])

LEMMA WalkReaches ==
  ASSUME NEW s \in [Groups -> GroupSpec], NEW L \in 1..N, NEW P, Walks(s, L, P)
  PROVE  P[L] \in ReachesThrough(s, Groups, P[0])
<1>1. N \in Nat /\ L \in Nat /\ L <= N /\ 1 <= L
  BY NIs
<1>2. P[0] \in Groups /\ \A q \in 0..L : P[q] \in Groups
  BY <1>1 DEF Walks
<1>3. PICK f : /\ ReachesThrough(s, Groups, P[0]) = f[N] /\ f[0] = dependenciesIn(s, P[0])
               /\ \A k \in 1..N : f[k] = f[k - 1] \cup UNION {dependenciesIn(s, h) : h \in f[k - 1] \cap Groups}
  BY <1>2, ReachedIs
<1>4. PICK G : G = {q \in 0..N : P[IF q < L THEN q + 1 ELSE L] \in f[q]}
  BY Zenon
<1>5. 0 \in G
  <2>1. P[0 + 1] \in f[0]
    BY <1>1, <1>3 DEF Walks
  <2> QED BY <1>1, <1>4, <2>1
<1>6. ASSUME NEW q \in 0..(N - 1), q \in G PROVE q + 1 \in G
  <2>1. q + 1 \in 1..N /\ (q + 1) - 1 = q /\ q + 1 \in 0..N
    BY <1>1
  <2>2. f[q + 1] = f[q] \cup UNION {dependenciesIn(s, h) : h \in f[q] \cap Groups}
    BY <1>3, <2>1
  <2>3. P[IF q < L THEN q + 1 ELSE L] \in f[q]
    BY <1>4, <1>6
  <2>4. CASE q + 1 < L
    <3>1. P[q + 1] \in f[q] \cap Groups
      BY <1>1, <1>2, <2>3, <2>4
    <3>2. P[(q + 1) + 1] \in dependenciesIn(s, P[q + 1])
      BY <1>1, <2>4 DEF Walks
    <3>3. P[(q + 1) + 1] \in f[q + 1]
      BY <2>2, <3>1, <3>2
    <3> QED BY <1>4, <2>1, <2>4, <3>3
  <2>5. CASE ~(q + 1 < L)
    <3>1. (IF q < L THEN q + 1 ELSE L) = L
      BY <1>1, <2>5
    <3>2. P[L] \in f[q + 1]
      BY <2>2, <2>3, <3>1
    <3> QED BY <1>4, <2>1, <2>5, <3>2
  <2> QED BY <2>4, <2>5
<1>7. N \in G
  BY <1>1, <1>5, <1>6, GoesOn
<1> QED BY <1>1, <1>3, <1>4, <1>7

\* There is a frame for every group at most.
LEMMA StackFits ==
  ASSUME NEW s, NEW K, NEW T, Stacked(s, K, T)
  PROVE  Len(K) <= N
<1>1. PICK n \in Nat : n = Len(K)
  BY LenProperties DEF Stacked
<1>2. \A i \in 1..n : K[i].name \in Groups
  BY <1>1, FramesAre DEF Stacked
<1>3. PICK f : f = [i \in 1..n |-> K[i].name]
  OBVIOUS
<1>4. f \in [1..n -> 1..N]
  BY <1>2, <1>3, NIs
<1>5. \A x, y \in 1..n : x # y => f[x] # f[y]
  BY <1>1, <1>3 DEF Stacked
<1>6. IsFiniteSet(1..n) /\ Cardinality(1..n) = n
  BY FS_Interval
<1>7. IsFiniteSet(1..N) /\ Cardinality(1..N) = N
  BY NIs, FS_Interval
<1>8. ~(N < n)
  BY <1>4, <1>5, <1>6, <1>7, FS_PigeonHole
<1> QED BY <1>1, <1>8, NIs

\* What a want leads back to, and everything above it on the stack, is on a cycle.
LEMMA BackEdge ==
  ASSUME NEW s \in [Groups -> GroupSpec], NEW K, NEW T, Stacked(s, K, T), Len(K) > 0,
         NEW d \in Groups, T[d] = "visiting", d \in dependenciesIn(s, K[Len(K)].name)
  PROVE  /\ K[Len(K)].name \in stackFrom(K, d) /\ stackFrom(K, d) \subseteq Groups
         /\ \A g \in stackFrom(K, d) : OnCycle(s, g)
<1>1. PICK n \in Nat : n = Len(K) /\ n > 0 /\ n <= N
  BY LenProperties, StackFits DEF Stacked
<1>2. DOMAIN K = 1..n /\ \A i \in 1..n : K[i].name \in Groups /\ K[i].next \in Nat
  BY <1>1, FramesAre, LenProperties DEF Stacked
<1>3. PICK i : i = CHOOSE k \in DOMAIN K : K[k].name = d
  BY Zenon
<1>4. i \in 1..n /\ K[i].name = d
  <2>1. \E k \in DOMAIN K : K[k].name = d
    BY <1>1, <1>2 DEF Stacked
  <2>2. i \in DOMAIN K /\ K[i].name = d
    BY <1>3, <2>1, Zenon
  <2> QED BY <1>2, <2>2
<1>5. stackFrom(K, d) = {K[k].name : k \in i..n}
  BY <1>1, <1>3, Zenon DEF stackFrom
<1>6. \A k \in i..n : k \in 1..n
  BY <1>4
<1>7. ASSUME NEW j \in 1..(n - 1) PROVE K[j + 1].name \in dependenciesIn(s, K[j].name)
  <2>1. j \in 1..n /\ j + 1 \in 1..n
    BY <1>1
  <2>2. PICK a \in Groups : a = K[j].name
    BY <1>2, <2>1
  <2>3. PICK b \in Groups : b = K[j + 1].name
    BY <1>2, <2>1
  <2>4. K[j].next > 1 /\ Wants(s, a)[K[j].next - 1] = b /\ K[j].next <= Len(Wants(s, a)) + 1
    BY <1>1, <2>1, <2>2, <2>3 DEF Stacked
  <2>5. K[j].next - 1 \in 1..Len(Wants(s, a))
    <3>1. Len(Wants(s, a)) \in Nat /\ K[j].next \in Nat
      BY <1>2, <2>1, WantsAre
    <3> QED BY <2>4, <3>1
  <2>6. b \in dependenciesIn(s, a)
    BY <2>4, <2>5, WantsAre
  <2> QED BY <2>2, <2>3, <2>6
<1>8. ASSUME NEW k \in i..n PROVE OnCycle(s, K[k].name)
  <2>1. PICK L \in 1..N : L = n - i + 1
    BY <1>1, <1>4, NIs
  <2>2. PICK P : P = [q \in 0..L |-> K[IF k + q <= n THEN k + q ELSE k + q - L].name]
    OBVIOUS
  <2>3. \A q \in 0..L : (IF k + q <= n THEN k + q ELSE k + q - L) \in 1..n
    BY <1>1, <1>4, <2>1
  <2>4. P \in [0..L -> Groups]
    BY <1>2, <2>2, <2>3
  <2>5. ASSUME NEW q \in 0..(L - 1) PROVE P[q + 1] \in dependenciesIn(s, P[q])
    <3>1. q \in 0..L /\ q + 1 \in 0..L
      BY <2>1
    <3>2. CASE k + q < n
      <4>1. k + q \in 1..(n - 1) /\ k + (q + 1) = (k + q) + 1 /\ k + (q + 1) <= n
        BY <1>1, <1>4, <3>2
      <4>2. P[q] = K[k + q].name /\ P[q + 1] = K[(k + q) + 1].name
        BY <2>2, <3>1, <4>1
      <4> QED BY <1>7, <4>1, <4>2
    <3>3. CASE k + q = n
      <4>1. ~(k + (q + 1) <= n) /\ k + (q + 1) - L = i
        BY <1>1, <1>4, <2>1, <3>3
      <4>2. P[q] = K[n].name /\ P[q + 1] = K[i].name
        BY <2>2, <3>1, <3>3, <4>1
      <4> QED BY <1>1, <1>4, <4>2
    <3>4. CASE k + q > n
      <4>1. k + q - L \in 1..(n - 1) /\ k + (q + 1) - L = (k + q - L) + 1 /\ ~(k + q <= n) /\ ~(k + (q + 1) <= n)
        BY <1>1, <1>4, <2>1, <3>4
      <4>2. P[q] = K[k + q - L].name /\ P[q + 1] = K[(k + q - L) + 1].name
        BY <2>2, <3>1, <4>1
      <4> QED BY <1>7, <4>1, <4>2
    <3>5. k + q \in Int
      BY <1>4
    <3> QED BY <1>1, <3>2, <3>3, <3>4, <3>5
  <2>6. P[L] \in ReachesThrough(s, Groups, P[0])
    BY <2>4, <2>5, WalkReaches DEF Walks
  <2>7. P[0] = K[k].name /\ P[L] = K[k].name
    <3>1. k + 0 = k /\ k <= n /\ ~(k + L <= n) /\ k + L - L = k /\ 0 \in 0..L /\ L \in 0..L
      BY <1>1, <1>4, <2>1
    <3> QED BY <2>2, <3>1
  <2> QED BY <2>6, <2>7 DEF OnCycle
<1>9. n \in i..n
  BY <1>1, <1>4
<1> QED BY <1>1, <1>2, <1>5, <1>6, <1>8, <1>9

\* What is left to do of each group: the search decides, looks at every want and
\* finishes.
Weighs(s, K, T, w) ==
    /\ w \in [Groups -> Nat]
    /\ \A g \in Groups : T[g] = "unvisited" => w[g] = Len(Wants(s, g)) + 2
    /\ \A g \in Groups : T[g] = "done" => w[g] = 0
    /\ \A i \in 1..Len(K) : w[K[i].name] = Len(Wants(s, K[i].name)) + 2 - K[i].next

\* The sums of the first weights.
Totals(w, F) == F \in [0..N -> Int] /\ F[0] = 0 /\ \A k \in 1..N : F[k] = F[k - 1] + w[k]

\* The search is at its k-th step and has at most b to make.
Owes(s, K, T, k, b) == \E w, F : Weighs(s, K, T, w) /\ Totals(w, F) /\ F[N] + k <= b

Lower(w, g) == [w EXCEPT ![g] = w[g] - 1]

LEMMA TotalLess ==
  ASSUME NEW w \in [Groups -> Nat], NEW F, Totals(w, F), NEW g \in Groups
  PROVE  \E E : Totals(Lower(w, g), E) /\ E[N] = F[N] - 1
<1>1. PICK E : E = [k \in 0..N |-> IF k < g THEN F[k] ELSE F[k] - 1]
  OBVIOUS
<1>2. g \in 1..N /\ N \in Nat /\ 0 \in 0..N /\ N \in 0..N
  BY NIs
<1>3. F \in [0..N -> Int] /\ F[0] = 0 /\ \A k \in 1..N : F[k] = F[k - 1] + w[k]
  BY DEF Totals
<1>4. PICK v : v = Lower(w, g)
  OBVIOUS
<1>5. E \in [0..N -> Int] /\ E[0] = 0 /\ E[N] = F[N] - 1
  <2>1. \A k \in 0..N : E[k] = IF k < g THEN F[k] ELSE F[k] - 1
    BY <1>1
  <2>2. 0 < g /\ ~(N < g)
    BY <1>2
  <2> QED BY <1>1, <1>2, <1>3, <2>1, <2>2
<1>6. ASSUME NEW k \in 1..N PROVE E[k] = E[k - 1] + v[k]
  <2>1. k \in 0..N /\ k - 1 \in 0..N /\ k \in Groups
    BY <1>2, NIs
  <2>2. v[k] = IF k = g THEN w[k] - 1 ELSE w[k]
    BY <1>4, <2>1 DEF Lower
  <2>3. F[k] = F[k - 1] + w[k] /\ F[k] \in Int /\ F[k - 1] \in Int /\ w[k] \in Nat
    BY <1>3, <2>1
  <2>4. E[k] = (IF k < g THEN F[k] ELSE F[k] - 1) /\ E[k - 1] = IF k - 1 < g THEN F[k - 1] ELSE F[k - 1] - 1
    BY <1>1, <2>1
  <2> QED BY <1>2, <2>2, <2>3, <2>4
<1> QED BY <1>4, <1>5, <1>6 DEF Totals

\* No weight is more than all together.
LEMMA TotalHolds ==
  ASSUME NEW w \in [Groups -> Nat], NEW F, Totals(w, F), NEW g \in Groups
  PROVE  w[g] <= F[N]
<1>1. g \in 1..N /\ N \in Nat
  BY NIs
<1>2. PICK G : G = {k \in 0..N : F[k] >= 0 /\ (g <= k => w[g] <= F[k])}
  BY Zenon
<1>3. F \in [0..N -> Int] /\ F[0] = 0 /\ \A k \in 1..N : F[k] = F[k - 1] + w[k]
  BY DEF Totals
<1>4. 0 \in G
  BY <1>1, <1>2, <1>3
<1>5. ASSUME NEW k \in 0..(N - 1), k \in G PROVE k + 1 \in G
  <2>1. k + 1 \in 1..N /\ (k + 1) - 1 = k /\ k + 1 \in Groups /\ k \in 0..N /\ k + 1 \in 0..N
    BY <1>1, NIs
  <2>2. F[k + 1] = F[k] + w[k + 1] /\ F[k] \in Int
    BY <1>3, <2>1
  <2>3. w[k + 1] \in Nat /\ w[g] \in Nat
    BY <2>1
  <2>4. F[k] >= 0 /\ (g <= k => w[g] <= F[k])
    BY <1>2, <1>5
  <2>5. F[k + 1] >= 0
    BY <2>2, <2>3, <2>4
  <2>6. ASSUME g <= k + 1 PROVE w[g] <= F[k + 1]
    <3>1. CASE g <= k
      BY <2>2, <2>3, <2>4, <3>1
    <3>2. CASE g = k + 1
      BY <2>2, <2>3, <2>4, <3>2
    <3> QED BY <1>1, <2>6, <3>1, <3>2
  <2> QED BY <1>2, <2>1, <2>5, <2>6
<1>6. N \in G
  BY <1>1, <1>4, <1>5, GoesOn
<1> QED BY <1>1, <1>2, <1>6

LEMMA WeighsAhead ==
  ASSUME NEW s \in [Groups -> GroupSpec], NEW K, NEW T, NEW w, Stacked(s, K, T), Len(K) > 0,
         K[Len(K)].next <= Len(Wants(s, K[Len(K)].name)), Weighs(s, K, T, w), NEW A, Advances(K, A)
  PROVE  Weighs(s, A, T, Lower(w, K[Len(K)].name))
<1>1. PICK n \in Nat : n = Len(K) /\ n = Len(A) /\ n > 0
  BY LenProperties DEF Stacked, Advances
<1>2. \A i \in 1..n : K[i].name \in Groups /\ K[i].next \in Nat /\ A[i].name = K[i].name
  BY <1>1, FramesAre DEF Stacked, Advances
<1>3. A[n].next = K[n].next + 1 /\ \A i \in 1..n : i < n => A[i].next = K[i].next
  BY <1>1 DEF Advances
<1>4. PICK t \in Groups : t = K[n].name
  BY <1>1, <1>2
<1>5. PICK v : v = Lower(w, t)
  OBVIOUS
<1>6. T[t] = "visiting"
  <2>1. n \in 1..Len(K)
    BY <1>1
  <2> QED BY <1>4, <2>1 DEF Stacked
<1>7. PICK l \in Nat : l = Len(Wants(s, t))
  BY WantsAre
<1>8. w[t] = l + 2 - K[n].next /\ w \in [Groups -> Nat] /\ K[n].next <= l /\ K[n].next \in Nat
  <2>1. n \in 1..Len(K)
    BY <1>1
  <2>2. w[K[n].name] = Len(Wants(s, K[n].name)) + 2 - K[n].next
    BY <2>1 DEF Weighs
  <2> QED BY <1>1, <1>2, <1>4, <1>7, <2>2 DEF Weighs
<1>9. v \in [Groups -> Nat] /\ \A g \in Groups : v[g] = IF g = t THEN w[t] - 1 ELSE w[g]
  <2>1. w[t] - 1 \in Nat /\ w \in [Groups -> Nat]
    <3>1. PICK j \in Nat : j = K[n].next /\ j <= l /\ w[t] = l + 2 - j
      BY <1>8
    <3>2. (l + 2 - j) - 1 \in Nat
      BY <3>1
    <3> QED BY <1>8, <3>1, <3>2, Zenon
  <2> QED BY <1>5, <2>1 DEF Lower
<1>10. ASSUME NEW i \in 1..n PROVE v[A[i].name] = Len(Wants(s, A[i].name)) + 2 - A[i].next
  <2>1. PICK g \in Groups : g = K[i].name /\ g = A[i].name
    BY <1>2
  <2>2. CASE i = n
    <3>1. g = t /\ A[i].next = K[n].next + 1
      BY <1>3, <1>4, <2>1, <2>2
    <3>2. v[g] = l + 2 - (K[n].next + 1)
      <4>1. v[g] = w[t] - 1
        BY <1>9, <2>1, <3>1
      <4>2. PICK j \in Nat : j = K[n].next /\ w[t] = l + 2 - j
        BY <1>8
      <4>3. (l + 2 - j) - 1 = l + 2 - (j + 1)
        OBVIOUS
      <4> QED BY <4>1, <4>2, <4>3
    <3> QED BY <1>7, <2>1, <3>1, <3>2
  <2>3. CASE i # n
    <3>1. g # t
      <4>1. \A j, k \in 1..n : K[j].name = K[k].name => j = k
        BY <1>1 DEF Stacked
      <4>2. n \in 1..n
        BY <1>1
      <4> QED BY <1>4, <2>1, <2>3, <4>1, <4>2
    <3>2. w[g] = Len(Wants(s, g)) + 2 - K[i].next
      BY <1>1, <2>1 DEF Weighs
    <3> QED BY <1>1, <1>3, <1>9, <2>1, <2>3, <3>1, <3>2
  <2> QED BY <2>2, <2>3
<1>11. \A g \in Groups : (T[g] = "unvisited" => v[g] = Len(Wants(s, g)) + 2) /\ (T[g] = "done" => v[g] = 0)
  BY <1>6, <1>9 DEF Weighs
<1> QED BY <1>1, <1>4, <1>5, <1>9, <1>10, <1>11 DEF Weighs

LEMMA WeighsMore ==
  ASSUME NEW s \in [Groups -> GroupSpec], NEW K, NEW T, NEW w, Stacked(s, K, T), NEW d \in Groups,
         T[d] = "unvisited", Weighs(s, K, T, w), NEW P, PushesOn(K, d, P)
  PROVE  Weighs(s, P, [T EXCEPT ![d] = "visiting"], Lower(w, d))
<1>1. PICK n \in Nat : n = Len(K) /\ Len(P) = n + 1
  BY LenProperties DEF Stacked, PushesOn
<1>2. \A i \in 1..n : P[i] = K[i] /\ K[i].name \in Groups /\ K[i].name # d
  BY <1>1, FramesAre DEF Stacked, PushesOn
<1>3. P[n + 1].name = d /\ P[n + 1].next = 1
  BY <1>1 DEF PushesOn
<1>4. PICK V : V = [T EXCEPT ![d] = "visiting"]
  OBVIOUS
<1>5. \A g \in Groups : V[g] = IF g = d THEN "visiting" ELSE T[g]
  BY <1>4 DEF Stacked
<1>6. PICK v : v = Lower(w, d)
  OBVIOUS
<1>7. PICK l \in Nat : l = Len(Wants(s, d))
  BY WantsAre
<1>8. w \in [Groups -> Nat] /\ w[d] = l + 2
  BY <1>7 DEF Weighs
<1>9. v \in [Groups -> Nat] /\ \A g \in Groups : v[g] = IF g = d THEN l + 1 ELSE w[g]
  BY <1>6, <1>8 DEF Lower
<1>10. ASSUME NEW i \in 1..(n + 1) PROVE v[P[i].name] = Len(Wants(s, P[i].name)) + 2 - P[i].next
  <2>1. CASE i = n + 1
    BY <1>3, <1>7, <1>9, <2>1
  <2>2. CASE i # n + 1
    <3>1. i \in 1..n
      BY <2>2
    <3>2. w[K[i].name] = Len(Wants(s, K[i].name)) + 2 - K[i].next
      BY <1>1, <3>1 DEF Weighs
    <3> QED BY <1>2, <1>9, <3>1, <3>2
  <2> QED BY <2>1, <2>2
<1>11. \A g \in Groups : (V[g] = "unvisited" => v[g] = Len(Wants(s, g)) + 2) /\ (V[g] = "done" => v[g] = 0)
  <2>1. \A g \in Groups : (T[g] = "unvisited" => w[g] = Len(Wants(s, g)) + 2) /\ (T[g] = "done" => w[g] = 0)
    BY DEF Weighs
  <2> QED BY <1>5, <1>9, <2>1
<1> QED BY <1>1, <1>4, <1>6, <1>9, <1>10, <1>11 DEF Weighs

LEMMA WeighsLess ==
  ASSUME NEW s \in [Groups -> GroupSpec], NEW K, NEW T, NEW w, Stacked(s, K, T), Len(K) > 0,
         K[Len(K)].next > Len(Wants(s, K[Len(K)].name)), Weighs(s, K, T, w)
  PROVE  Weighs(s, SubSeq(K, 1, Len(K) - 1), [T EXCEPT ![K[Len(K)].name] = "done"],
                Lower(w, K[Len(K)].name))
<1>1. PICK n \in Nat : n = Len(K) /\ n > 0
  BY LenProperties DEF Stacked
<1>2. PICK Q : Q = SubSeq(K, 1, n - 1)
  OBVIOUS
<1>3. Len(Q) = n - 1 /\ \A i \in 1..(n - 1) : Q[i] = K[i]
  BY <1>1, <1>2, SubSeqProperties DEF Stacked
<1>4. \A i \in 1..n : K[i].name \in Groups /\ K[i].next \in Nat
  BY <1>1, FramesAre DEF Stacked
<1>5. PICK t \in Groups : t = K[n].name
  BY <1>1, <1>4
<1>6. PICK V : V = [T EXCEPT ![t] = "done"]
  OBVIOUS
<1>7. \A g \in Groups : V[g] = IF g = t THEN "done" ELSE T[g]
  BY <1>6 DEF Stacked
<1>8. PICK v : v = Lower(w, t)
  OBVIOUS
<1>9. w[t] = 1 /\ w \in [Groups -> Nat]
  <2>1. n \in 1..Len(K)
    BY <1>1
  <2>2. w[t] = Len(Wants(s, t)) + 2 - K[n].next
    BY <1>5, <2>1 DEF Weighs
  <2>3. K[n].next <= Len(Wants(s, t)) + 1
    BY <1>5, <2>1 DEF Stacked
  <2>4. K[n].next > Len(Wants(s, t))
    BY <1>1, <1>5
  <2>5. Len(Wants(s, t)) \in Nat /\ K[n].next \in Nat
    BY <1>1, <1>4, WantsAre
  <2>6. PICK l \in Nat, j \in Nat : l = Len(Wants(s, t)) /\ j = K[n].next
    BY <2>5
  <2>7. w[t] = l + 2 - j /\ j <= l + 1 /\ j > l
    BY <2>2, <2>3, <2>4, <2>6
  <2>8. w \in [Groups -> Nat]
    BY DEF Weighs
  <2> QED BY <2>6, <2>7, <2>8
<1>10. v \in [Groups -> Nat] /\ \A g \in Groups : v[g] = IF g = t THEN 0 ELSE w[g]
  BY <1>8, <1>9 DEF Lower
<1>11. ASSUME NEW i \in 1..(n - 1) PROVE v[Q[i].name] = Len(Wants(s, Q[i].name)) + 2 - Q[i].next
  <2>1. i \in 1..n /\ i # n /\ Q[i] = K[i]
    BY <1>1, <1>3
  <2>2. PICK g \in Groups : g = K[i].name
    BY <1>4, <2>1
  <2>3. g # t
    BY <1>1, <1>5, <2>1, <2>2 DEF Stacked
  <2>4. w[g] = Len(Wants(s, g)) + 2 - K[i].next
    BY <1>1, <2>1, <2>2 DEF Weighs
  <2> QED BY <1>10, <2>1, <2>2, <2>3, <2>4
<1>12. \A g \in Groups : (V[g] = "unvisited" => v[g] = Len(Wants(s, g)) + 2) /\ (V[g] = "done" => v[g] = 0)
  <2>1. \A g \in Groups : (T[g] = "unvisited" => w[g] = Len(Wants(s, g)) + 2) /\ (T[g] = "done" => w[g] = 0)
    BY DEF Weighs
  <2> QED BY <1>7, <1>10, <2>1
<1>13. Weighs(s, Q, V, v)
  BY <1>3, <1>10, <1>11, <1>12 DEF Weighs
<1> QED BY <1>1, <1>2, <1>5, <1>6, <1>8, <1>13

LEMMA OwesAhead ==
  ASSUME NEW s \in [Groups -> GroupSpec], NEW K, NEW T, Stacked(s, K, T), Len(K) > 0,
         K[Len(K)].next <= Len(Wants(s, K[Len(K)].name)), NEW A, Advances(K, A),
         NEW k \in Nat, NEW b \in Nat, Owes(s, K, T, k, b)
  PROVE  Owes(s, A, T, k + 1, b)
<1>1. PICK w, F : Weighs(s, K, T, w) /\ Totals(w, F) /\ F[N] + k <= b
  BY DEF Owes
<1>2. w \in [Groups -> Nat] /\ F[N] \in Int
  <2>1. w \in [Groups -> Nat] /\ F \in [0..N -> Int]
    BY <1>1 DEF Weighs, Totals
  <2> QED BY <2>1, NIs
<1>3. PICK t \in Groups : t = K[Len(K)].name
  <2>1. Len(K) \in 1..Len(K) /\ K \in Seq(Frames)
    BY LenProperties DEF Stacked
  <2> QED BY <2>1, FramesAre
<1>4. PICK v : v = Lower(w, t)
  OBVIOUS
<1>5. PICK E : Totals(v, E) /\ E[N] = F[N] - 1
  BY <1>1, <1>2, <1>4, TotalLess, Zenon
<1>6. Weighs(s, A, T, v)
  BY <1>1, <1>3, <1>4, WeighsAhead
<1>7. E[N] + (k + 1) <= b
  BY <1>1, <1>2, <1>5
<1> QED BY <1>5, <1>6, <1>7 DEF Owes

LEMMA OwesMore ==
  ASSUME NEW s \in [Groups -> GroupSpec], NEW K, NEW T, Stacked(s, K, T), NEW d \in Groups, T[d] = "unvisited",
         NEW P, PushesOn(K, d, P), NEW k \in Nat, NEW b \in Nat, Owes(s, K, T, k, b)
  PROVE  Owes(s, P, [T EXCEPT ![d] = "visiting"], k + 1, b)
<1>1. PICK w, F : Weighs(s, K, T, w) /\ Totals(w, F) /\ F[N] + k <= b
  BY DEF Owes
<1>2. w \in [Groups -> Nat] /\ F[N] \in Int
  <2>1. w \in [Groups -> Nat] /\ F \in [0..N -> Int]
    BY <1>1 DEF Weighs, Totals
  <2> QED BY <2>1, NIs
<1>3. PICK v : v = Lower(w, d)
  OBVIOUS
<1>4. PICK E : Totals(v, E) /\ E[N] = F[N] - 1
  BY <1>1, <1>2, <1>3, TotalLess, Zenon
<1>5. Weighs(s, P, [T EXCEPT ![d] = "visiting"], v)
  BY <1>1, <1>3, WeighsMore
<1>6. E[N] + (k + 1) <= b
  BY <1>1, <1>2, <1>4
<1> QED BY <1>4, <1>5, <1>6 DEF Owes

LEMMA OwesLess ==
  ASSUME NEW s \in [Groups -> GroupSpec], NEW K, NEW T, Stacked(s, K, T), Len(K) > 0,
         K[Len(K)].next > Len(Wants(s, K[Len(K)].name)), NEW k \in Nat, NEW b \in Nat, Owes(s, K, T, k, b)
  PROVE  Owes(s, SubSeq(K, 1, Len(K) - 1), [T EXCEPT ![K[Len(K)].name] = "done"], k + 1, b)
<1>1. PICK w, F : Weighs(s, K, T, w) /\ Totals(w, F) /\ F[N] + k <= b
  BY DEF Owes
<1>2. w \in [Groups -> Nat] /\ F[N] \in Int
  <2>1. w \in [Groups -> Nat] /\ F \in [0..N -> Int]
    BY <1>1 DEF Weighs, Totals
  <2> QED BY <2>1, NIs
<1>3. PICK t \in Groups : t = K[Len(K)].name
  <2>1. Len(K) \in 1..Len(K) /\ K \in Seq(Frames)
    BY LenProperties DEF Stacked
  <2> QED BY <2>1, FramesAre
<1>4. PICK v : v = Lower(w, t)
  OBVIOUS
<1>5. PICK E : Totals(v, E) /\ E[N] = F[N] - 1
  BY <1>1, <1>2, <1>4, TotalLess, Zenon
<1>6. Weighs(s, SubSeq(K, 1, Len(K) - 1), [T EXCEPT ![K[Len(K)].name] = "done"], v)
  BY <1>1, <1>3, <1>4, WeighsLess
<1>7. E[N] + (k + 1) <= b
  BY <1>1, <1>2, <1>5
<1> QED BY <1>5, <1>6, <1>7 DEF Owes

LEMMA OwesNoMore ==
  ASSUME NEW s, NEW K, NEW T, NEW k \in Nat, NEW b \in Nat, Owes(s, K, T, (k + 1) + 1, b)
  PROVE  Owes(s, K, T, k + 1, b)
<1>1. PICK w, F : Weighs(s, K, T, w) /\ Totals(w, F) /\ F[N] + ((k + 1) + 1) <= b
  BY DEF Owes
<1>2. F[N] \in Int
  BY <1>1, NIs DEF Totals
<1>3. F[N] + (k + 1) <= b
  BY <1>1, <1>2
<1> QED BY <1>1, <1>3 DEF Owes

\* The search so far.
Orders(s, K, T, C) == \E R, m : Sorted(s, K, T, C, R, m)
Circular(s, C) == C \in SUBSET Groups /\ \A g \in C : OnCycle(s, g)
Searched(s, c) ==
    /\ c \in Search /\ Stacked(s, c.stack, c.state)
    /\ Orders(s, c.stack, c.state, c.inCycle) /\ Circular(s, c.inCycle)

\* The step from c to e keeps the search in order, and is one that it owed.
StepsTo(s, c, e) ==
    /\ Searched(s, e)
    /\ \A k, b \in Nat : Owes(s, c.stack, c.state, k, b) => Owes(s, e.stack, e.state, k + 1, b)

LEMMA SearchedIs ==
  ASSUME NEW s, NEW K, NEW T, NEW C, Stacked(s, K, T), Orders(s, K, T, C), Circular(s, C)
  PROVE  Searched(s, [stack |-> K, state |-> T, inCycle |-> C])
<1>1. K \in Seq(Frames) /\ T \in [Groups -> {"unvisited", "visiting", "done"}] /\ C \in SUBSET Groups
  BY DEF Stacked, Circular
<1>2. PICK c : c = [stack |-> K, state |-> T, inCycle |-> C]
  OBVIOUS
<1>3. c \in Search /\ c.stack = K /\ c.state = T /\ c.inCycle = C
  BY <1>1, <1>2 DEF Search
<1> QED BY <1>2, <1>3 DEF Searched

LEMMA SearchBegins ==
  ASSUME NEW s \in [Groups -> GroupSpec], NEW c, Searched(s, c), NEW g \in Groups, NEW e, Begins(c, e, g)
  PROVE  StepsTo(s, c, e)
<1>1. PICK K : K = c.stack /\ K = <<>> /\ Len(K) = 0 /\ K \in Seq(Frames)
  <2>1. c.stack = <<>>
    BY DEF Begins
  <2> QED BY <2>1, EmptySeq
<1>2. PICK T : T = c.state /\ T[g] = "unvisited" /\ Stacked(s, K, T)
  BY <1>1 DEF Begins, Searched
<1>3. PICK C : C = c.inCycle /\ Circular(s, C)
  BY DEF Searched
<1>4. PICK P : P = Append(K, Frame(g)) /\ P = <<Frame(g)>>
  <2>1. Append(<<>>, Frame(g)) = <<Frame(g)>>
    OBVIOUS
  <2> QED BY <1>1, <2>1
<1>5. PushesOn(K, g, P)
  BY <1>1, <1>4, PushedIs
<1>6. PICK V : V = [T EXCEPT ![g] = "visiting"]
  OBVIOUS
<1>7. Stacked(s, P, V)
  BY <1>1, <1>2, <1>5, <1>6, StackedMore
<1>8. PICK R, m : Sorted(s, K, T, C, R, m)
  BY <1>1, <1>2, <1>3 DEF Searched, Orders
<1>9. Sorted(s, P, V, C, R, m)
  BY <1>1, <1>2, <1>5, <1>6, <1>8, SortedMore
<1>10. e = [stack |-> P, state |-> V, inCycle |-> C]
  BY <1>2, <1>3, <1>4, <1>6 DEF Begins
<1>11. Searched(s, e)
  BY <1>3, <1>7, <1>9, <1>10, SearchedIs DEF Orders
<1>12. ASSUME NEW k \in Nat, NEW b \in Nat, Owes(s, K, T, k, b) PROVE Owes(s, P, V, k + 1, b)
  BY <1>2, <1>5, <1>6, <1>12, OwesMore
<1>13. e.stack = P /\ e.state = V
  BY <1>10
<1> QED BY <1>1, <1>2, <1>11, <1>12, <1>13 DEF StepsTo

LEMMA SearchFinishes ==
  ASSUME NEW s \in [Groups -> GroupSpec], NEW c, Searched(s, c), NEW e, Finishes(s, c, e)
  PROVE  StepsTo(s, c, e)
<1>1. PICK K : K = c.stack
  OBVIOUS
<1>2. Len(K) > 0 /\ K[Len(K)].next > Len(Wants(s, K[Len(K)].name))
  BY <1>1 DEF Finishes, Top
<1>3. PICK T : T = c.state /\ Stacked(s, K, T)
  BY <1>1 DEF Searched
<1>4. PICK C : C = c.inCycle /\ Circular(s, C)
  BY DEF Searched
<1>5. PICK Q : Q = SubSeq(K, 1, Len(K) - 1)
  OBVIOUS
<1>6. PICK V : V = [T EXCEPT ![K[Len(K)].name] = "done"]
  OBVIOUS
<1>7. Stacked(s, Q, V)
  BY <1>2, <1>3, <1>5, <1>6, StackedLess
<1>8. PICK R, m : Sorted(s, K, T, C, R, m)
  BY <1>1, <1>3, <1>4 DEF Searched, Orders
<1>9. PICK O : O = [R EXCEPT ![K[Len(K)].name] = m]
  OBVIOUS
<1>10. Sorted(s, Q, V, C, O, m + 1)
  BY <1>2, <1>3, <1>5, <1>6, <1>8, <1>9, SortedLess
<1>11. e = [stack |-> Q, state |-> V, inCycle |-> C]
  BY <1>1, <1>3, <1>4, <1>5, <1>6 DEF Finishes, Top
<1>12. Searched(s, e)
  BY <1>4, <1>7, <1>10, <1>11, SearchedIs DEF Orders
<1>13. ASSUME NEW k \in Nat, NEW b \in Nat, Owes(s, K, T, k, b) PROVE Owes(s, Q, V, k + 1, b)
  BY <1>2, <1>3, <1>5, <1>6, <1>13, OwesLess
<1>14. e.stack = Q /\ e.state = V
  BY <1>11
<1> QED BY <1>1, <1>3, <1>12, <1>13, <1>14 DEF StepsTo

\* What the search knows when it looks at the next want of a group.
Looking(s, c, d, K, T, C, A) ==
    /\ K = c.stack /\ T = c.state /\ C = c.inCycle /\ A = Advanced(c)
    /\ Stacked(s, K, T) /\ Circular(s, C) /\ Orders(s, K, T, C)
    /\ Advances(K, A) /\ Stacked(s, A, T) /\ Len(K) > 0
    /\ K[Len(K)].next <= Len(Wants(s, K[Len(K)].name)) /\ d = Wants(s, K[Len(K)].name)[K[Len(K)].next]
    /\ d \in Groups => d \in dependenciesIn(s, K[Len(K)].name)

LEMMA LooksIs ==
  ASSUME NEW s \in [Groups -> GroupSpec], NEW c, Searched(s, c), NEW d, Looks(s, c, d)
  PROVE  \E K, T, C, A : Looking(s, c, d, K, T, C, A)
<1>1. PICK K : K = c.stack
  OBVIOUS
<1>2. PICK T : T = c.state
  OBVIOUS
<1>3. PICK C : C = c.inCycle
  OBVIOUS
<1>4. PICK A : A = Advanced(c)
  OBVIOUS
<1>5. Stacked(s, K, T) /\ Circular(s, C) /\ Orders(s, K, T, C)
  BY <1>1, <1>2, <1>3 DEF Searched
<1>6. /\ Len(K) > 0 /\ K[Len(K)].next <= Len(Wants(s, K[Len(K)].name))
      /\ d = Wants(s, K[Len(K)].name)[K[Len(K)].next]
  BY <1>1 DEF Looks, Top
<1>7. K \in Seq(Frames) /\ Len(K) \in 1..Len(K)
  BY <1>5, <1>6, LenProperties DEF Stacked
<1>8. Advances(K, A)
  BY <1>1, <1>4, <1>6, <1>7, AdvancedIs DEF Advanced
<1>9. Stacked(s, A, T)
  BY <1>5, <1>6, <1>8, StackedAhead
<1>10. PICK t \in Groups : t = K[Len(K)].name
  BY <1>7, FramesAre
<1>11. ASSUME d \in Groups PROVE d \in dependenciesIn(s, t)
  <2>1. PICK j \in Nat \ {0} : j = K[Len(K)].next
    BY <1>7, FramesAre
  <2>2. PICK l \in Nat : l = Len(Wants(s, t))
    BY WantsAre
  <2>3. j \in 1..l /\ Wants(s, t)[j] = d
    BY <1>6, <1>10, <2>1, <2>2
  <2> QED BY <1>11, <2>2, <2>3, WantsAre
<1> QED BY <1>1, <1>2, <1>3, <1>4, <1>5, <1>6, <1>8, <1>9, <1>10, <1>11, Zenon DEF Looking

LEMMA SearchPasses ==
  ASSUME NEW s \in [Groups -> GroupSpec], NEW c, Searched(s, c), NEW d, NEW e,
         Passes(s, c, e, d) \/ (d \in Groups /\ Returns(s, c, e, d))
  PROVE  StepsTo(s, c, e)
<1>1. Looks(s, c, d)
  BY DEF Passes, Returns
<1>2. PICK K, T, C, A : Looking(s, c, d, K, T, C, A)
  BY <1>1, LooksIs, Zenon
<1>3. K = c.stack /\ T = c.state /\ C = c.inCycle /\ A = Advanced(c)
  BY <1>2, Zenon DEF Looking
<1>4. Stacked(s, K, T) /\ Circular(s, C) /\ Advances(K, A) /\ Stacked(s, A, T) /\ Len(K) > 0
  BY <1>2, Zenon DEF Looking
<1>5. PICK t : t = K[Len(K)].name
  BY Zenon
<1>6. K[Len(K)].next <= Len(Wants(s, t)) /\ d = Wants(s, t)[K[Len(K)].next]
  BY <1>2, <1>5, Zenon DEF Looking
<1>7. d \in Groups => d \in dependenciesIn(s, t)
  BY <1>2, <1>5, Zenon DEF Looking
<1>8. PICK R, m : Sorted(s, K, T, C, R, m)
  BY <1>2, Zenon DEF Looking, Orders
<1>9. PICK B : /\ e = [stack |-> A, state |-> T, inCycle |-> B] /\ C \subseteq B /\ Circular(s, B)
               /\ d = Missing \/ T[d] = "done" \/ t \in B
  <2>1. CASE Passes(s, c, e, d)
    <3>1. e = [stack |-> A, state |-> T, inCycle |-> C] /\ (d = Missing \/ T[d] = "done")
      BY <1>3, <2>1, Zenon DEF Passes
    <3> QED BY <1>4, <3>1
  <2>2. CASE d \in Groups /\ Returns(s, c, e, d)
    <3>1. T[d] = "visiting" /\ e = [stack |-> A, state |-> T, inCycle |-> C \cup stackFrom(K, d)]
      BY <1>3, <2>2, Zenon DEF Returns
    <3>2. PICK S : S = stackFrom(K, d)
      BY Zenon
    <3>3. t \in S /\ S \subseteq Groups /\ \A g \in S : OnCycle(s, g)
      BY <1>4, <1>5, <1>7, <2>2, <3>1, <3>2, BackEdge, Zenon
    <3>4. PICK B : B = C \cup S
      BY Zenon
    <3>5. Circular(s, B)
      BY <1>4, <3>3, <3>4 DEF Circular
    <3>6. e = [stack |-> A, state |-> T, inCycle |-> B]
      BY <3>1, <3>2, <3>4, Zenon
    <3> QED BY <3>3, <3>4, <3>5, <3>6
  <2> QED BY <2>1, <2>2, Zenon
<1>10. Sorted(s, A, T, B, R, m)
  BY <1>4, <1>5, <1>6, <1>8, <1>9, SortedAhead, Zenon
<1>11. Searched(s, e)
  BY <1>4, <1>9, <1>10, SearchedIs, Zenon DEF Orders
<1>12. ASSUME NEW k \in Nat, NEW b \in Nat, Owes(s, K, T, k, b) PROVE Owes(s, A, T, k + 1, b)
  BY <1>4, <1>5, <1>6, <1>12, OwesAhead, Zenon
<1>13. e.stack = A /\ e.state = T
  BY <1>9
<1> QED BY <1>3, <1>11, <1>12, <1>13 DEF StepsTo

LEMMA SearchDescends ==
  ASSUME NEW s \in [Groups -> GroupSpec], NEW c, Searched(s, c), NEW d, NEW e, Descends(s, c, e, d)
  PROVE  StepsTo(s, c, e)
<1>1. Looks(s, c, d) /\ d \in Groups
  BY DEF Descends
<1>2. PICK K, T, C, A : Looking(s, c, d, K, T, C, A)
  BY <1>1, LooksIs, Zenon
<1>3. K = c.stack /\ T = c.state /\ C = c.inCycle /\ A = Advanced(c)
  BY <1>2, Zenon DEF Looking
<1>4. Stacked(s, K, T) /\ Circular(s, C) /\ Advances(K, A) /\ Stacked(s, A, T) /\ Len(K) > 0
  BY <1>2, Zenon DEF Looking
<1>5. K[Len(K)].next <= Len(Wants(s, K[Len(K)].name)) /\ d = Wants(s, K[Len(K)].name)[K[Len(K)].next]
  BY <1>2, Zenon DEF Looking
<1>6. T[d] = "unvisited"
  BY <1>3, Zenon DEF Descends
<1>7. A \in Seq(Frames) /\ K \in Seq(Frames)
  BY <1>4, Zenon DEF Stacked
<1>8. PICK P : P = Append(A, Frame(d))
  BY Zenon
<1>9. PushesOn(A, d, P)
  BY <1>1, <1>7, <1>8, PushedIs, Zenon
<1>10. PICK V : V = [T EXCEPT ![d] = "visiting"]
  BY Zenon
<1>11. Len(A) > 0 => A[Len(A)].next > 1 /\ Wants(s, A[Len(A)].name)[A[Len(A)].next - 1] = d
  <2>1. PICK n \in Nat : n = Len(K) /\ n > 0 /\ n = Len(A)
    BY <1>4, <1>7, LenProperties DEF Advances
  <2>3. n \in 1..n
    BY <2>1
  <2>2. PICK j \in Nat \ {0} : j = K[n].next
    <3>1. \A i \in 1..Len(K) : K[i].next \in Nat \ {0}
      BY <1>7, FramesAre, Zenon
    <3> QED BY <2>1, <2>3, <3>1
  <2>4. A[n].name = K[n].name /\ A[n].next = j + 1
    BY <1>4, <2>1, <2>2, <2>3 DEF Advances
  <2>5. (j + 1) - 1 = j /\ j + 1 > 1
    OBVIOUS
  <2> QED BY <1>5, <2>1, <2>2, <2>4, <2>5
<1>12. Stacked(s, P, V)
  BY <1>1, <1>4, <1>6, <1>9, <1>10, <1>11, StackedMore, Zenon
<1>13. PICK R, m : Sorted(s, K, T, C, R, m)
  BY <1>2, Zenon DEF Looking, Orders
<1>14. Sorted(s, P, V, C, R, m)
  BY <1>1, <1>4, <1>5, <1>6, <1>9, <1>10, <1>13, SortedMore, Zenon
<1>15. e = [stack |-> P, state |-> V, inCycle |-> C]
  BY <1>3, <1>8, <1>10, Zenon DEF Descends
<1>16. Searched(s, e)
  BY <1>4, <1>12, <1>14, <1>15, SearchedIs, Zenon DEF Orders
<1>17. ASSUME NEW k \in Nat, NEW b \in Nat, Owes(s, K, T, k, b) PROVE Owes(s, P, V, k + 1, b)
  <2>1. Owes(s, A, T, k + 1, b)
    BY <1>4, <1>5, <1>17, OwesAhead, Zenon
  <2>2. PICK l \in Nat : l = k + 1
    OBVIOUS
  <2>3. Owes(s, P, V, l + 1, b)
    BY <1>1, <1>4, <1>6, <1>9, <1>10, <2>1, <2>2, OwesMore, Zenon
  <2> QED BY <2>2, <2>3, OwesNoMore, Zenon
<1>18. e.stack = P /\ e.state = V
  BY <1>15
<1> QED BY <1>3, <1>16, <1>17, <1>18 DEF StepsTo

LEMMA SearchSteps ==
  ASSUME NEW s \in [Groups -> GroupSpec], NEW c, Searched(s, c)
  PROVE  \/ Rests(c) /\ visitStep(s, c) = c
         \/ StepsTo(s, c, visitStep(s, c))
<1>1. PICK e : e = visitStep(s, c)
  BY Zenon
<1>2. Moves(s, c, e)
  <2>1. c \in Search
    BY DEF Searched
  <2> QED BY <1>1, <2>1, StepIs, Zenon
<1>3. ASSUME NEW g \in Groups, Begins(c, e, g) PROVE StepsTo(s, c, e)
  BY <1>3, SearchBegins
<1>4. ASSUME Finishes(s, c, e) PROVE StepsTo(s, c, e)
  BY <1>4, SearchFinishes
<1>5. ASSUME NEW d, Passes(s, c, e, d) \/ Descends(s, c, e, d) \/ Returns(s, c, e, d) PROVE StepsTo(s, c, e)
  <2>1. CASE Descends(s, c, e, d)
    BY <2>1, SearchDescends
  <2>2. CASE Passes(s, c, e, d) \/ Returns(s, c, e, d)
    <3>1. Returns(s, c, e, d) => d \in Groups
      BY DEF Returns
    <3> QED BY <2>2, <3>1, SearchPasses
  <2> QED BY <1>5, <2>1, <2>2
<1> QED BY <1>1, <1>2, <1>3, <1>4, <1>5, Zenon DEF Moves

\* A search that has made all the steps it owed is at its end, and every group is done.
LEMMA SearchIsDone ==
  ASSUME NEW s \in [Groups -> GroupSpec], NEW c, Searched(s, c), NEW b \in Nat,
         Rests(c) \/ Owes(s, c.stack, c.state, b, b)
  PROVE  \A g \in Groups : c.state[g] = "done"
<1>1. PICK K : K = c.stack
  OBVIOUS
<1>2. PICK T : T = c.state /\ Stacked(s, K, T)
  BY <1>1 DEF Searched
<1>3. \A g \in Groups : T[g] \in {"unvisited", "visiting", "done"}
  BY <1>2 DEF Stacked
<1>4. CASE Rests(c)
  <2>1. Len(K) = 0
    <3>1. c.stack = <<>>
      BY <1>4 DEF Rests
    <3> QED BY <1>1, <3>1, EmptySeq
  <2>2. \A g \in Groups : T[g] # "visiting"
    BY <1>2, <2>1 DEF Stacked
  <2>3. \A g \in Groups : T[g] # "unvisited"
    BY <1>2, <1>4 DEF Rests
  <2> QED BY <1>2, <1>3, <2>2, <2>3
<1>5. CASE Owes(s, K, T, b, b)
  <2>1. PICK w, F : Weighs(s, K, T, w) /\ Totals(w, F) /\ F[N] + b <= b
    BY <1>5 DEF Owes
  <2>2. w \in [Groups -> Nat] /\ F \in [0..N -> Int]
    BY <2>1 DEF Weighs, Totals
  <2>3. F[N] <= 0 /\ F[N] \in Int
    BY <2>1, <2>2, NIs
  <2>4. ASSUME NEW g \in Groups PROVE T[g] = "done"
    <3>1. w[g] <= F[N] /\ w[g] \in Nat
      BY <2>1, <2>2, TotalHolds
    <3>2. w[g] = 0
      BY <2>3, <3>1
    <3>3. PICK l \in Nat : l = Len(Wants(s, g))
      BY WantsAre
    <3>4. T[g] # "unvisited"
      <4>1. T[g] = "unvisited" => w[g] = l + 2
        BY <2>1, <3>3 DEF Weighs
      <4> QED BY <3>2, <4>1
    <3>5. ASSUME T[g] = "visiting" PROVE FALSE
      <4>1. PICK i \in 1..Len(K) : K[i].name = g
        BY <1>2, <3>5 DEF Stacked
      <4>2. w[g] = l + 2 - K[i].next
        BY <2>1, <3>3, <4>1 DEF Weighs
      <4>3. K[i].next <= l + 1
        BY <1>2, <3>3, <4>1 DEF Stacked
      <4>4. K[i].next \in Nat
        BY <1>2, <4>1, FramesAre DEF Stacked
      <4> QED BY <3>2, <4>2, <4>3, <4>4
    <3> QED BY <1>3, <3>4, <3>5
  <2> QED BY <1>2, <2>4
<1> QED BY <1>1, <1>2, <1>4, <1>5

\* How many wants the first groups have.
Edges(s, E) == E = [g \in 0..N |-> IF g = 0 THEN 0 ELSE E[g - 1] + Len(s[g].dependsOn)]

LEMMA EdgesAre ==
  ASSUME NEW s \in [Groups -> GroupSpec]
  PROVE  /\ \E E : Edges(s, E)
         /\ \A E : Edges(s, E) =>
              E \in [0..N -> Nat] /\ E[0] = 0 /\ \A k \in 1..N : E[k] = E[k - 1] + Len(Wants(s, k))
<1>1. N \in Nat /\ Groups = 1..N
  BY NIs
<1>2. \A k \in 1..N : Len(Wants(s, k)) \in Nat
  BY <1>1, WantsAre
<1>3. \E E : Edges(s, E)
  <2>1. PICK F : F = [p \in (1..N) \X Nat |-> p[2] + Len(Wants(s, p[1]))]
    OBVIOUS
  <2>2. F \in Steppers(N, Nat)
    BY <1>2, <2>1 DEF Steppers
  <2>3. PICK b \in Nat : b = 0
    OBVIOUS
  <2>4. PICK f : Recurs(N, Nat, b, F, f)
    BY <1>1, <2>2, Recursion, Zenon
  <2>5. f \in [0..N -> Nat] /\ f[0] = 0 /\ \A k \in 1..N : f[k] = F[<<k, f[k - 1]>>]
    BY <2>3, <2>4 DEF Recurs
  <2>6. ASSUME NEW g \in 0..N PROVE f[g] = IF g = 0 THEN 0 ELSE f[g - 1] + Len(s[g].dependsOn)
    <3>1. CASE g = 0
      BY <2>5, <3>1
    <3>2. CASE g # 0
      <4>1. g \in 1..N /\ f[g - 1] \in Nat
        BY <1>1, <2>5, <3>2
      <4>2. f[g] = F[<<g, f[g - 1]>>]
        BY <2>5, <4>1
      <4>3. F[<<g, f[g - 1]>>] = f[g - 1] + Len(Wants(s, g))
        BY <2>1, <4>1
      <4> QED BY <3>2, <4>2, <4>3 DEF Wants
    <3> QED BY <3>1, <3>2
  <2>7. f = [g \in 0..N |-> IF g = 0 THEN 0 ELSE f[g - 1] + Len(s[g].dependsOn)]
    BY <2>5, <2>6
  <2> QED BY <2>7, Zenon DEF Edges
<1>4. ASSUME NEW E, Edges(s, E)
      PROVE  E \in [0..N -> Nat] /\ E[0] = 0 /\ \A k \in 1..N : E[k] = E[k - 1] + Len(Wants(s, k))
  <2>1. E[0] = 0
    BY <1>1, <1>4 DEF Edges
  <2>2. ASSUME NEW k \in 1..N PROVE E[k] = E[k - 1] + Len(Wants(s, k))
    <3>1. k \in 0..N /\ k # 0
      BY <1>1
    <3> QED BY <1>4, <3>1, Zenon DEF Edges, Wants
  <2>3. PICK G : G = {k \in 0..N : E[k] \in Nat}
    BY Zenon
  <2>4. \A n \in 0..N : n \in G
    <3>1. ASSUME NEW n \in 0..N PROVE n \in G
      <4>1. 0 \in G
        BY <1>1, <2>1, <2>3
      <4>2. ASSUME NEW k \in 0..(n - 1), k \in G PROVE k + 1 \in G
        <5>1. k + 1 \in 1..N /\ (k + 1) - 1 = k /\ k + 1 \in 0..N
          BY <1>1
        <5>2. E[k + 1] = E[k] + Len(Wants(s, k + 1))
          BY <2>2, <5>1
        <5> QED BY <1>2, <2>3, <4>2, <5>1, <5>2
      <4>3. n \in Nat
        OBVIOUS
      <4> QED BY <4>1, <4>2, <4>3, GoesOn
    <3> QED BY <3>1
  <2>5. DOMAIN E = 0..N /\ E = [k \in DOMAIN E |-> E[k]]
    BY <1>4 DEF Edges
  <2>6. E \in [0..N -> Nat]
    <3>1. \A k \in 0..N : E[k] \in Nat
      BY <2>3, <2>4
    <3> QED BY <2>5, <3>1
  <2> QED BY <2>1, <2>2, <2>6
<1> QED BY <1>3, <1>4

Untouched == [stack |-> <<>>, state |-> [g \in Groups |-> "unvisited"], inCycle |-> {}]

LEMMA SearchStarts ==
  ASSUME NEW s \in [Groups -> GroupSpec], NEW E, Edges(s, E)
  PROVE  /\ Searched(s, Untouched) /\ 2 * N + E[N] \in Nat
         /\ Owes(s, Untouched.stack, Untouched.state, 0, 2 * N + E[N])
<1>1. PICK K : K = <<>>
  OBVIOUS
<1>2. K \in Seq(Frames) /\ Len(K) = 0
  BY <1>1, EmptySeq
<1>3. PICK T : T = [g \in Groups |-> "unvisited"]
  OBVIOUS
<1>4. T \in [Groups -> {"unvisited", "visiting", "done"}] /\ \A g \in Groups : T[g] = "unvisited"
  BY <1>3
<1>5. Stacked(s, K, T)
  BY <1>2, <1>4 DEF Stacked
<1>6. Orders(s, K, T, {})
  <2>1. [g \in Groups |-> 0] \in [Groups -> Nat]
    OBVIOUS
  <2>2. Sorted(s, K, T, {}, [g \in Groups |-> 0], 0)
    BY <1>2, <1>4, <2>1 DEF Sorted
  <2> QED BY <2>2 DEF Orders
<1>7. Circular(s, {})
  BY DEF Circular
<1>8. Searched(s, Untouched) /\ Untouched.stack = K /\ Untouched.state = T
  BY <1>1, <1>3, <1>5, <1>6, <1>7, SearchedIs DEF Untouched
<1>9. E \in [0..N -> Nat] /\ E[0] = 0 /\ \A k \in 1..N : E[k] = E[k - 1] + Len(Wants(s, k))
  BY EdgesAre
<1>10. N \in Nat /\ Groups = 1..N /\ E[N] \in Nat
  BY <1>9, NIs
<1>11. PICK w : w = [g \in Groups |-> Len(Wants(s, g)) + 2]
  OBVIOUS
<1>12. \A g \in Groups : Len(Wants(s, g)) \in Nat
  BY WantsAre
<1>13. Weighs(s, K, T, w)
  BY <1>2, <1>4, <1>11, <1>12 DEF Weighs
<1>14. PICK F : F = [k \in 0..N |-> 2 * k + E[k]]
  OBVIOUS
<1>15. Totals(w, F)
  <2>1. F \in [0..N -> Int] /\ F[0] = 0
    BY <1>9, <1>10, <1>14
  <2>2. ASSUME NEW k \in 1..N PROVE F[k] = F[k - 1] + w[k]
    <3>1. k \in 0..N /\ k - 1 \in 0..N /\ k \in Groups
      BY <1>10
    <3>2. F[k] = 2 * k + E[k] /\ F[k - 1] = 2 * (k - 1) + E[k - 1] /\ w[k] = Len(Wants(s, k)) + 2
      BY <1>11, <1>14, <3>1
    <3>3. E[k] = E[k - 1] + Len(Wants(s, k)) /\ E[k - 1] \in Nat /\ Len(Wants(s, k)) \in Nat
      BY <1>9, <1>12, <3>1
    <3> QED BY <3>2, <3>3
  <2> QED BY <2>1, <2>2 DEF Totals
<1>16. F[N] + 0 <= 2 * N + E[N]
  BY <1>10, <1>14
<1>17. Owes(s, K, T, 0, 2 * N + E[N])
  BY <1>13, <1>15, <1>16 DEF Owes
<1> QED BY <1>8, <1>10, <1>17

\* The search's states, step by step.
Visiting(s, n, f) ==
    f = [k \in 0..n |-> IF k = 0 THEN [stack |-> <<>>, state |-> [g \in Groups |-> "unvisited"], inCycle |-> {}]
                        ELSE visitStep(s, f[k - 1])]

LEMMA VisitingExists ==
  ASSUME NEW s \in [Groups -> GroupSpec], NEW n \in Nat, Searched(s, Untouched)
  PROVE  \E f : Visiting(s, n, f)
<1>1. PICK D : D = {c \in Search : Searched(s, c)}
  BY Zenon
<1>2. \A c : Searched(s, c) => c \in D
  BY <1>1 DEF Searched
<1>3. ASSUME NEW c \in D PROVE visitStep(s, c) \in D
  <2>1. Searched(s, c)
    BY <1>1
  <2>2. visitStep(s, c) = c \/ Searched(s, visitStep(s, c))
    BY <2>1, SearchSteps DEF StepsTo
  <2> QED BY <1>2, <2>2
<1>4. PICK F : F = [p \in (1..n) \X D |-> visitStep(s, p[2])]
  OBVIOUS
<1>5. F \in Steppers(n, D)
  BY <1>3, <1>4 DEF Steppers
<1>6. PICK b \in D : b = Untouched
  BY <1>2
<1>7. PICK f : Recurs(n, D, b, F, f)
  BY <1>5, Recursion, Zenon
<1>8. f \in [0..n -> D] /\ f[0] = Untouched /\ \A k \in 1..n : f[k] = F[<<k, f[k - 1]>>]
  BY <1>6, <1>7 DEF Recurs
<1>9. ASSUME NEW k \in 0..n PROVE f[k] = IF k = 0 THEN Untouched ELSE visitStep(s, f[k - 1])
  <2>1. CASE k = 0
    BY <1>8, <2>1
  <2>2. CASE k # 0
    <3>1. k \in 1..n /\ f[k - 1] \in D
      BY <1>8, <2>2
    <3>2. f[k] = F[<<k, f[k - 1]>>]
      BY <1>8, <3>1
    <3>3. F[<<k, f[k - 1]>>] = visitStep(s, f[k - 1])
      BY <1>4, <3>1
    <3> QED BY <2>2, <3>2, <3>3
  <2> QED BY <2>1, <2>2
<1>10. f = [k \in 0..n |-> IF k = 0 THEN Untouched ELSE visitStep(s, f[k - 1])]
  BY <1>8, <1>9
<1> QED BY <1>10, Zenon DEF Visiting, Untouched

\* findCycles finds groups on cycles only, and there is an order of the groups in
\* which what a group it does not find depends on comes before the group.
LEMMA FoundIs ==
  ASSUME NEW s \in [Groups -> GroupSpec]
  PROVE  /\ Circular(s, findCycles(s))
         /\ \E m \in Nat : \E R \in [Groups -> 0..m] :
              \A g \in Groups \ findCycles(s) : \A d \in dependenciesIn(s, g) : R[d] < R[g]
<1>1. PICK E : E = CHOOSE e : Edges(s, e)
  BY Zenon
<1>2. Edges(s, E)
  BY <1>1, EdgesAre, Zenon
<1>3. PICK n \in Nat : n = 2 * N + E[N]
  BY <1>2, SearchStarts
<1>4. Searched(s, Untouched) /\ Owes(s, Untouched.stack, Untouched.state, 0, n)
  BY <1>2, <1>3, SearchStarts
<1>5. PICK f : f = CHOOSE h : Visiting(s, n, h)
  BY Zenon
<1>6. Visiting(s, n, f)
  BY <1>4, <1>5, VisitingExists, Zenon
<1>7. findCycles(s) = f[n].inCycle
  BY <1>1, <1>3, <1>5, Zenon DEF findCycles, Edges, Visiting
<1>8. \A k \in 0..n : f[k] = IF k = 0 THEN Untouched ELSE visitStep(s, f[k - 1])
  BY <1>6, Zenon DEF Visiting, Untouched
<1>9. PICK G : G = {k \in 0..n : Searched(s, f[k]) /\ (Rests(f[k]) \/ Owes(s, f[k].stack, f[k].state, k, n))}
  BY Zenon
<1>10. 0 \in G
  <2>1. 0 \in 0..n /\ f[0] = Untouched
    BY <1>8
  <2> QED BY <1>4, <1>9, <2>1
<1>11. ASSUME NEW k \in 0..(n - 1), k \in G PROVE k + 1 \in G
  <2>1. k + 1 \in 0..n /\ k + 1 # 0 /\ (k + 1) - 1 = k /\ k \in Nat
    OBVIOUS
  <2>2. f[k + 1] = visitStep(s, f[k])
    BY <1>8, <2>1
  <2>3. Searched(s, f[k]) /\ (Rests(f[k]) \/ Owes(s, f[k].stack, f[k].state, k, n))
    BY <1>9, <1>11
  <2>4. CASE Rests(f[k]) /\ f[k + 1] = f[k]
    BY <1>9, <2>1, <2>3, <2>4
  <2>5. CASE StepsTo(s, f[k], f[k + 1])
    <3>1. Searched(s, f[k + 1])
      BY <2>5 DEF StepsTo
    <3>2. CASE Owes(s, f[k].stack, f[k].state, k, n)
      <4>1. Owes(s, f[k + 1].stack, f[k + 1].state, k + 1, n)
        BY <2>1, <2>5, <3>2 DEF StepsTo
      <4> QED BY <1>9, <2>1, <3>1, <4>1
    <3>3. CASE Rests(f[k])
      <4>1. f[k] \in Search
        BY <2>3 DEF Searched
      <4>2. f[k].stack = <<>> /\ {g \in Groups : f[k].state[g] = "unvisited"} = {}
        BY <3>3 DEF Rests
      <4>3. visitStep(s, f[k]) = f[k]
        BY <4>2, Zenon DEF visitStep
      <4> QED BY <1>9, <2>1, <2>2, <2>3, <3>3, <4>3
    <3> QED BY <2>3, <3>2, <3>3
  <2> QED BY <2>2, <2>3, <2>4, <2>5, SearchSteps
<1>12. n \in G
  BY <1>10, <1>11, GoesOn
<1>13. PICK c : c = f[n] /\ Searched(s, c) /\ (Rests(c) \/ Owes(s, c.stack, c.state, n, n))
  BY <1>9, <1>12
<1>14. \A g \in Groups : c.state[g] = "done"
  BY <1>13, SearchIsDone
<1>15. PICK R, m : Sorted(s, c.stack, c.state, c.inCycle, R, m)
  BY <1>13 DEF Searched, Orders
<1>16. R \in [Groups -> Nat] /\ \A g \in Groups \ c.inCycle : \A d \in dependenciesIn(s, g) : R[d] < R[g]
  BY <1>14, <1>15 DEF Sorted
<1>17. m \in Nat /\ \A g \in Groups : R[g] < m
  BY <1>14, <1>15 DEF Sorted
<1>18. R \in [Groups -> 0..m]
  BY <1>16, <1>17
<1> QED BY <1>7, <1>13, <1>16, <1>17, <1>18 DEF Searched

\* What is reached through groups of S stays in a set that those groups do not leave.
LEMMA ReachedStays ==
  ASSUME NEW s \in [Groups -> GroupSpec], NEW S, NEW g \in Groups, NEW X, dependenciesIn(s, g) \subseteq X,
         \A h \in X \cap S : dependenciesIn(s, h) \subseteq X
  PROVE  ReachesThrough(s, S, g) \subseteq X
<1>1. PICK f : /\ ReachesThrough(s, S, g) = f[N] /\ f[0] = dependenciesIn(s, g)
               /\ \A k \in 1..N : f[k] = f[k - 1] \cup UNION {dependenciesIn(s, h) : h \in f[k - 1] \cap S}
  BY ReachedIs
<1>2. PICK G : G = {k \in 0..N : f[k] \subseteq X}
  BY Zenon
<1>3. N \in Nat
  BY NIs
<1>4. 0 \in G
  BY <1>1, <1>2, <1>3
<1>5. ASSUME NEW k \in 0..(N - 1), k \in G PROVE k + 1 \in G
  <2>1. k + 1 \in 1..N /\ (k + 1) - 1 = k /\ k + 1 \in 0..N
    BY <1>3
  <2>2. f[k + 1] = f[k] \cup UNION {dependenciesIn(s, h) : h \in f[k] \cap S}
    BY <1>1, <2>1
  <2>3. f[k] \subseteq X
    BY <1>2, <1>5
  <2>4. f[k + 1] \subseteq X
    BY <2>2, <2>3
  <2> QED BY <1>2, <2>1, <2>4
<1>6. N \in G
  BY <1>3, <1>4, <1>5, GoesOn
<1> QED BY <1>1, <1>2, <1>6

LEMMA FoundCuts ==
  ASSUME NEW s \in [Groups -> GroupSpec]
  PROVE  Cuts(s, findCycles(s))
<1>1. PICK cut : cut = findCycles(s) /\ Circular(s, cut)
  BY FoundIs
<1>2. PICK m \in Nat : \E R \in [Groups -> 0..m] :
        \A g \in Groups \ cut : \A d \in dependenciesIn(s, g) : R[d] < R[g]
  BY <1>1, FoundIs
<1>3. PICK R \in [Groups -> 0..m] : \A g \in Groups \ cut : \A d \in dependenciesIn(s, g) : R[d] < R[g]
  BY <1>2
<1>4. ASSUME NEW g \in Groups \ cut PROVE g \notin ReachesThrough(s, Groups \ cut, g)
  <2>1. PICK X : X = {h \in Groups : R[h] < R[g]}
    BY Zenon
  <2>2. \A h \in Groups : dependenciesIn(s, h) \subseteq Groups /\ R[h] \in Nat
    BY WantsAre
  <2>3. dependenciesIn(s, g) \subseteq X
    BY <1>3, <2>1, <2>2
  <2>4. ASSUME NEW h \in X \cap (Groups \ cut), NEW d \in dependenciesIn(s, h) PROVE d \in X
    <3>1. R[d] < R[h] /\ R[h] < R[g] /\ d \in Groups
      BY <1>3, <2>1, <2>2, <2>4
    <3> QED BY <2>1, <2>2, <3>1
  <2>5. ReachesThrough(s, Groups \ cut, g) \subseteq X
    BY <2>3, <2>4, ReachedStays
  <2>6. g \notin X
    BY <2>1, <2>2
  <2> QED BY <2>5, <2>6
<1> QED BY <1>1, <1>4 DEF Cuts, Circular

\* The specs do not change, and the cycles found are theirs.
LEMMA CyclesAreFound == DependencySpec => [](spec \in [Groups -> GroupSpec] /\ inCycle = findCycles(spec))
<1>1. DependencyInit => spec \in [Groups -> GroupSpec] /\ inCycle = findCycles(spec)
  BY ConstantsAssumption, Zenon DEF DependencyInit
<1>2. [DependencyNext]_dependencyVars => spec' = spec /\ inCycle' = inCycle
  BY Zenon DEF DependencyNext, dependencyVars, ReconcileGroup, DryRun, WaitForDependencies, Scale, Flip, PodsSettle,
     PodFails, CacheSync, boundVars
<1>3. (spec \in [Groups -> GroupSpec] /\ inCycle = findCycles(spec)) /\ [DependencyNext]_dependencyVars
        => (spec \in [Groups -> GroupSpec] /\ inCycle = findCycles(spec))'
  BY <1>2
<1> QED BY <1>1, <1>3, PTL DEF DependencySpec

\* Every dependsOn cycle has a member whose dependsOn is ignored, and no group
\* outside the cycles is ignored: findCycles cuts them.
THEOREM CyclesAreBroken == DependencySpec => []CyclesBroken
<1>1. spec \in [Groups -> GroupSpec] /\ inCycle = findCycles(spec) => CyclesBroken
  BY FoundCuts DEF CyclesBroken
<1> QED BY <1>1, CyclesAreFound, PTL

\* The plan is what the recursion over dependents says, which ends.
Activated(v, f, g) ==
    \/ ownDecision(v, g)
    \/ /\ ~manual(v[g].wish)
       /\ \E d \in dependents(g) : f[d] \/ (v[d].phase # "ScaledDown" /\ isRunning(v[g].phase))
Activates(v, f) == f = [g \in Groups |-> Activated(v, f, g)]

LEMMA ActivatesExists ==
  ASSUME NEW v, spec \in [Groups -> GroupSpec], inCycle = findCycles(spec)
  PROVE  \E f : Activates(v, f)
<1>0. PICK m \in Nat : \E R \in [Groups -> 0..m] :
        \A g \in Groups \ inCycle : \A d \in dependenciesIn(spec, g) : R[d] < R[g]
  BY FoundIs
<1>1. PICK R \in [Groups -> 0..m] : \A g \in Groups \ inCycle : \A d \in dependenciesIn(spec, g) : R[d] < R[g]
  BY <1>0
<1>2. \A g \in Groups : \A d \in dependents(g) : d \in Groups /\ R[g] < R[d]
  BY <1>1 DEF dependents, dependencies
<1>3. PICK Own : Own = {g \in Groups : ownDecision(v, g)}
  BY Zenon
<1>4. PICK Pin : Pin = {g \in Groups : /\ ~manual(v[g].wish)
                                       /\ \E d \in dependents(g) : v[d].phase # "ScaledDown" /\ isRunning(v[g].phase)}
  BY Zenon
<1>5. PICK Free : Free = {g \in Groups : ~manual(v[g].wish)}
  BY Zenon
<1>6. PICK D : D = SUBSET Groups
  OBVIOUS
<1>7. PICK F : F = [p \in (1..(m + 2)) \X D |->
                       {g \in Groups : g \in Own \/ g \in Pin \/ (g \in Free /\ dependents(g) \cap p[2] # {})}]
  OBVIOUS
<1>8. F \in Steppers(m + 2, D)
  BY <1>6, <1>7 DEF Steppers
<1>9. PICK b \in D : b = {}
  BY <1>6
<1>10. m + 2 \in Nat
  OBVIOUS
<1>11. PICK f : Recurs(m + 2, D, b, F, f)
  BY <1>8, <1>10, Recursion, Zenon
<1>12. f \in [0..(m + 2) -> D] /\ \A k \in 1..(m + 2) : f[k] = F[<<k, f[k - 1]>>]
  BY <1>11 DEF Recurs
<1>13. ASSUME NEW k \in 1..(m + 2), NEW g \in Groups
       PROVE  g \in f[k] <=> g \in Own \/ g \in Pin \/ (g \in Free /\ dependents(g) \cap f[k - 1] # {})
  <2>1. k - 1 \in 0..(m + 2) /\ f[k - 1] \in D
    BY <1>12
  <2>2. F[<<k, f[k - 1]>>] = {h \in Groups : h \in Own \/ h \in Pin \/ (h \in Free /\ dependents(h) \cap f[k - 1] # {})}
    BY <1>7, <2>1
  <2> QED BY <1>12, <2>2
<1>14. PICK G : G = {k \in 0..(m + 1) : \A g \in Groups : R[g] + k > m => (g \in f[k] <=> g \in f[k + 1])}
  BY Zenon
<1>15. 0 \in G
  BY <1>14
<1>16. ASSUME NEW k \in 0..m, k \in G PROVE k + 1 \in G
  <2>1. k + 1 \in 1..(m + 2) /\ (k + 1) + 1 \in 1..(m + 2) /\ (k + 1) - 1 = k /\ ((k + 1) + 1) - 1 = k + 1
        /\ k + 1 \in 0..(m + 1)
    OBVIOUS
  <2>2. ASSUME NEW g \in Groups, R[g] + (k + 1) > m PROVE g \in f[k + 1] <=> g \in f[(k + 1) + 1]
    <3>1. ASSUME NEW d \in dependents(g) PROVE d \in f[k] <=> d \in f[k + 1]
      <4>1. d \in Groups /\ R[g] < R[d]
        BY <1>2, <3>1
      <4>2. R[d] + k > m
        <5>1. R[d] \in Nat /\ R[g] \in Nat
          BY <4>1
        <5> QED BY <2>2, <4>1, <5>1
      <4> QED BY <1>14, <1>16, <4>1, <4>2
    <3>2. dependents(g) \cap f[k] # {} <=> dependents(g) \cap f[k + 1] # {}
      BY <3>1
    <3>3. g \in f[k + 1] <=> g \in Own \/ g \in Pin \/ (g \in Free /\ dependents(g) \cap f[k] # {})
      BY <1>13, <2>1
    <3>4. g \in f[(k + 1) + 1] <=> g \in Own \/ g \in Pin \/ (g \in Free /\ dependents(g) \cap f[k + 1] # {})
      BY <1>13, <2>1
    <3> QED BY <3>2, <3>3, <3>4
  <2> QED BY <1>14, <2>1, <2>2
<1>17. m + 1 \in G
  <2>1. m + 1 \in Nat /\ (m + 1) - 1 = m
    OBVIOUS
  <2> QED BY <1>15, <1>16, <2>1, GoesOn
<1>18. PICK A : A = f[m + 1]
  OBVIOUS
<1>19. ASSUME NEW g \in Groups
       PROVE  g \in A <=> g \in Own \/ g \in Pin \/ (g \in Free /\ dependents(g) \cap A # {})
  <2>1. R[g] + (m + 1) > m
    OBVIOUS
  <2>2. g \in f[m + 1] <=> g \in f[(m + 1) + 1]
    BY <1>14, <1>17, <2>1
  <2>3. (m + 1) + 1 \in 1..(m + 2) /\ ((m + 1) + 1) - 1 = m + 1
    OBVIOUS
  <2>4. g \in f[(m + 1) + 1] <=> g \in Own \/ g \in Pin \/ (g \in Free /\ dependents(g) \cap f[m + 1] # {})
    BY <1>13, <2>3
  <2> QED BY <1>18, <2>2, <2>4
<1>20. PICK a : a = [g \in Groups |-> IF g \in A THEN TRUE ELSE FALSE]
  OBVIOUS
<1>21. ASSUME NEW g \in Groups PROVE (g \in A) <=> Activated(v, a, g)
  <2>1. \A d \in dependents(g) : a[d] <=> d \in A
    BY <1>2, <1>20
  <2>2. dependents(g) \cap A # {} <=> \E d \in dependents(g) : a[d]
    BY <2>1
  <2> QED BY <1>3, <1>4, <1>5, <1>19, <2>2, Zenon DEF Activated
<1>22. a = [g \in Groups |-> Activated(v, a, g)]
  <2>1. ASSUME NEW g \in Groups PROVE a[g] = Activated(v, a, g)
    <3>1. CASE g \in A
      <4>1. Activated(v, a, g) = TRUE
        BY <1>21, <3>1, Zenon DEF Activated
      <4> QED BY <1>20, <3>1, <4>1
    <3>2. CASE g \notin A
      <4>1. Activated(v, a, g) = FALSE
        BY <1>21, <3>2, Zenon DEF Activated
      <4> QED BY <1>20, <3>2, <4>1
    <3> QED BY <3>1, <3>2
  <2> QED BY <1>20, <2>1, Zenon
<1> QED BY <1>22, Zenon DEF Activates

LEMMA PlanIs ==
  ASSUME NEW v, NEW g \in Groups, spec \in [Groups -> GroupSpec], inCycle = findCycles(spec)
  PROVE  \/ PlanActive(v)[g]
         \/ /\ ~ownDecision(v, g)
            /\ \/ manual(v[g].wish)
               \/ \A d \in dependents(g) : v[d].phase = "ScaledDown" \/ ~isRunning(v[g].phase)
<1>1. PICK f : f = CHOOSE h : Activates(v, h)
  BY Zenon
<1>2. Activates(v, f)
  BY <1>1, ActivatesExists, Zenon
<1>3. PlanActive(v) = f
  BY <1>1, Zenon DEF PlanActive, Activates, Activated
<1>4. f[g] = Activated(v, f, g)
  BY <1>2, Zenon DEF Activates
<1>5. CASE Activated(v, f, g)
  BY <1>3, <1>4, <1>5, Zenon
<1>6. CASE ~Activated(v, f, g)
  BY <1>6, Zenon DEF Activated
<1> QED BY <1>5, <1>6

-----------------------------------------------------------------------------
(* What a group's phase tells of its workloads, unless it could not be stored. *)

Truthful ==
    /\ spec \in [Groups -> GroupSpec] /\ phase \in [Groups -> Phases]
    /\ work \in [Groups -> {"up", "down", "rising", "falling", "degraded"}]
    /\ \A g \in Groups :
         /\ spec[g].dryRun => phase[g] \in {"", "DryRun"}
         /\ ~spec[g].dryRun => phase[g] # "DryRun"
         /\ ~spec[g].dryRun /\ g \notin unsaved /\ phase[g] = "ScaledUp" => work[g] \in {"up", "degraded"}
         /\ ~spec[g].dryRun /\ g \notin unsaved /\ phase[g] = "ScaledDown" => work[g] = "down"

\* What a pass leaves of the phases: stored or not, that of the group says p unless
\* it is unsaved.
Writes(g, p) ==
    /\ \A h \in Groups : h # g => phase'[h] = phase[h] /\ (h \in unsaved' <=> h \in unsaved)
    /\ phase'[g] \in {p, phase[g]}
    /\ g \notin unsaved' => phase'[g] = p

LEMMA WritePhaseIs ==
  ASSUME NEW g \in Groups, NEW p \in Phases, phase \in [Groups -> Phases], WritePhase(g, p)
  PROVE  Writes(g, p) /\ phase' \in [Groups -> Phases]
<1>1. \/ phase' = [phase EXCEPT ![g] = p] /\ unsaved' = unsaved \ {g}
      \/ phase' = phase /\ p = phase[g] /\ unsaved' = unsaved \ {g}
      \/ phase' = phase /\ unsaved' = unsaved \cup {g}
  BY Zenon DEF WritePhase
<1> QED BY <1>1 DEF Writes

LEMMA TruthfulWrites ==
  ASSUME Truthful, NEW g \in Groups, NEW p \in Phases, Writes(g, p), phase' \in [Groups -> Phases],
         spec' = spec, work' \in [Groups -> {"up", "down", "rising", "falling", "degraded"}],
         \A h \in Groups : h # g => work'[h] = work[h],
         spec[g].dryRun => p = "DryRun", ~spec[g].dryRun => p # "DryRun",
         ~spec[g].dryRun /\ p = "ScaledUp" => work'[g] \in {"up", "degraded"},
         ~spec[g].dryRun /\ p = "ScaledDown" => work'[g] = "down"
  PROVE  Truthful'
<1>1. ASSUME NEW h \in Groups
      PROVE  /\ spec[h].dryRun => phase'[h] \in {"", "DryRun"}
             /\ ~spec[h].dryRun => phase'[h] # "DryRun"
             /\ ~spec[h].dryRun /\ h \notin unsaved' /\ phase'[h] = "ScaledUp" => work'[h] \in {"up", "degraded"}
             /\ ~spec[h].dryRun /\ h \notin unsaved' /\ phase'[h] = "ScaledDown" => work'[h] = "down"
  <2>1. CASE h = g
    BY <2>1 DEF Truthful, Writes
  <2>2. CASE h # g
    BY <2>2 DEF Truthful, Writes
  <2> QED BY <2>1, <2>2
<1> QED BY <1>1 DEF Truthful

LEMMA TruthfulStarts == DependencyInit => Truthful
<1> SUFFICES ASSUME DependencyInit PROVE Truthful
  OBVIOUS
<1>1. spec \in [Groups -> GroupSpec]
  BY ConstantsAssumption DEF DependencyInit
<1>2. work \in [Groups -> {"up", "down"}] /\ phase \in [Groups -> {"", "ScaledUp", "ScaledDown", "DryRun"}]
  BY DEF DependencyInit
<1>3. ASSUME NEW g \in Groups
      PROVE  /\ spec[g].dryRun => phase[g] \in {"", "DryRun"}
             /\ ~spec[g].dryRun => phase[g] # "DryRun"
             /\ ~spec[g].dryRun /\ phase[g] = "ScaledUp" => work[g] \in {"up", "degraded"}
             /\ ~spec[g].dryRun /\ phase[g] = "ScaledDown" => work[g] = "down"
  <2>1. IF NewGroups THEN phase[g] = "" /\ work[g] = "up"
        ELSE IF spec[g].dryRun THEN phase[g] = "DryRun"
        ELSE phase[g] = IF work[g] = "up" THEN "ScaledUp" ELSE "ScaledDown"
    BY DEF DependencyInit, Settled
  <2> QED BY <1>2, <2>1
<1> QED BY <1>1, <1>2, <1>3 DEF Truthful, Phases

LEMMA TruthfulReconcile ==
  ASSUME Truthful, NEW g \in Groups, ReconcileGroup(g)
  PROVE  Truthful'
<1>1. phase \in [Groups -> Phases] /\ work \in [Groups -> {"up", "down", "rising", "falling", "degraded"}]
  BY DEF Truthful
<1>2. CASE DryRun(g)
  <2>1. PICK p \in Phases : p = "DryRun"
    BY DEF Phases
  <2>2. WritePhase(g, p) /\ spec' = spec /\ work' = work /\ spec[g].dryRun
    BY <1>2, <2>1 DEF DryRun
  <2>3. Writes(g, p) /\ phase' \in [Groups -> Phases]
    BY <1>1, <2>2, WritePhaseIs
  <2> QED BY <1>1, <2>1, <2>2, <2>3, TruthfulWrites
<1>3. ASSUME NEW v, NEW up, WaitForDependencies(g, v, up) PROVE Truthful'
  <2>1. PICK p \in Phases : p = "WaitingForDependencies"
    BY DEF Phases
  <2>2. WritePhase(g, p) /\ spec' = spec /\ work' = work /\ ~spec[g].dryRun
    BY <1>3, <2>1 DEF WaitForDependencies
  <2>3. Writes(g, p) /\ phase' \in [Groups -> Phases]
    BY <1>1, <2>2, WritePhaseIs
  <2> QED BY <1>1, <2>1, <2>2, <2>3, TruthfulWrites
<1>4. ASSUME NEW v, NEW up, Scale(g, v, up) PROVE Truthful'
  <2>1. PICK p \in Phases : /\ WritePhase(g, p)
                            /\ p \in {"ScaledUp", "ScaledDown", "ScalingUp", "ScalingDown"}
                            /\ p = "ScaledUp" => up /\ work[g] = "up"
                            /\ p = "ScaledDown" => ~up /\ work[g] = "down"
    <3>1. PICK p : p = IF work[g] = (IF up THEN "up" ELSE "down") THEN (IF up THEN "ScaledUp" ELSE "ScaledDown")
                       ELSE (IF up THEN "ScalingUp" ELSE "ScalingDown")
      OBVIOUS
    <3>2. WritePhase(g, p)
      BY <1>4, <3>1, Zenon DEF Scale
    <3>3. /\ p \in {"ScaledUp", "ScaledDown", "ScalingUp", "ScalingDown"}
          /\ p = "ScaledUp" => up /\ work[g] = "up"
          /\ p = "ScaledDown" => ~up /\ work[g] = "down"
      BY <3>1
    <3>4. p \in Phases
      BY <3>3 DEF Phases
    <3> QED BY <3>2, <3>3, <3>4
  <2>2. spec' = spec /\ ~spec[g].dryRun
    BY <1>4 DEF Scale
  <2>3. Writes(g, p) /\ phase' \in [Groups -> Phases]
    BY <1>1, <2>1, WritePhaseIs
  <2>4. work' = [work EXCEPT ![g] = IF ~up /\ work[g] # "down" THEN "falling"
                                    ELSE IF up /\ work[g] \in {"down", "falling"} THEN "rising" ELSE work[g]]
    BY <1>4 DEF Scale
  <2>5. work' \in [Groups -> {"up", "down", "rising", "falling", "degraded"}]
    BY <1>1, <2>4
  <2>6. \A h \in Groups : h # g => work'[h] = work[h]
    BY <1>1, <2>4
  <2>7. work'[g] = IF ~up /\ work[g] # "down" THEN "falling"
                   ELSE IF up /\ work[g] \in {"down", "falling"} THEN "rising" ELSE work[g]
    BY <1>1, <2>4
  <2>8. p # "DryRun" /\ (p = "ScaledUp" => work'[g] \in {"up", "degraded"}) /\ (p = "ScaledDown" => work'[g] = "down")
    BY <2>1, <2>7
  <2> QED BY <2>2, <2>3, <2>5, <2>6, <2>8, TruthfulWrites
<1> QED BY <1>2, <1>3, <1>4, Zenon DEF ReconcileGroup

LEMMA TruthfulAround ==
  ASSUME Truthful, NEW g \in Groups, PodsSettle(g) \/ PodFails(g)
  PROVE  Truthful'
<1>1. /\ spec' = spec /\ phase' = phase /\ unsaved' = unsaved
      /\ \/ work[g] = "falling" /\ work' = [work EXCEPT ![g] = "down"]
         \/ work[g] \in {"rising", "degraded"} /\ work' = [work EXCEPT ![g] = "up"]
         \/ work[g] = "up" /\ work' = [work EXCEPT ![g] = "degraded"]
  BY DEF PodsSettle, PodFails
<1>2. \A h \in Groups : IF h = g
                        THEN \/ work[g] = "falling" /\ work'[g] = "down"
                             \/ work[g] \in {"rising", "degraded"} /\ work'[g] = "up"
                             \/ work[g] = "up" /\ work'[g] = "degraded"
                        ELSE work'[h] = work[h]
  BY <1>1 DEF Truthful
<1>3. work' \in [Groups -> {"up", "down", "rising", "falling", "degraded"}]
  BY <1>1 DEF Truthful
<1> QED BY <1>1, <1>2, <1>3 DEF Truthful

LEMMA TruthfulInv == DependencySpec => []Truthful
<1>1. ASSUME Truthful, [DependencyNext]_dependencyVars PROVE Truthful'
  <2>1. CASE \E g \in Groups : ReconcileGroup(g)
    BY <1>1, <2>1, TruthfulReconcile
  <2>2. CASE \E g \in Groups : PodsSettle(g) \/ PodFails(g)
    BY <1>1, <2>2, TruthfulAround
  <2>3. CASE \/ \E g \in Groups : (\E w \in Wishes[g] : Flip(g, w)) \/ CacheSync(g)
             \/ UNCHANGED dependencyVars
    <3>1. spec' = spec /\ phase' = phase /\ work' = work /\ unsaved' = unsaved
      BY <2>3, Zenon DEF Flip, CacheSync, dependencyVars
    <3> QED BY <1>1, <3>1 DEF Truthful
  <2> QED BY <1>1, <2>1, <2>2, <2>3, Zenon DEF DependencyNext
<1> QED BY <1>1, TruthfulStarts, PTL DEF DependencySpec

\* Only a reconcile of the group itself that is not held back starts it or takes it down.
LEMMA StartsIs ==
  ASSUME Truthful, NEW g \in Groups, [DependencyNext]_dependencyVars
  PROVE  /\ Starts(g) => /\ PlanActive(Read)[g] /\ ~spec[g].dryRun
                         /\ ~waits(Read, g) \/ Read[g].phase = "ScaledUp"
         /\ Stops(g) => ~PlanActive(Read)[g] /\ ~spec[g].dryRun
<1>1. work \in [Groups -> {"up", "down", "rising", "falling", "degraded"}]
  BY DEF Truthful
<1>2. CASE UNCHANGED dependencyVars
  <2>1. work' = work
    BY <1>2 DEF dependencyVars
  <2> QED BY <2>1 DEF Starts, Stops
<1>3. ASSUME NEW h \in Groups, \/ \E w \in Wishes[h] : Flip(h, w)
                               \/ CacheSync(h) \/ PodsSettle(h) \/ PodFails(h)
      PROVE  ~Starts(g) /\ ~Stops(g)
  <2>1. \/ work' = work
        \/ \E x \in {"up", "down", "degraded"} : work' = [work EXCEPT ![h] = x]
    BY <1>3 DEF Flip, CacheSync, PodsSettle, PodFails
  <2>2. work'[g] = work[g] \/ work'[g] \in {"up", "down", "degraded"}
    BY <1>1, <2>1
  <2> QED BY <2>2 DEF Starts, Stops
<1>4. ASSUME NEW h \in Groups, ReconcileGroup(h)
      PROVE  /\ Starts(g) => /\ PlanActive(Read)[g] /\ ~spec[g].dryRun
                             /\ ~waits(Read, g) \/ Read[g].phase = "ScaledUp"
             /\ Stops(g) => ~PlanActive(Read)[g] /\ ~spec[g].dryRun
  <2>1. CASE DryRun(h) \/ WaitForDependencies(h, Read, PlanActive(Read)[h])
    <3>1. work' = work
      BY <2>1, Zenon DEF DryRun, WaitForDependencies
    <3> QED BY <3>1 DEF Starts, Stops
  <2>2. CASE Scale(h, Read, PlanActive(Read)[h])
    <3>1. PICK v : v = Read
      BY Zenon
    <3>2. PICK up : up = PlanActive(v)[h]
      BY Zenon
    <3>3. Scale(h, v, up)
      BY <2>2, <3>1, <3>2, Zenon
    <3>4. /\ ~spec[h].dryRun
          /\ ~(up /\ waits(v, h)) \/ v[h].phase = "ScaledUp"
      BY <3>3, Zenon DEF Scale, BlockedOnDependencies
    <3>5. work' = [work EXCEPT ![h] = IF ~up /\ work[h] # "down" THEN "falling"
                                      ELSE IF up /\ work[h] \in {"down", "falling"} THEN "rising" ELSE work[h]]
      BY <3>3 DEF Scale
    <3>6. \A k \in Groups : work'[k] = IF k # h THEN work[k]
                                       ELSE IF ~up /\ work[h] # "down" THEN "falling"
                                       ELSE IF up /\ work[h] \in {"down", "falling"} THEN "rising" ELSE work[h]
      BY <1>1, <3>5
    <3>7. Starts(g) => g = h /\ up
      BY <3>6 DEF Starts
    <3>8. Stops(g) => g = h /\ ~up
      BY <3>6 DEF Stops
    <3> QED BY <3>1, <3>2, <3>4, <3>7, <3>8, Zenon
  <2> QED BY <1>4, <2>1, <2>2, Zenon DEF ReconcileGroup
<1> QED BY <1>2, <1>3, <1>4, Zenon DEF DependencyNext

\* What a reconcile reads is what is there, as far as the group is known.
LEMMA KnownIs ==
  ASSUME Truthful, NEW g \in Groups, Known(g), NEW h \in Groups
  PROVE  Read[h].wish = wish[h] /\ Read[h].phase = phase[h]
<1>1. CASE CacheLags
  <2>1. cache = [k \in Groups |-> [wish |-> wish[k], phase |-> phase[k]]]
    BY <1>1 DEF Known
  <2>2. Read[h] = cache[h]
    BY <1>1 DEF Read
  <2>3. cache[h] = [wish |-> wish[h], phase |-> phase[h]]
    BY <2>1
  <2> QED BY <2>2, <2>3
<1>2. CASE ~CacheLags
  <2>1. Read[h] = [wish |-> wish[h], phase |-> phase[h]]
    BY <1>2 DEF Read
  <2> QED BY <2>1
<1> QED BY <1>1, <1>2

LEMMA OutliveStarts ==
  ASSUME Truthful, NEW g \in Groups \ inCycle, NEW d \in Groups, d \in dependencies(g),
         [DependencyNext]_dependencyVars, Starts(g), Known(g), Known(d), ~spec[d].dryRun
  PROVE  work[d] \in {"up", "degraded"}
<1>1. ~spec[g].dryRun /\ (~waits(Read, g) \/ Read[g].phase = "ScaledUp")
  BY StartsIs
<1>2. Read[g].phase = phase[g] /\ Read[d].phase = phase[d]
  BY KnownIs
<1>3. g \notin unsaved /\ d \notin unsaved
  BY DEF Known
<1>4. phase[g] # "ScaledUp"
  BY <1>1, <1>3 DEF Truthful, Starts
<1>5. ~waits(Read, g)
  BY <1>1, <1>2, <1>4
<1>6. Read[d].phase \in {"ScaledUp", "DryRun"}
  BY <1>5 DEF waits
<1>7. phase[d] = "ScaledUp"
  BY <1>2, <1>6 DEF Truthful
<1> QED BY <1>3, <1>7 DEF Truthful

LEMMA OutliveStops ==
  ASSUME Truthful, inCycle = findCycles(spec), NEW g \in Groups \ inCycle, NEW d \in Groups \ inCycle,
         d \in dependencies(g), wish[d] # "manualDown", [DependencyNext]_dependencyVars, Stops(d), Known(g),
         isRunning(phase[d])
  PROVE  work[g] = "down"
<1>1. spec \in [Groups -> GroupSpec]
  BY DEF Truthful
<1>2. PICK v : v = Read
  BY Zenon
<1>3. ~PlanActive(v)[d] /\ ~spec[d].dryRun
  BY <1>2, StartsIs
<1>4. v[d].wish = wish[d] /\ v[d].phase = phase[d] /\ v[g].phase = phase[g]
  BY <1>2, KnownIs
<1>5. PICK m \in Nat : \E R \in [Groups -> 0..m] :
        \A h \in Groups \ inCycle : \A e \in dependenciesIn(spec, h) : R[e] < R[h]
  BY <1>1, FoundIs
<1>6. PICK R \in [Groups -> 0..m] : \A h \in Groups \ inCycle : \A e \in dependenciesIn(spec, h) : R[e] < R[h]
  BY <1>5
<1>7. g # d
  <2>1. R[d] < R[g] /\ R[d] \in Nat
    BY <1>6 DEF dependencies
  <2> QED BY <2>1
<1>8. g \in dependents(d)
  BY <1>7 DEF dependents
<1>9. /\ ~ownDecision(v, d)
      /\ manual(v[d].wish) \/ \A h \in dependents(d) : v[h].phase = "ScaledDown" \/ ~isRunning(v[d].phase)
  BY <1>1, <1>3, PlanIs
<1>10. ~manual(v[d].wish)
  BY <1>4, <1>9 DEF manual, ownDecision
<1>11. phase[g] = "ScaledDown"
  BY <1>4, <1>8, <1>9, <1>10
<1>12. g \notin unsaved
  BY DEF Known
<1> QED BY <1>11, <1>12 DEF Truthful

\* A group is started only once every group it depends on is up, and one that
\* reports running is taken down only once what depends on it is down
\* (BlockedOnDependencies, PlanGroups' goingDown): the phases it is decided on tell
\* of the pods, and the plan goes by the dependents first.
THEOREM DependenciesComeFirst == DependencySpec => DependenciesOutlive
<1>1. ASSUME Truthful, inCycle = findCycles(spec), [DependencyNext]_dependencyVars
      PROVE  [\A g \in Groups \ inCycle :
                \A d \in {e \in dependencies(g) \ inCycle : wish[e] # "manualDown"} :
                  /\ Starts(g) /\ Known(g) /\ Known(d) /\ ~spec[d].dryRun => work[d] \in {"up", "degraded"}
                  /\ Stops(d) /\ Known(g) /\ isRunning(phase[d]) => work[g] = "down"]_dependencyVars
  <2>1. ASSUME NEW g \in Groups \ inCycle,
               NEW d \in {e \in dependencies(g) \ inCycle : wish[e] # "manualDown"}
        PROVE  /\ Starts(g) /\ Known(g) /\ Known(d) /\ ~spec[d].dryRun => work[d] \in {"up", "degraded"}
               /\ Stops(d) /\ Known(g) /\ isRunning(phase[d]) => work[g] = "down"
    <3>1. d \in Groups
      <4>1. spec \in [Groups -> GroupSpec] /\ g \in Groups
        BY <1>1 DEF Truthful
      <4>2. dependencies(g) \subseteq Groups
        BY <4>1, WantsAre DEF dependencies
      <4> QED BY <4>2
    <3>2. d \in dependencies(g) /\ d \in Groups \ inCycle /\ wish[d] # "manualDown" /\ g \in Groups
      BY <3>1
    <3> QED BY <1>1, <3>1, <3>2, OutliveStarts, OutliveStops
  <2> QED BY <2>1
<1> QED BY <1>1, TruthfulInv, CyclesAreFound, PTL DEF DependencySpec, DependenciesOutlive
=============================================================================
