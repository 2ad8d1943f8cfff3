-------------------------- MODULE Contracts_proofs --------------------------
(***************************************************************************)
(* Proofs about Contracts and the Customers it extends: for every set of    *)
(* customers, contracts, sales and slots, every calendar and all terms.     *)
(***************************************************************************)
EXTENDS Contracts, FiniteSetTheorems, SequenceTheorems, WellFoundedInduction, TLAPS

-----------------------------------------------------------------------------
(* Schedules                                                                *)

(* Every non-empty set of natural numbers has a least element.              *)
LEMMA Least ==
    ASSUME NEW S \in SUBSET Nat, S # {}
    PROVE  \E n \in S : \A m \in S : n <= m
<1>1. IsWellFoundedOn(OpToRel(<, Nat), Nat)
    BY NatLessThanWellFounded
<1> DEFINE R == OpToRel(<, Nat)
<1>2. \A m, n \in Nat : m < n => <<m, n>> \in R
    BY DEF OpToRel
<1>3. IsWellFoundedOn(R, Nat)
    BY <1>1
<1> HIDE DEF R
<1>4. PICK n \in S : \A m \in S : ~ (<<m, n>> \in R)
    BY <1>3, WFMin
<1>5. \A m \in S : ~(m < n)
    BY <1>2, <1>4
<1> QED
    BY <1>5

(* What the proofs use of the assumptions.                                  *)
LEMMA Calendar ==
    /\ LastDay \in Seq(1..31) /\ Len(LastDay) \in Nat /\ Month = 1..Len(LastDay)
    /\ \A m \in Month : LastDay[m] \in 1..31
    /\ NoDate \notin Date /\ Terms \subseteq Term /\ MaxScheduleEntries \in Nat
<1>1. LastDay \in Seq(1..31) /\ NoDate \notin Date /\ Terms \subseteq Term /\ MaxScheduleEntries \in Nat
    BY ContractsAssumption
<1>2. LastDay \in Seq(1..31)
    BY <1>1
<1>3. Len(LastDay) \in Nat /\ DOMAIN LastDay = 1..Len(LastDay)
    BY <1>2, LenProperties
<1>4. \A m \in 1..Len(LastDay) : LastDay[m] \in 1..31
    BY <1>2, ElementOfSeq
<1> QED
    BY <1>1, <1>3, <1>4 DEF Month

LEMMA RealIs ==
    ASSUME NEW d \in RealDate
    PROVE  /\ d \in Date /\ d # NoDate /\ d = <<d[1], d[2]>>
           /\ d[1] \in 1..Len(LastDay) /\ d[2] \in 1..31 /\ d[2] <= LastDay[d[1]]
BY Calendar DEF RealDate, Date

LEMMA DateIs == \A d \in Date : d[1] \in Int /\ d[2] \in Int
<1>1. \A d \in Date : d[1] \in Month /\ d[2] \in 1..31
    BY DEF Date
<1>2. \A m \in Month : m \in Int
    BY Calendar
<1> QED
    BY <1>1, <1>2

(* Terms whose schedule repeats.                                            *)
Repeats(t) ==
    /\ t.start \in RealDate /\ t.end \in RealDate /\ ~Before(t.end, t.start)
    /\ t.type \in {"MONTHLY", "QUARTERLY", "ANNUAL"}

Nth(t, n) == AddMonthsClamped(t.start, n * Step(t.type))

LEMMA StepIs ==
    ASSUME NEW type \in {"MONTHLY", "QUARTERLY", "ANNUAL"}
    PROVE  Step(type) = 1 \/ Step(type) = 3 \/ Step(type) = 12
BY DEF Step

LEMMA Later ==
    ASSUME NEW a \in Nat, NEW b \in Nat, NEW x \in {1, 3, 12}
    PROVE  /\ a * x \in Nat /\ a <= a * x /\ (a < b <=> a * x < b * x) /\ (a = b <=> a * x = b * x)
           /\ (a * x) % x = 0
<1>1. CASE x = 1
    BY <1>1
<1>2. CASE x = 3
    BY <1>2
<1>3. CASE x = 12
    BY <1>3
<1> QED
    BY <1>1, <1>2, <1>3

LEMMA NthIs ==
    ASSUME NEW t, Repeats(t), NEW n \in Nat, t.start[1] + n * Step(t.type) \in Month
    PROVE  /\ Nth(t, n) \in RealDate
           /\ Nth(t, n)[1] = t.start[1] + n * Step(t.type)
           /\ Nth(t, n)[2] = IF t.start[2] > LastDay[Nth(t, n)[1]] THEN LastDay[Nth(t, n)[1]] ELSE t.start[2]
<1> DEFINE x == n * Step(t.type)
<1>1. x \in Nat
    BY StepIs, Later DEF Repeats
<1>2. t.start[1] \in Nat /\ t.start[2] \in 1..31 /\ LastDay[t.start[1] + x] \in 1..31
    BY RealIs, Calendar DEF Repeats
<1> HIDE DEF x
<1>3. Nth(t, n) = <<t.start[1] + x, IF t.start[2] > LastDay[t.start[1] + x] THEN LastDay[t.start[1] + x] ELSE t.start[2]>>
    BY DEF Nth, AddMonthsClamped, x
<1>4. t.start[1] + x \in Month
    BY DEF x
<1> QED
    BY <1>1, <1>2, <1>3, <1>4 DEF RealDate, Date, x

(* The occurrences are the first so many.                                   *)
LEMMA OccurrencesAre ==
    ASSUME NEW t, Repeats(t)
    PROVE  \E c \in Nat \ {0} : Occurrences(t) = 0..c-1 /\ Cardinality(Occurrences(t)) = c
<1> DEFINE x == Step(t.type)
           L == Len(LastDay)
           O == Occurrences(t)
<1>1. x \in {1, 3, 12} /\ L \in Nat
    BY StepIs, Calendar DEF Repeats
<1>2. t.start[1] \in 1..L /\ t.start[2] \in 1..31 /\ t.start[2] <= LastDay[t.start[1]] /\ t.end[1] \in 1..L
      /\ t.start = <<t.start[1], t.start[2]>> /\ t.end[2] \in 1..31
    BY RealIs DEF Repeats
<1>3. \A n : n \in O <=> n \in 0..L /\ t.start[1] + n * x \in 1..L /\ ~Before(t.end, Nth(t, n))
    BY Calendar DEF Occurrences, Nth
<1> HIDE DEF x, L, O
<1>4. 0 \in O
  <2>1. 0 * x = 0 /\ t.start[1] + 0 = t.start[1]
    BY <1>1, <1>2
  <2>2. Nth(t, 0) = t.start
    <3>1. Nth(t, 0) = AddMonthsClamped(t.start, 0)
      BY <2>1 DEF Nth, x
    <3>2. LastDay[t.start[1]] \in 1..31
      BY <1>2, Calendar DEF L
    <3> QED
      BY <1>2, <2>1, <3>1, <3>2 DEF AddMonthsClamped
  <2> QED
    BY <1>1, <1>2, <1>3, <2>1, <2>2 DEF Repeats
<1>5. ASSUME NEW n \in O, NEW m \in Nat, m < n
      PROVE  m \in O
  <2>1. n \in Nat /\ n * x \in Nat /\ m * x \in Nat /\ m * x < n * x /\ m \in 0..L
    BY <1>1, <1>3, <1>5, Later
  <2>2. t.start[1] + m * x \in 1..L /\ t.start[1] + n * x \in 1..L
    BY <1>1, <1>2, <1>3, <2>1
  <2>3. /\ Nth(t, m)[1] = t.start[1] + m * x /\ Nth(t, n)[1] = t.start[1] + n * x
        /\ Nth(t, m)[1] \in Nat /\ Nth(t, n)[1] \in Nat
    BY <1>2, <2>1, <2>2, NthIs, Calendar DEF x, L
  <2>4. Nth(t, m)[1] < Nth(t, n)[1]
    BY <1>2, <2>1, <2>3
  <2>5. ~Before(t.end, Nth(t, n))
    BY <1>3
  <2>6. ~Before(t.end, Nth(t, m))
    BY <1>2, <2>3, <2>4, <2>5 DEF Before
  <2> QED
    BY <1>3, <2>1, <2>2, <2>6
<1>6. O \in SUBSET Nat /\ \A n \in O : n <= L
    BY <1>1, <1>3
<1>7. PICK c \in Nat \ O : \A m \in Nat \ O : c <= m
  <2>1. L + 1 \in Nat \ O
    BY <1>1, <1>6
  <2> QED
    BY <2>1, Least
<1>8. c \in Nat \ {0} /\ O = 0..c-1
  <2>1. c # 0
    BY <1>4, <1>7
  <2>2. ASSUME NEW n \in O PROVE n \in 0..c-1
    BY <1>5, <1>6, <1>7
  <2>3. ASSUME NEW n \in 0..c-1 PROVE n \in O
    BY <1>7
  <2> QED
    BY <1>7, <2>1, <2>2, <2>3
<1>9. Cardinality(O) = c
    BY <1>8, FS_Interval
<1> QED
    BY <1>8, <1>9 DEF O

-----------------------------------------------------------------------------
(* What a schedule adds up to                                               *)

(* The running total of a sequence of rows.                                 *)
LEMMA TotalIs ==
    ASSUME NEW rows, Len(rows) \in Nat, NEW g \in [0..Len(rows) -> Nat], g[0] = 0,
           \A n \in 1..Len(rows) : g[n] = g[n-1] + rows[n].amount
    PROVE  Total(rows) = g[Len(rows)]
<1> DEFINE L == Len(rows)
           Def(n, s) == IF n = 0 THEN 0 ELSE s[n-1] + rows[n].amount
           sum == CHOOSE s : s = [n \in 0..L |-> Def(n, s)]
<1>1. g = [n \in 0..L |-> Def(n, g)]
    OBVIOUS
<1>2. sum = [n \in 0..L |-> Def(n, sum)]
    BY <1>1
<1>3. Total(rows) = sum[L]
    BY DEF Total
<1> HIDE DEF sum
<1>4. sum[0] = 0 /\ \A n \in 1..L : sum[n] = sum[n-1] + rows[n].amount
    BY <1>2
<1> DEFINE Bad == {n \in 0..L : sum[n] # g[n]}
<1>5. CASE Bad = {}
    BY <1>3, <1>5
<1>6. CASE Bad # {}
  <2>1. Bad \in SUBSET Nat
    OBVIOUS
  <2> HIDE DEF Bad
  <2>2. PICK n \in Bad : \A m \in Bad : n <= m
    BY <1>6, <2>1, Least
  <2> USE DEF Bad
  <2>3. n # 0
    BY <1>4
  <2>4. n - 1 \in 0..L /\ n - 1 \notin Bad
    BY <2>2, <2>3
  <2> QED
    BY <1>4, <2>2, <2>3, <2>4
<1> QED
    BY <1>5, <1>6

(* The first r of n rows carry one cent more than the others.               *)
LEMMA SplitTotal ==
    ASSUME NEW rows, NEW q \in Nat, NEW r \in Nat, Len(rows) \in Nat, r <= Len(rows),
           \A i \in 1..Len(rows) : rows[i].amount = q + (IF i <= r THEN 1 ELSE 0)
    PROVE  Total(rows) = Len(rows) * q + r
<1> DEFINE L == Len(rows)
           g == [n \in 0..L |-> n * q + (IF n <= r THEN n ELSE r)]
<1>1. g \in [0..L -> Nat]
  <2>1. \A n \in 0..L : n * q \in Nat
    OBVIOUS
  <2> QED
    BY <2>1
<1>2. g[0] = 0
    OBVIOUS
<1>3. ASSUME NEW n \in 1..L PROVE g[n] = g[n-1] + rows[n].amount
  <2>1. n - 1 \in 0..L /\ (n - 1) * q \in Nat /\ n * q = (n - 1) * q + q
    OBVIOUS
  <2>2. g[n] = n * q + (IF n <= r THEN n ELSE r) /\ g[n-1] = (n - 1) * q + (IF n - 1 <= r THEN n - 1 ELSE r)
    BY <2>1
  <2> HIDE DEF g
  <2> DEFINE a == n * q
             b == (n - 1) * q
  <2>3. a = b + q /\ b \in Nat /\ g[n] = a + (IF n <= r THEN n ELSE r) /\ g[n-1] = b + (IF n - 1 <= r THEN n - 1 ELSE r)
    BY <2>1, <2>2
  <2>4. rows[n].amount = q + (IF n <= r THEN 1 ELSE 0) /\ n \in Nat
    OBVIOUS
  <2> DEFINE u == g[n]
             v == g[n-1]
             w == rows[n].amount
  <2>5. /\ a = b + q /\ b \in Nat /\ u = a + (IF n <= r THEN n ELSE r)
        /\ v = b + (IF n - 1 <= r THEN n - 1 ELSE r) /\ w = q + (IF n <= r THEN 1 ELSE 0)
    BY <2>3, <2>4
  <2> HIDE DEF a, b, u, v, w
  <2>6. u = v + w
    <3>1. CASE n <= r
      BY <2>4, <2>5, <3>1
    <3>2. CASE n > r
      BY <2>4, <2>5, <3>2
    <3> QED
      BY <2>4, <3>1, <3>2
  <2> QED
    BY <2>6 DEF u, v, w
<1>4. g[L] = L * q + r
  <2>1. g[L] = L * q + (IF L <= r THEN L ELSE r)
    OBVIOUS
  <2>2. (IF L <= r THEN L ELSE r) = r
    OBVIOUS
  <2> QED
    BY <2>1, <2>2
<1> HIDE DEF g
<1> QED
    BY <1>1, <1>2, <1>3, <1>4, TotalIs

LEMMA Division ==
    ASSUME NEW total \in Nat, NEW c \in Nat \ {0}
    PROVE  /\ total \div c \in Nat /\ total % c \in 0..c-1
           /\ total = c * (total \div c) + (total % c)
    OBVIOUS

(* The due dates are the occurrences, and each month of them is another.    *)
LEMMA DueAre ==
    ASSUME NEW t, Repeats(t), NEW c \in Nat, Occurrences(t) = 0..c-1
    PROVE  /\ DueDates(t) = {Nth(t, n) : n \in 0..c-1}
           /\ \A m, n \in 0..c-1 : m < n => Before(Nth(t, m), Nth(t, n))
           /\ \A n \in 0..c-1 : Nth(t, n) \in Date
<1> DEFINE x == Step(t.type)
           L == Len(LastDay)
<1>1. x \in {1, 3, 12} /\ L \in Nat /\ Month = 1..L /\ t.type # "ONE_TIME"
    BY StepIs, Calendar DEF Repeats
<1>2. /\ t.start[1] \in 1..L /\ t.start[2] \in 1..31 /\ t.end[1] \in 1..L /\ t.end[2] \in 1..31
      /\ t.start[2] <= LastDay[t.start[1]]
    BY RealIs DEF Repeats
<1>3. \A n : n \in 0..c-1 <=> n \in 0..L /\ t.start[1] + n * x \in Month /\ ~Before(t.end, Nth(t, n))
    BY DEF Occurrences, Nth
<1>4. ASSUME NEW n \in 0..c-1
      PROVE  /\ Nth(t, n) \in Date /\ Nth(t, n)[1] = t.start[1] + n * x
             /\ Nth(t, n)[1] \in Month /\ Nth(t, n) \in DueDates(t)
  <2> DEFINE d == Nth(t, n)
  <2>1. n \in Nat /\ t.start[1] + n * x \in Month /\ ~Before(t.end, d)
    BY <1>3
  <2>2. /\ d \in RealDate /\ d[1] = t.start[1] + n * x
        /\ t.start[2] > LastDay[d[1]] => d[2] = LastDay[d[1]]
        /\ ~(t.start[2] > LastDay[d[1]]) => d[2] = t.start[2]
    BY <2>1, NthIs
  <2>3. d \in Date /\ d[1] \in 1..L /\ d[2] \in 1..31 /\ LastDay[d[1]] \in 1..31
    BY <2>2, RealIs, Calendar
  <2>4. n * x \in Nat /\ (n * x) % x = 0 /\ d[1] - t.start[1] = n * x /\ (n = 0 => n * x = 0)
    BY <1>1, <1>2, <2>1, <2>2, Later
  <2> HIDE DEF d, x
  <2> DEFINE s1 == t.start[1]
             s2 == t.start[2]
             d1 == d[1]
             d2 == d[2]
             last == LastDay[d[1]]
  <2>5. /\ s1 \in Nat /\ s2 \in Nat /\ d1 \in Nat /\ d2 \in Nat /\ last \in Nat /\ d1 >= s1
        /\ d1 = s1 => s2 <= last
        /\ s2 > last => d2 = last
        /\ ~(s2 > last) => d2 = s2
    <3>1. s1 \in Nat /\ s2 \in Nat /\ d1 \in Nat /\ d2 \in Nat /\ last \in Nat
      <4>1. L \in Nat
        BY <1>1
      <4> HIDE DEF L
      <4>2. s1 \in 1..L /\ s2 \in 1..31
        BY <1>2
      <4>3. d1 \in 1..L /\ d2 \in 1..31 /\ last \in 1..31
        BY <2>3
      <4> HIDE DEF s1, s2, d1, d2, last
      <4> QED
        BY <4>1, <4>2, <4>3
    <3>2. d1 >= s1
      <4> DEFINE y == n * x
      <4>1. y \in Nat /\ d1 - s1 = y
        BY <2>4
      <4> HIDE DEF y, d1, s1
      <4> QED
        BY <3>1, <4>1
    <3>3. d1 = s1 => s2 <= last
      BY <1>2
    <3> QED
      BY <2>2, <3>1, <3>2, <3>3
  <2>6. ~Before(d, t.start)
    <3>1. Before(d, t.start) => d1 < s1 \/ (d1 = s1 /\ d2 < s2)
      BY DEF Before
    <3> HIDE DEF s1, s2, d1, d2, last
    <3> QED
      BY <2>5, <3>1
  <2>7. (d[1] - t.start[1]) % x = 0
    BY <2>4
  <2>8. \/ d2 = s2 /\ d2 <= last
        \/ d2 < s2 /\ d2 = last
    <3> HIDE DEF s1, s2, d1, d2, last
    <3> QED
      BY <2>5
  <2>9. d \in DueDates(t)
    BY <1>1, <2>1, <2>3, <2>6, <2>7, <2>8 DEF DueDates, x
  <2> QED
    BY <1>1, <2>2, <2>3, <2>9 DEF d
<1>5. ASSUME NEW d \in DueDates(t) PROVE \E n \in 0..c-1 : d = Nth(t, n)
  <2> HIDE DEF x, L
  <2>1. /\ d \in Date /\ ~Before(d, t.start) /\ ~Before(t.end, d)
        /\ (d[1] - t.start[1]) % x = 0
        /\ \/ d[2] = t.start[2] /\ d[2] <= LastDay[d[1]]
           \/ d[2] < t.start[2] /\ d[2] = LastDay[d[1]]
    BY <1>1, <1>5 DEF DueDates, x
  <2>2. d = <<d[1], d[2]>> /\ d[1] \in 1..L /\ d[2] \in 1..31 /\ LastDay[d[1]] \in 1..31
    BY <1>1, <2>1, Calendar DEF Date
  <2>3. d[1] >= t.start[1]
    BY <1>2, <2>1, <2>2 DEF Before
  <2>4. PICK n \in Nat : d[1] - t.start[1] = n * x
    <3>1. d[1] - t.start[1] \in Nat
      BY <1>2, <2>2, <2>3
    <3>2. CASE x = 1
      BY <3>1, <3>2
    <3>3. CASE x = 3
      <4> DEFINE y == d[1] - t.start[1]
      <4>1. y \in Nat /\ y % 3 = 0
        BY <2>1, <3>1, <3>3
      <4> HIDE DEF y
      <4>2. y \div 3 \in Nat /\ y = (y \div 3) * 3
        BY <4>1
      <4> QED
        BY <3>3, <4>2 DEF y
    <3>4. CASE x = 12
      <4> DEFINE y == d[1] - t.start[1]
      <4>1. y \in Nat /\ y % 12 = 0
        BY <2>1, <3>1, <3>4
      <4> HIDE DEF y
      <4>2. y \div 12 \in Nat /\ y = (y \div 12) * 12
        BY <4>1
      <4> QED
        BY <3>4, <4>2 DEF y
    <3> QED
      BY <1>1, <3>2, <3>3, <3>4
  <2>5. n * x \in Nat /\ n <= n * x /\ t.start[1] + n * x = d[1] /\ n \in 0..L
    <3>1. n * x \in Nat /\ n <= n * x
      BY <1>1, Later
    <3> DEFINE y == n * x
    <3>2. y \in Nat /\ n <= y /\ d[1] - t.start[1] = y
      BY <2>4, <3>1
    <3> HIDE DEF y
    <3>3. t.start[1] + y = d[1] /\ n \in 0..L
      BY <1>1, <1>2, <2>2, <3>2
    <3> QED
      BY <3>1, <3>3 DEF y
  <2>6. /\ Nth(t, n)[1] = d[1]
        /\ t.start[2] > LastDay[d[1]] => Nth(t, n)[2] = LastDay[d[1]]
        /\ ~(t.start[2] > LastDay[d[1]]) => Nth(t, n)[2] = t.start[2]
        /\ Nth(t, n) = <<Nth(t, n)[1], Nth(t, n)[2]>>
    BY <1>1, <2>2, <2>5, NthIs, RealIs DEF x
  <2>7. d = Nth(t, n)
    <3> DEFINE s2 == t.start[2]
               d2 == d[2]
               e2 == Nth(t, n)[2]
               last == LastDay[d[1]]
    <3>1. /\ s2 \in 1..31 /\ d2 \in 1..31 /\ last \in 1..31
          /\ s2 > last => e2 = last
          /\ ~(s2 > last) => e2 = s2
          /\ (d2 = s2 /\ d2 <= last) \/ (d2 < s2 /\ d2 = last)
      BY <1>2, <2>1, <2>2, <2>6
    <3> HIDE DEF s2, d2, e2, last
    <3>2. d2 = e2
      BY <3>1
    <3> QED
      BY <2>2, <2>6, <3>2 DEF d2, e2
  <2> QED
    BY <1>1, <1>3, <2>1, <2>2, <2>5, <2>7
<1>6. ASSUME NEW m \in 0..c-1, NEW n \in 0..c-1, m < n PROVE Before(Nth(t, m), Nth(t, n))
  <2>1. m * x \in Nat /\ n * x \in Nat /\ m * x < n * x
    BY <1>1, <1>6, Later
  <2>2. Nth(t, m)[1] = t.start[1] + m * x /\ Nth(t, n)[1] = t.start[1] + n * x
    BY <1>4
  <2> HIDE DEF x
  <2> QED
    BY <1>2, <2>1, <2>2 DEF Before
<1>7. DueDates(t) = {Nth(t, n) : n \in 0..c-1}
    BY <1>4, <1>5
<1> QED
    BY <1>4, <1>6, <1>7

(* buildScheduleDates, when it returns dates, returns the due ones in order. *)
LEMMA DatesAre ==
    ASSUME NEW t \in Term, BuildScheduleDates(t) # << >>
    PROVE  LET dates == BuildScheduleDates(t)
           IN  \E c \in Nat \ {0} :
                 /\ DOMAIN dates = 1..c /\ dates \in Seq(Date) /\ Len(dates) = c
                 /\ DueDates(t) = {dates[i] : i \in 1..c}
                 /\ Cardinality(DueDates(t)) = c
                 /\ \A i, j \in 1..c : i < j => Before(dates[i], dates[j])
<1> DEFINE dates == BuildScheduleDates(t)
<1>1. /\ t.start # NoDate /\ t.start \in RealDate /\ t.end \in RealDate \cup {NoDate}
      /\ ~(t.end # NoDate /\ Before(t.end, t.start))
    BY DEF BuildScheduleDates, Term
<1>2. CASE t.type = "ONE_TIME"
  <2>1. dates = <<t.start>>
    BY <1>1, <1>2 DEF BuildScheduleDates
  <2>2. DueDates(t) = {t.start}
    BY <1>2 DEF DueDates
  <2>3. Cardinality(DueDates(t)) = 1
    BY <2>2, FS_Singleton
  <2>4. t.start \in Date
    BY <1>1, RealIs
  <2> HIDE DEF dates
  <2>5. DOMAIN dates = 1..1 /\ dates \in Seq(Date) /\ Len(dates) = 1 /\ dates[1] = t.start
    BY <2>1, <2>4
  <2>6. DueDates(t) = {dates[i] : i \in 1..1}
    BY <2>2, <2>5
  <2> QED
    BY <2>3, <2>5, <2>6 DEF dates
<1>3. CASE t.type # "ONE_TIME"
  <2>1. t.end # NoDate /\ dates = [n \in 1..Cardinality(Occurrences(t)) |-> AddMonthsClamped(t.start, (n - 1) * Step(t.type))]
    BY <1>1, <1>3 DEF BuildScheduleDates
  <2>2. Repeats(t)
    BY <1>1, <1>3, <2>1 DEF Repeats, Term
  <2>3. PICK c \in Nat \ {0} : Occurrences(t) = 0..c-1 /\ Cardinality(Occurrences(t)) = c
    BY <2>2, OccurrencesAre
  <2>4. dates = [n \in 1..c |-> Nth(t, n - 1)]
    BY <2>1, <2>3 DEF Nth
  <2>5. /\ DueDates(t) = {Nth(t, n) : n \in 0..c-1}
        /\ \A m, n \in 0..c-1 : m < n => Before(Nth(t, m), Nth(t, n))
        /\ \A n \in 0..c-1 : Nth(t, n) \in Date
    BY <2>2, <2>3, DueAre
  <2> HIDE DEF dates
  <2>6. \A i \in 1..c : i - 1 \in 0..c-1 /\ dates[i] = Nth(t, i - 1) /\ dates[i] \in Date
    BY <2>4, <2>5
  <2>7. DOMAIN dates = 1..c /\ dates \in Seq(Date) /\ Len(dates) = c
    BY <2>4, <2>6
  <2>8. \A i, j \in 1..c : i < j => Before(dates[i], dates[j])
    BY <2>5, <2>6
  <2>9. \A n \in 0..c-1 : n + 1 \in 1..c /\ dates[n+1] = Nth(t, n)
    BY <2>6
  <2>10. DueDates(t) = {dates[i] : i \in 1..c}
    BY <2>5, <2>6, <2>9
  <2>11. Cardinality(DueDates(t)) = c
    <3>1. \A i, j \in 1..c : dates[i] = dates[j] => i = j
      <4>1. \A i \in 1..c : dates[i][1] \in Int /\ dates[i][2] \in Int
        BY <2>6, DateIs
      <4>2. \A i \in 1..c : ~Before(dates[i], dates[i])
        BY <4>1 DEF Before
      <4> QED
        BY <2>8, <4>2
    <3>2. dates \in Bijection(1..c, DueDates(t))
      BY <2>7, <2>10, <3>1 DEF Bijection, Injection, Surjection, IsInjective
    <3>3. ExistsBijection(1..c, DueDates(t))
      BY <3>2 DEF ExistsBijection
    <3>4. IsFiniteSet(1..c) /\ Cardinality(1..c) = c
      BY FS_Interval
    <3> QED
      BY <3>3, <3>4, FS_Bijection
  <2> QED
    BY <2>7, <2>8, <2>10, <2>11 DEF dates
<1> QED
    BY <1>2, <1>3

(* Rows with the dates and amounts createRevenueSchedule computed are the   *)
(* schedule of the terms, whatever became of their status.                  *)
LEMMA ScheduledByPlan ==
    ASSUME NEW t \in Term, NEW rows, Len(rows) \in Nat, DOMAIN rows = 1..Len(rows),
           BuildScheduleDates(t) # << >>, DOMAIN rows = DOMAIN RevenueSchedule(t),
           \A i \in DOMAIN rows : /\ rows[i].date = RevenueSchedule(t)[i].date
                                  /\ rows[i].amount = RevenueSchedule(t)[i].amount
    PROVE  Scheduled(rows, t)
<1> DEFINE dates == BuildScheduleDates(t)
           a == t.amount
<1>1. PICK c \in Nat \ {0} :
        /\ DOMAIN dates = 1..c /\ dates \in Seq(Date) /\ Len(dates) = c
        /\ DueDates(t) = {dates[i] : i \in 1..c}
        /\ Cardinality(DueDates(t)) = c
        /\ \A i, j \in 1..c : i < j => Before(dates[i], dates[j])
    BY DatesAre
<1> DEFINE q == a \div c
           r == a % c
<1>2. a \in Nat /\ q \in Nat /\ r \in 0..c-1 /\ a = c * q + r
    BY Division DEF Term
<1>3. RevenueSchedule(t) = [i \in 1..c |-> [date |-> dates[i], amount |-> q + (IF i <= r THEN 1 ELSE 0), status |-> "PLANNED"]]
    BY <1>1 DEF RevenueSchedule, SplitScheduleAmount
<1> HIDE DEF dates, a, q, r
<1>4. DOMAIN rows = 1..c /\ Len(rows) = c
  <2>1. DOMAIN RevenueSchedule(t) = 1..c
    BY <1>3
  <2> DEFINE l == Len(rows)
  <2>2. l \in Nat /\ 1..l = 1..c
    BY <2>1
  <2> HIDE DEF l
  <2>3. l = c
    <3>1. \A n : n \in 1..l <=> n \in 1..c
      BY <2>2
    <3>2. c \in 1..l /\ (l = 0 \/ l \in 1..c)
      BY <2>2, <3>1
    <3> QED
      BY <2>2, <3>2
  <2> QED
    BY <2>1, <2>3 DEF l
<1>5. \A i \in 1..c : rows[i].date = dates[i] /\ rows[i].amount = q + (IF i <= r THEN 1 ELSE 0)
  <2> SUFFICES ASSUME NEW i \in 1..c
               PROVE  rows[i].date = dates[i] /\ rows[i].amount = q + (IF i <= r THEN 1 ELSE 0)
    OBVIOUS
  <2> DEFINE u == q + (IF i <= r THEN 1 ELSE 0)
  <2>1. RevenueSchedule(t)[i] = [date |-> dates[i], amount |-> u, status |-> "PLANNED"]
    BY <1>3
  <2> HIDE DEF u
  <2>2. RevenueSchedule(t)[i].date = dates[i] /\ RevenueSchedule(t)[i].amount = u
    BY <2>1
  <2>3. rows[i].date = dates[i] /\ rows[i].amount = u
    BY <1>4, <2>2
  <2> QED
    BY <2>3 DEF u
<1>6. {rows[i].date : i \in DOMAIN rows} = DueDates(t)
    BY <1>1, <1>4, <1>5
<1>7. \A i, j \in 1..c : i < j => rows[i].amount - rows[j].amount \in 0..1
  <2> SUFFICES ASSUME NEW i \in 1..c, NEW j \in 1..c, i < j
               PROVE  rows[i].amount - rows[j].amount \in 0..1
    OBVIOUS
  <2>1. rows[i].amount = q + (IF i <= r THEN 1 ELSE 0) /\ rows[j].amount = q + (IF j <= r THEN 1 ELSE 0)
    BY <1>5
  <2> QED
    BY <1>2, <2>1
<1>8. Total(rows) = c * q + r
  <2>1. r \in Nat /\ r <= c
    BY <1>2
  <2>2. Len(rows) \in Nat /\ r <= Len(rows) /\ \A i \in 1..Len(rows) : rows[i].amount = q + (IF i <= r THEN 1 ELSE 0)
    BY <1>4, <1>5, <2>1
  <2>3. Total(rows) = Len(rows) * q + r
    BY <1>2, <2>1, <2>2, SplitTotal
  <2> QED
    BY <1>4, <2>3
<1>9. \A i, j \in DOMAIN rows : i < j => Before(rows[i].date, rows[j].date)
    BY <1>1, <1>4, <1>5
<1>10. Len(rows) = Cardinality(DueDates(t)) /\ Total(rows) = t.amount
  <2>1. Total(rows) = a
    BY <1>2, <1>8
  <2> QED
    BY <1>1, <1>4, <2>1 DEF a
<1>11. \A i, j \in DOMAIN rows : i < j => rows[i].amount - rows[j].amount \in 0..1
    BY <1>4, <1>7
<1> QED
    BY <1>6, <1>9, <1>10, <1>11 DEF Scheduled

-----------------------------------------------------------------------------
(* Types                                                                    *)

LEMMA Constants ==
    /\ SomeKind \in Kind /\ Idle \in Request /\ Unborn \in Row /\ SomeTerms \in Terms
    /\ NoContract \in ContractRow /\ NoSale \in SaleRow /\ NoErrand \in Errand
<1>1. SomeKind \in Kind
    BY CustomersAssumption DEF SomeKind
<1>2. SomeTerms \in Terms
    BY ContractsAssumption DEF SomeTerms
<1>3. MaxVersion \in Nat \ {0} /\ MaxContractVersion \in Nat \ {0}
    BY CustomersAssumption, ContractsAssumption
<1>4. Idle \in Request
    BY <1>1, <1>3 DEF Idle, Request, Op
<1>5. Unborn \in Row
    BY <1>1, <1>3 DEF Unborn, Row
<1>6. NoContract \in ContractRow
    BY <1>1, <1>2, <1>3 DEF NoContract, ContractRow
<1>7. NoSale \in SaleRow
    BY DEF NoSale, SaleRow
<1>8. NoErrand \in Errand
    BY <1>3, <1>6 DEF NoErrand, Errand
<1> QED
    BY <1>1, <1>2, <1>4, <1>5, <1>6, <1>7, <1>8

(* createRevenueSchedule returns rows, none when there are no dates.        *)
LEMMA RevenueScheduleIs ==
    ASSUME NEW t \in Term
    PROVE  /\ RevenueSchedule(t) \in Seq(ScheduleRow)
           /\ BuildScheduleDates(t) = << >> <=> RevenueSchedule(t) = << >>
           /\ \A i \in DOMAIN RevenueSchedule(t) : RevenueSchedule(t)[i].status = "PLANNED"
<1> DEFINE dates == BuildScheduleDates(t)
<1>1. CASE dates = << >>
  <2>1. DOMAIN dates = {}
    BY <1>1
  <2> HIDE DEF dates
  <2>2. RevenueSchedule(t) = << >>
    BY <2>1 DEF RevenueSchedule, dates
  <2> QED
    BY <1>1, <2>2 DEF dates
<1>2. CASE dates # << >>
  <2>1. PICK c \in Nat \ {0} : DOMAIN dates = 1..c /\ dates \in Seq(Date) /\ Len(dates) = c
    BY <1>2, DatesAre
  <2> DEFINE amounts == SplitScheduleAmount(t.amount, c)
  <2>2. \A i \in 1..c : amounts[i] \in Nat
    <3>1. t.amount \in Nat
      BY DEF Term
    <3>2. t.amount \div c \in Nat
      BY <3>1, Division
    <3> QED
      BY <3>2 DEF SplitScheduleAmount
  <2>3. RevenueSchedule(t) = [i \in 1..c |-> [date |-> dates[i], amount |-> amounts[i], status |-> "PLANNED"]]
    BY <2>1 DEF RevenueSchedule
  <2>4. \A i \in 1..c : dates[i] \in Date
    BY <2>1
  <2> HIDE DEF dates, amounts
  <2>5. \A i \in 1..c : RevenueSchedule(t)[i] \in ScheduleRow /\ RevenueSchedule(t)[i].status = "PLANNED"
    BY <2>2, <2>3, <2>4 DEF ScheduleRow
  <2>6. DOMAIN RevenueSchedule(t) = 1..c
    BY <2>3
  <2>7. RevenueSchedule(t) \in [1..c -> ScheduleRow]
    BY <2>3, <2>5
  <2>8. RevenueSchedule(t) \in Seq(ScheduleRow) /\ RevenueSchedule(t) # << >>
    <3>1. 1 \in DOMAIN RevenueSchedule(t)
      BY <2>6
    <3> QED
      BY <2>7, <3>1
  <2> QED
    BY <1>2, <2>5, <2>6, <2>8 DEF dates
<1> QED
    BY <1>1, <1>2

(* The steps by the tables they leave alone.                                *)
OnContract(k) ==
    \/ ActivateContract(k) \/ UpdateContractRenewal(k) \/ LockRow(k) \/ RollBack(k)
    \/ \E c \in Customer : ReadContractCustomer(k, c) \/ ReadSaleCustomer(k, c)
    \/ \E c \in Contract :
         \/ CreateContract(k, c) \/ \E i \in DOMAIN schedule[c] : ReadRow(k, c, i)
         \/ \E version \in 0..contract[c].version :
              \/ ReadContract(k, c, "activate", version, Blank)
              \/ \E input \in Kind \cup {Blank} : ReadContract(k, c, "renew", version, input)
    \/ \E s \in Sale : BookSale(k, s) \/ CreateSale(k, s)

LEMMA NextCases ==
    ASSUME Next
    PROVE  \/ NewCustomer
           \/ \E k \in Client : BeginOnCustomer(k) \/ OnCustomer(k) \/ Delete(k) \/ Merge(k) \/ OnContract(k)
BY DEF Next, OnContract

LEMMA ContractFrame ==
    ASSUME NEW k \in Client, OnContract(k)
    PROVE  UNCHANGED crmTables /\ (begun' = begun \/ (begun < MaxRequests /\ begun' = begun + 1))
BY DEF OnContract, ActivateContract, UpdateContractRenewal, LockRow, RollBack, ReadContractCustomer,
       ReadSaleCustomer, CreateContract, ReadRow, ReadContract, BookSale, CreateSale, Open, Finish, Run, Free, crmVars

LEMMA CustomerFrame ==
    ASSUME NewCustomer \/ \E k \in Client : BeginOnCustomer(k) \/ OnCustomer(k) \/ Delete(k)
    PROVE  UNCHANGED contractVars
BY DEF NewCustomer, BeginOnCustomer, OnCustomer, Delete

LEMMA MovedIs ==
    ASSUME NEW D, NEW R, NEW holder \in [D -> R], NEW sources, NEW target \in R
    PROVE  Moved(holder, sources, target) \in [D -> R]
BY DEF Moved

(* A request on customers begins, with what it has read.                    *)
BeginsWith(k, request) ==
    /\ request \in Request
    /\ request.op \in {"update", "merge", "delete", "file", "delete contact"}
    /\ request.op = "update" =>
         /\ request.on \in Customer /\ customer[request.on].state = "active"
         /\ request.version <= customer[request.on].version
         /\ request.kind = customer[request.on].kind
    /\ client' = [client EXCEPT ![k] = request]
    /\ begun < MaxRequests /\ begun' = begun + 1 /\ UNCHANGED <<accounts, contact, deal, voice>>

LEMMA BeginCases ==
    ASSUME CustomersTypeOK, NEW k \in Client, BeginOnCustomer(k)
    PROVE  \E request : BeginsWith(k, request)
<1>1. ASSUME NEW c \in Customer, ReadCustomer(k, c) PROVE \E request : BeginsWith(k, request)
  <2>1. PICK version \in 0..customer[c].version, input \in Kind \cup {Blank} :
          Begin(k, [Idle EXCEPT !.op = "update", !.on = c, !.kind = customer[c].kind, !.input = input,
                      !.version = IF version = 0 THEN customer[c].version ELSE version])
    BY <1>1 DEF ReadCustomer
  <2>2. customer[c].version \in 0..MaxVersion /\ customer[c].kind \in Kind /\ MaxVersion \in Nat
    BY CustomersAssumption DEF CustomersTypeOK, Row
  <2> DEFINE v == IF version = 0 THEN customer[c].version ELSE version
             r == [Idle EXCEPT !.op = "update", !.on = c, !.kind = customer[c].kind, !.input = input, !.version = v]
  <2>3. v \in 0..MaxVersion /\ v <= customer[c].version
    BY <2>2
  <2>4. Begin(k, r)
    BY <2>1
  <2> HIDE DEF v
  <2>5. r \in Request /\ r.op = "update" /\ r.on = c /\ r.version = v /\ r.kind = customer[c].kind
    BY <2>2, <2>3, Constants DEF Idle, Request, Op
  <2> HIDE DEF r
  <2>6. BeginsWith(k, r)
    BY <1>1, <2>3, <2>4, <2>5 DEF BeginsWith, Begin, Free, ReadCustomer, GetCustomer
  <2> QED
    BY <2>6
<1>2. ASSUME NEW op \in {"merge", "delete", "file", "delete contact"}, NEW x \in Customer \cup Contact,
             Begin(k, [Idle EXCEPT !.op = op, !.on = x]), UNCHANGED <<accounts, contact, deal, voice>>
      PROVE  \E request : BeginsWith(k, request)
  <2> DEFINE r == [Idle EXCEPT !.op = op, !.on = x]
  <2>1. r \in Request /\ r.op = op
    BY Constants DEF Idle, Request, Op
  <2>2. Begin(k, r)
    BY <1>2
  <2> HIDE DEF r
  <2>3. BeginsWith(k, r)
    BY <1>2, <2>1, <2>2 DEF BeginsWith, Begin, Free
  <2> QED
    BY <2>3
<1>3. ASSUME NEW c \in Customer, ReadTarget(k, c) \/ ReadDeleted(k, c) \/ ReadFor(k, c)
      PROVE  \E request : BeginsWith(k, request)
    BY <1>2, <1>3 DEF ReadTarget, ReadDeleted, ReadFor
<1>4. ASSUME NEW p \in Contact, ReadContact(k, p) PROVE \E request : BeginsWith(k, request)
    BY <1>2, <1>4 DEF ReadContact
<1> QED
    BY <1>1, <1>3, <1>4 DEF BeginOnCustomer

(* What the steps on customers leave well-typed.                            *)
LEMMA CustomersTyped ==
    ASSUME CustomersTypeOK, NewCustomer \/ \E k \in Client : BeginOnCustomer(k) \/ OnCustomer(k) \/ Delete(k) \/ Merge(k)
    PROVE  CustomersTypeOK'
<1> USE Constants
<1>1. /\ customer \in [Customer -> Row] /\ client \in [Client -> Request] /\ begun \in 0..MaxRequests
      /\ MaxVersion \in Nat \ {0} /\ MaxRequests \in Nat
    BY CustomersAssumption DEF CustomersTypeOK
<1>2. \A k \in Client : Done(k) => client' \in [Client -> Request] /\ begun' \in 0..MaxRequests
    BY <1>1 DEF Done, Await
<1>3. ASSUME NewCustomer PROVE CustomersTypeOK'
  <2>1. PICK c \in Customer : CreateCustomer(c)
    BY <1>3 DEF NewCustomer
  <2>2. \A kind \in Kind : [state |-> "active", into |-> NoCustomer, version |-> 1, kind |-> kind] \in Row
    BY <1>1 DEF Row
  <2> QED
    BY <1>1, <2>1, <2>2 DEF CreateCustomer, CustomersTypeOK
<1>4. ASSUME NEW k \in Client, BeginOnCustomer(k) PROVE CustomersTypeOK'
  <2>1. PICK request : BeginsWith(k, request)
    BY <1>4, BeginCases
  <2>2. request \in Request /\ client' = [client EXCEPT ![k] = request] /\ begun < MaxRequests /\ begun' = begun + 1
    BY <2>1 DEF BeginsWith
  <2>3. client' \in [Client -> Request] /\ begun' \in 0..MaxRequests
    BY <1>1, <2>2
  <2>4. UNCHANGED <<customer, history, contact, deal, voice>>
    BY <2>1 DEF BeginsWith, accounts
  <2> QED
    BY <2>3, <2>4 DEF CustomersTypeOK
<1>5. ASSUME NEW k \in Client, UpdateCustomer(k) \/ DeactivateCustomer(k) PROVE CustomersTypeOK'
  <2>1. client[k].kind \in Kind /\ client[k].input \in Kind \cup {Blank}
    BY <1>1 DEF Request
  <2>2. Chosen(client[k]) \in Kind
    BY <2>1 DEF Chosen
  <2>3. \A c \in Customer : customer[c].version < MaxVersion => customer[c].version + 1 \in 0..MaxVersion
    BY <1>1 DEF Row
  <2>4. customer' \in [Customer -> Row]
    <3>1. CASE UpdateCustomer(k)
      BY <1>1, <2>2, <2>3, <3>1 DEF UpdateCustomer, Exists, Row
    <3>2. CASE DeactivateCustomer(k)
      BY <1>1, <2>3, <3>2 DEF DeactivateCustomer, Exists, Row
    <3> QED
      BY <1>5, <3>1, <3>2
  <2> QED
    BY <1>2, <1>5, <2>4 DEF UpdateCustomer, DeactivateCustomer, CustomersTypeOK
<1>6. ASSUME NEW k \in Client, MergeRefused(k) \/ FilingRefused(k) PROVE CustomersTypeOK'
    BY <1>2, <1>6 DEF MergeRefused, FilingRefused, CustomersTypeOK, accounts
<1>7. ASSUME NEW k \in Client, NEW request \in Request, Await(k, request), UNCHANGED <<accounts, contact, deal, voice>>
      PROVE  CustomersTypeOK'
    BY <1>1, <1>7 DEF Await, CustomersTypeOK, accounts
<1>8. ASSUME NEW k \in Client, CountVoices(k) PROVE CustomersTypeOK'
  <2>1. [client[k] EXCEPT !.op = "drop contact"] \in Request
    BY <1>1 DEF Request, Op
  <2> QED
    BY <1>7, <1>8, <2>1 DEF CountVoices
<1>9. ASSUME NEW k \in Client, NEW c \in Customer, ReadSource(k, c) PROVE CustomersTypeOK'
  <2>1. [client[k] EXCEPT !.sources = @ \cup {c}] \in Request
    BY <1>1 DEF Request
  <2> QED
    BY <1>7, <1>9, <2>1 DEF ReadSource
<1>10. ASSUME NEW k \in Client, DeleteContact(k) PROVE CustomersTypeOK'
    BY <1>2, <1>10 DEF DeleteContact, CustomersTypeOK, accounts
<1>11. ASSUME NEW k \in Client, NEW d \in Deal, CreateDeal(k, d) PROVE CustomersTypeOK'
    BY <1>2, <1>11 DEF CreateDeal, Refers, Exists, CustomersTypeOK, accounts
<1>12. ASSUME NEW k \in Client, NEW p \in Contact, CreateContact(k, p) PROVE CustomersTypeOK'
    BY <1>2, <1>12 DEF CreateContact, Refers, Exists, CustomersTypeOK, accounts
<1>13. ASSUME NEW k \in Client, NEW v \in Voice, CreateVoice(k, v) PROVE CustomersTypeOK'
    BY <1>2, <1>13 DEF CreateVoice, Refers, Exists, CustomersTypeOK, accounts
<1>14. ASSUME NEW k \in Client, OnCustomer(k) PROVE CustomersTypeOK'
    BY <1>5, <1>6, <1>8, <1>9, <1>10, <1>11, <1>12, <1>13, <1>14 DEF OnCustomer
<1>15. ASSUME NEW k \in Client, NEW other, CountHistory(k, other) PROVE CustomersTypeOK'
  <2>1. /\ [client[k] EXCEPT !.op = "deactivate"] \in Request
        /\ [client[k] EXCEPT !.op = "discard", !.counted = Filings] \in Request
    BY <1>1 DEF Request, Op, Filings
  <2> QED
    BY <1>7, <1>15, <2>1 DEF CountHistory
<1>16. ASSUME NEW k \in Client, NEW other, DiscardCustomer(k, other) PROVE CustomersTypeOK'
  <2>1. \A c \in Customer : [customer[c] EXCEPT !.state = "deleted"] \in Row
    BY <1>1 DEF Row
  <2>2. \A c \in Customer : Moved(contact, {c}, Gone) \in [Contact -> Customer \cup {NoCustomer, Gone}]
    BY MovedIs DEF CustomersTypeOK
  <2>3. customer' \in [Customer -> Row] /\ contact' \in [Contact -> Customer \cup {NoCustomer, Gone}]
    BY <1>1, <1>16, <2>1, <2>2 DEF DiscardCustomer, Exists, CustomersTypeOK
  <2> QED
    BY <1>2, <1>16, <2>3 DEF DiscardCustomer, CustomersTypeOK, LostVoice
<1>17. ASSUME NEW k \in Client, Delete(k) PROVE CustomersTypeOK'
    BY <1>15, <1>16, <1>17 DEF Delete
<1>18. ASSUME NEW k \in Client, Merge(k) PROVE CustomersTypeOK'
  <2> DEFINE target == client[k].on
             sources == client[k].sources
  <2>1. target \in Customer /\ sources \subseteq Customer
    BY <1>1, <1>18 DEF Merge, MergeCustomers, Mergeable, Exists, Request
  <2>2. Retire(sources, target) \in [Customer -> Row]
    <3>1. \A c \in sources : customer[c].state = "active" => customer[c].version + 1 \in 0..MaxVersion
      <4>1. \A c \in sources : customer[c].state = "active" => customer[c].version < MaxVersion
        BY <1>18 DEF Merge, MergeCustomers, Mergeable, GetCustomer
      <4>2. \A c \in Customer : customer[c].version \in 0..MaxVersion
        BY <1>1 DEF Row
      <4> QED
        BY <1>1, <2>1, <4>1, <4>2
    <3> HIDE DEF target, sources
    <3>2. \A c \in sources : customer[c].state = "active" =>
            [customer[c] EXCEPT !.state = "inactive", !.into = target, !.version = @ + 1] \in Row
      BY <1>1, <2>1, <3>1 DEF Row
    <3> QED
      BY <1>1, <3>2 DEF Retire
  <2>3. /\ Moved(contact, sources, target) \in [Contact -> Customer \cup {NoCustomer, Gone}]
        /\ Moved(deal, sources, target) \in [Deal -> Customer \cup {NoCustomer}]
    BY <2>1, MovedIs DEF CustomersTypeOK
  <2> QED
    BY <1>2, <1>18, <2>1, <2>2, <2>3 DEF Merge, MergeCustomers, MergeRecords, CustomersTypeOK
<1> QED
    BY <1>3, <1>4, <1>14, <1>17, <1>18

(* A request past its first step is about a contract.                       *)
Placed == {e \in Errand : e.op \in {"activate", "renew", "recognize", "book"} => e.on \in Contract}

Typed == TypeOK /\ clerk \in [Client -> Placed]

LEMMA RecognizeTyped ==
    ASSUME NEW table \in [Contract -> Seq(ScheduleRow)], NEW c \in Contract, NEW i
    PROVE  /\ [table EXCEPT ![c][i].status = "RECOGNIZED"] \in [Contract -> Seq(ScheduleRow)]
           /\ DOMAIN [table EXCEPT ![c][i].status = "RECOGNIZED"][c] = DOMAIN table[c]
<1> DEFINE rows == [table[c] EXCEPT ![i].status = "RECOGNIZED"]
<1>1. table[c] \in Seq(ScheduleRow)
    OBVIOUS
<1>2. DOMAIN table[c] = 1..Len(table[c]) /\ Len(table[c]) \in Nat /\ \A j \in DOMAIN table[c] : table[c][j] \in ScheduleRow
    BY <1>1, LenProperties, ElementOfSeq
<1>3. DOMAIN rows = DOMAIN table[c] /\ \A j \in DOMAIN table[c] : rows[j] \in ScheduleRow
    BY <1>2 DEF ScheduleRow
<1>4. rows \in [1..Len(table[c]) -> ScheduleRow]
    BY <1>2, <1>3
<1>5. rows \in Seq(ScheduleRow)
    BY <1>2, <1>4
<1> QED
    BY <1>3, <1>5

(* What the steps on contracts leave well-typed.                            *)
LEMMA ContractsTyped ==
    ASSUME Typed, NEW k \in Client, OnContract(k)
    PROVE  Typed'
<1> DEFINE Rest == /\ contract' \in [Contract -> ContractRow]
                   /\ schedule' \in [Contract -> Seq(ScheduleRow)]
                   /\ sale' \in [Sale -> SaleRow]
                   /\ lock' \subseteq Contract \X Nat
                   /\ clerk' \in [Client -> Placed]
<1>1. /\ contract \in [Contract -> ContractRow] /\ schedule \in [Contract -> Seq(ScheduleRow)]
      /\ sale \in [Sale -> SaleRow] /\ lock \subseteq Contract \X Nat /\ clerk \in [Client -> Placed]
      /\ MaxContractVersion \in Nat \ {0} /\ NoRow \notin Contract /\ Terms \subseteq Term
    BY ContractsAssumption DEF Typed, TypeOK
<1>2. /\ clerk[k] \in Errand /\ clerk[k].before \in ContractRow /\ clerk[k].on \in Contract \cup {NoRow}
      /\ clerk[k].op \in {"activate", "renew", "recognize", "book"} => clerk[k].on \in Contract
      /\ clerk[k].row \in Nat /\ clerk[k].input \in Kind \cup {Blank} /\ clerk[k].op \in {"idle", "create", "activate", "renew", "recognize", "book", "sell"}
    BY <1>1 DEF Errand, Placed
<1>3. Finish(k) => clerk' \in [Client -> Placed]
  <2>1. NoErrand \in Placed
    BY Constants DEF NoErrand, Placed
  <2> QED
    BY <1>1, <2>1 DEF Finish, Run
<1>4. \A e \in Placed : Open(k, e) => clerk' \in [Client -> Placed]
    BY <1>1 DEF Open
<1>5. \A c \in Contract : contract[c].version < MaxContractVersion => contract[c].version + 1 \in 0..MaxContractVersion
    BY <1>1 DEF ContractRow
<1>6. ASSUME NEW c \in Customer, ReadContractCustomer(k, c) PROVE Rest
  <2>1. \A t \in Terms : [NoContract EXCEPT !.customer = c, !.terms = t, !.version = 1] \in ContractRow
    <3>1. 1 \in 0..MaxContractVersion /\ c \in Customer \cup {NoCustomer}
      BY <1>1
    <3>2. SUFFICES ASSUME NEW t \in Terms
                   PROVE  [NoContract EXCEPT !.customer = c, !.terms = t, !.version = 1] \in ContractRow
      OBVIOUS
    <3>3. NoContract \in ContractRow
      BY Constants
    <3>4. [NoContract EXCEPT !.customer = c] \in ContractRow
      BY <3>1, <3>3 DEF ContractRow
    <3>5. [NoContract EXCEPT !.customer = c, !.terms = t] \in ContractRow
      BY <3>1, <3>3 DEF ContractRow
    <3> QED
      BY <3>1, <3>3, <3>5 DEF ContractRow
  <2>2. \A b \in ContractRow : [NoErrand EXCEPT !.op = "create", !.before = b] \in Placed
    BY Constants DEF NoErrand, Errand, Placed
  <2> QED
    BY <1>1, <1>4, <1>6, <2>1, <2>2 DEF ReadContractCustomer
<1>7. ASSUME NEW c \in Customer, ReadSaleCustomer(k, c) PROVE Rest
  <2>1. [NoContract EXCEPT !.customer = c] \in ContractRow
    BY <1>1, Constants DEF NoContract, ContractRow
  <2>2. \A b \in ContractRow : [NoErrand EXCEPT !.op = "sell", !.before = b] \in Placed
    BY Constants DEF NoErrand, Errand, Placed
  <2> QED
    BY <1>1, <1>4, <1>7, <2>1, <2>2 DEF ReadSaleCustomer
<1>8. ASSUME NEW c \in Contract, NEW i \in DOMAIN schedule[c], ReadRow(k, c, i) PROVE Rest
  <2>1. i \in Nat
    BY <1>1
  <2>2. [NoErrand EXCEPT !.op = "recognize", !.on = c, !.row = i, !.before = contract[c]] \in Placed
    BY <1>1, <2>1, Constants DEF NoErrand, Errand, Placed
  <2> QED
    BY <1>1, <1>4, <1>8, <2>2 DEF ReadRow
<1>9. ASSUME NEW c \in Contract, NEW op \in {"activate", "renew"}, NEW version \in 0..contract[c].version,
             NEW input \in Kind \cup {Blank}, ReadContract(k, c, op, version, input)
      PROVE  Rest
  <2> DEFINE v == IF version = 0 THEN contract[c].version ELSE version
  <2>1. v \in 0..MaxContractVersion
    BY <1>1 DEF ContractRow
  <2> HIDE DEF v
  <2>2. [NoErrand EXCEPT !.op = op, !.on = c, !.before = contract[c], !.input = input, !.version = v] \in Placed
    BY <1>1, <2>1, Constants DEF NoErrand, Errand, Placed
  <2> QED
    BY <1>1, <1>4, <1>9, <2>2 DEF ReadContract, v
<1>10. ASSUME NEW c \in Contract, CreateContract(k, c) PROVE Rest
  <2>1. PICK status \in {"DRAFT", "ACTIVE"} :
         LET new == [clerk[k].before EXCEPT !.status = status]
             rows == RevenueSchedule(new.terms)
         IN IF Refers(new.customer) /\ (status = "ACTIVE" => rows # << >>)
            THEN /\ contract' = [contract EXCEPT ![c] = new]
                 /\ schedule' = IF status = "ACTIVE" THEN [schedule EXCEPT ![c] = rows] ELSE schedule
            ELSE UNCHANGED <<contract, schedule>>
    BY <1>10 DEF CreateContract
  <2> DEFINE new == [clerk[k].before EXCEPT !.status = status]
             rows == RevenueSchedule(new.terms)
  <2>2. new \in ContractRow /\ new.terms \in Term
    BY <1>1, <1>2 DEF ContractRow
  <2>3. rows \in Seq(ScheduleRow)
    BY <2>2, RevenueScheduleIs
  <2>4. /\ contract' = contract \/ contract' = [contract EXCEPT ![c] = new]
        /\ schedule' = schedule \/ schedule' = [schedule EXCEPT ![c] = rows]
    BY <2>1
  <2> HIDE DEF new, rows
  <2> QED
    <3>1. contract' \in [Contract -> ContractRow] /\ schedule' \in [Contract -> Seq(ScheduleRow)]
      BY <1>1, <2>2, <2>3, <2>4
    <3>2. Finish(k) /\ UNCHANGED <<sale, lock>>
      BY <1>10 DEF CreateContract
    <3> QED
      BY <1>1, <1>3, <3>1, <3>2
<1>11. ASSUME ActivateContract(k) PROVE Rest
  <2>1. clerk[k].before.terms \in Term
    BY <1>1, <1>2 DEF ContractRow
  <2>2. RevenueSchedule(clerk[k].before.terms) \in Seq(ScheduleRow)
    BY <2>1, RevenueScheduleIs
  <2> DEFINE c == clerk[k].on
             rows == RevenueSchedule(clerk[k].before.terms)
             new == [contract EXCEPT ![c].status = "ACTIVE", ![c].version = @ + 1]
  <2>3. c \in Contract
    BY <1>2, <1>11 DEF ActivateContract, Doing
  <2>4. schedule[c] \o rows \in Seq(ScheduleRow)
    BY <1>1, <2>2, <2>3, ConcatProperties
  <2>5. contract[c].version < MaxContractVersion => new \in [Contract -> ContractRow]
    <3>1. ASSUME contract[c].version < MaxContractVersion
          PROVE  [contract[c] EXCEPT !.status = "ACTIVE", !.version = @ + 1] \in ContractRow
      <4>1. contract[c] \in ContractRow /\ contract[c].version + 1 \in 0..MaxContractVersion
        BY <1>1, <1>5, <2>3, <3>1
      <4> QED
        BY <4>1 DEF ContractRow
    <3> QED
      BY <1>1, <2>3, <3>1
  <2>6. /\ contract' = contract \/ (contract[c].version < MaxContractVersion /\ contract' = new)
        /\ schedule' = schedule \/ schedule' = [schedule EXCEPT ![c] = schedule[c] \o rows]
    BY <1>1, <1>11, <2>3 DEF ActivateContract
  <2> HIDE DEF c, rows, new
  <2>7. contract' \in [Contract -> ContractRow] /\ schedule' \in [Contract -> Seq(ScheduleRow)]
    BY <1>1, <2>3, <2>4, <2>5, <2>6
  <2> QED
    BY <1>1, <1>3, <1>11, <2>7 DEF ActivateContract
<1>12. ASSUME UpdateContractRenewal(k) PROVE Rest
  <2>1. Renewal(clerk[k]) \in Kind
    BY <1>2 DEF Renewal, ContractRow
  <2>2. clerk[k].on \in Contract
    BY <1>2, <1>12 DEF UpdateContractRenewal, Doing
  <2>3. contract' \in [Contract -> ContractRow]
    <3> DEFINE c == clerk[k].on
               value == Renewal(clerk[k])
               new == [contract EXCEPT ![c].renewal = value, ![c].version = @ + 1]
    <3>1. contract' = contract \/ (contract[c].version < MaxContractVersion /\ contract' = new)
      BY <1>12 DEF UpdateContractRenewal
    <3> HIDE DEF c, value
    <3>2. contract[c].version < MaxContractVersion => new \in [Contract -> ContractRow]
      <4>1. ASSUME contract[c].version < MaxContractVersion
            PROVE  [contract[c] EXCEPT !.renewal = value, !.version = @ + 1] \in ContractRow
        <5>1. contract[c] \in ContractRow /\ contract[c].version + 1 \in 0..MaxContractVersion /\ value \in Kind
          BY <1>1, <1>5, <2>1, <2>2, <4>1 DEF c, value
        <5> QED
          BY <5>1 DEF ContractRow
      <4> QED
        BY <1>1, <2>2, <4>1 DEF c
    <3> QED
      BY <1>1, <3>1, <3>2
  <2> QED
    BY <1>1, <1>3, <1>12, <2>3 DEF UpdateContractRenewal
<1>13. ASSUME LockRow(k) PROVE Rest
  <2>1. clerk[k].on \in Contract
    BY <1>2, <1>13 DEF LockRow, Doing
  <2>2. [clerk[k] EXCEPT !.op = "book"] \in Placed
    BY <1>2, <2>1 DEF Errand, Placed
  <2> QED
    <3>1. clerk' = [clerk EXCEPT ![k] = [clerk[k] EXCEPT !.op = "book"]] \/ Finish(k)
      BY <1>13 DEF LockRow, Run
    <3>2. clerk' \in [Client -> Placed]
      BY <1>1, <1>3, <2>2, <3>1
    <3>3. lock' = lock \/ lock' = lock \cup {<<clerk[k].on, clerk[k].row>>}
      BY <1>13 DEF LockRow
    <3>4. lock' \subseteq Contract \X Nat
      BY <1>1, <1>2, <2>1, <3>3
    <3> QED
      BY <1>1, <1>13, <3>2, <3>4 DEF LockRow
<1>14. ASSUME RollBack(k) PROVE Rest
    BY <1>1, <1>3, <1>14 DEF RollBack
<1>15. ASSUME NEW s \in Sale, BookSale(k, s) PROVE Rest
  <2> DEFINE c == clerk[k].on
             i == clerk[k].row
  <2>0. c \in Contract
    BY <1>2, <1>15 DEF BookSale, Doing
  <2>1. [customer |-> clerk[k].before.customer, row |-> <<c, i>>] \in SaleRow
    BY <1>2, <2>0 DEF ContractRow, SaleRow
  <2>2. [schedule EXCEPT ![c][i].status = "RECOGNIZED"] \in [Contract -> Seq(ScheduleRow)]
    BY <1>1, <2>0, RecognizeTyped
  <2> QED
    <3>1. sale' \in [Sale -> SaleRow]
      BY <1>1, <1>15, <2>1 DEF BookSale
    <3>2. schedule' \in [Contract -> Seq(ScheduleRow)]
      BY <1>1, <1>15, <2>2 DEF BookSale
    <3>3. Finish(k) /\ lock' \subseteq lock /\ UNCHANGED contract
      BY <1>15 DEF BookSale
    <3> QED
      BY <1>1, <1>3, <3>1, <3>2, <3>3
<1>16. ASSUME NEW s \in Sale, CreateSale(k, s) PROVE Rest
  <2>1. [NoSale EXCEPT !.customer = clerk[k].before.customer] \in SaleRow
    BY <1>2 DEF NoSale, SaleRow, ContractRow
  <2> QED
    BY <1>1, <1>3, <1>16, <2>1 DEF CreateSale
<1>17. Rest
    BY <1>6, <1>7, <1>8, <1>9, <1>10, <1>11, <1>12, <1>13, <1>14, <1>15, <1>16 DEF OnContract
<1>18. CustomersTypeOK'
  <2>1. UNCHANGED crmTables /\ begun' \in 0..MaxRequests
    BY CustomersAssumption, ContractFrame DEF Typed, TypeOK, CustomersTypeOK
  <2> QED
    BY <2>1 DEF Typed, TypeOK, CustomersTypeOK, crmTables, accounts
<1> QED
    BY <1>17, <1>18 DEF Typed, TypeOK, Placed

(* What a merge does to contracts and sales.                                *)
MergesInto(k, target, sources) ==
    /\ Exists(target) /\ \A c \in sources : Exists(c)
    /\ customer' = Retire(sources, target) /\ deal' = Moved(deal, sources, target)
    /\ contract' = [x \in Contract |->
           IF contract[x].customer \in sources
           THEN [contract[x] EXCEPT !.customer = target, !.version = @ + 1] ELSE contract[x]]
    /\ sale' = [s \in Sale |-> IF sale[s].customer \in sources
                               THEN [sale[s] EXCEPT !.customer = target] ELSE sale[s]]
    /\ contract' \in [Contract -> ContractRow] /\ sale' \in [Sale -> SaleRow]
    /\ client' = [client EXCEPT ![k] = Idle]
    /\ UNCHANGED <<schedule, lock, clerk>>

LEMMA MergeIs ==
    ASSUME Typed, NEW k \in Client, Merge(k)
    PROVE  \E target \in Customer, sources \in SUBSET Customer : MergesInto(k, target, sources)
<1> DEFINE target == client[k].on
           sources == client[k].sources
<1>1. client[k] \in Request
    BY DEF Typed, TypeOK, CustomersTypeOK
<1>2. Exists(target) /\ \A c \in sources : Exists(c)
    BY DEF Merge, MergeCustomers, Mergeable
<1>3. target \in Customer /\ sources \in SUBSET Customer
    BY <1>1, <1>2 DEF Exists, Request
<1>4. /\ \A x \in Contract : contract[x].customer \in sources => contract[x].version < MaxContractVersion
      /\ customer' = Retire(sources, target) /\ deal' = Moved(deal, sources, target)
      /\ contract' = [x \in Contract |->
              IF contract[x].customer \in sources
              THEN [contract[x] EXCEPT !.customer = target, !.version = @ + 1] ELSE contract[x]]
      /\ sale' = [s \in Sale |-> IF sale[s].customer \in sources
                                 THEN [sale[s] EXCEPT !.customer = target] ELSE sale[s]]
      /\ client' = [client EXCEPT ![k] = Idle]
      /\ UNCHANGED <<schedule, lock, clerk>>
    BY DEF Merge, MergeCustomers, MergeRecords, Done, Await
<1> HIDE DEF target, sources
<1>5. contract' \in [Contract -> ContractRow]
  <2>1. contract \in [Contract -> ContractRow] /\ MaxContractVersion \in Nat
    BY ContractsAssumption DEF Typed, TypeOK
  <2>2. \A x \in Contract : contract[x].customer \in sources => contract[x].version + 1 \in 0..MaxContractVersion
    <3>1. \A x \in Contract : contract[x].version \in 0..MaxContractVersion
      BY <2>1 DEF ContractRow
    <3>2. \A x \in Contract : contract[x].customer \in sources => contract[x].version < MaxContractVersion
      BY <1>4
    <3> QED
      BY <2>1, <3>1, <3>2
  <2>3. \A x \in Contract : contract[x].customer \in sources =>
          [contract[x] EXCEPT !.customer = target, !.version = @ + 1] \in ContractRow
    BY <1>3, <2>1, <2>2 DEF ContractRow
  <2> QED
    BY <1>4, <2>1, <2>3
<1>6. sale' \in [Sale -> SaleRow]
  <2>1. sale \in [Sale -> SaleRow]
    BY DEF Typed, TypeOK
  <2>2. \A s \in Sale : [sale[s] EXCEPT !.customer = target] \in SaleRow
    BY <1>3, <2>1 DEF SaleRow
  <2> QED
    BY <1>4, <2>1, <2>2
<1>7. MergesInto(k, target, sources)
    BY <1>2, <1>4, <1>5, <1>6 DEF MergesInto
<1> QED
    BY <1>3, <1>7

LEMMA TypedInit == Init => Typed
<1> SUFFICES ASSUME Init PROVE Typed
    OBVIOUS
<1>1. CustomersTypeOK
    BY CustomersAssumption, Constants DEF Init, CustomersInit, CustomersTypeOK, NoVoice
<1>2. NoErrand \in Placed
    BY Constants DEF NoErrand, Placed
<1>3. << >> \in Seq(ScheduleRow)
    OBVIOUS
<1> QED
    BY <1>1, <1>2, <1>3, Constants DEF Init, Typed, TypeOK, Placed

LEMMA TypedNext == Typed /\ [Next]_vars => Typed'
<1> SUFFICES ASSUME Typed, [Next]_vars PROVE Typed'
    OBVIOUS
<1>1. CASE UNCHANGED vars
    BY <1>1 DEF Typed, TypeOK, CustomersTypeOK, vars, crmVars, crmTables, accounts, contractVars
<1>2. ASSUME NewCustomer \/ \E k \in Client : BeginOnCustomer(k) \/ OnCustomer(k) \/ Delete(k) PROVE Typed'
    BY <1>2, CustomersTyped, CustomerFrame DEF Typed, TypeOK, contractVars
<1>3. ASSUME NEW k \in Client, Merge(k) PROVE Typed'
  <2>1. /\ contract' \in [Contract -> ContractRow] /\ sale' \in [Sale -> SaleRow]
        /\ UNCHANGED <<schedule, lock, clerk>>
    BY <1>3, MergeIs DEF MergesInto
  <2> QED
    BY <1>3, <2>1, CustomersTyped DEF Typed, TypeOK
<1> QED
    BY <1>1, <1>2, <1>3, NextCases, ContractsTyped

(* Every row of crm and every request keeps its type.                       *)
THEOREM TypesKept == Spec => []TypeOK
<1>1. Spec => []Typed
    BY TypedInit, TypedNext, PTL DEF Spec
<1>2. Typed => TypeOK
    BY DEF Typed
<1> QED
    BY <1>1, <1>2, PTL

-----------------------------------------------------------------------------
(* Customers that are retired                                               *)

(* What a step may do to the row of a customer.                             *)
LEMMA RowSteps ==
    ASSUME Typed, [Next]_vars, NEW c \in Customer
    PROVE  /\ customer[c].state # "unborn" => customer'[c].state # "unborn"
           /\ customer[c].state = "inactive" =>
                customer'[c].state \in {"inactive", "deleted"} /\ customer'[c].into = customer[c].into
           /\ customer[c].state # "unborn" =>
                \/ customer'[c].version = customer[c].version + 1
                \/ customer'[c].version = customer[c].version /\ customer'[c].kind = customer[c].kind
<1>1. customer \in [Customer -> Row] /\ client \in [Client -> Request]
    BY DEF Typed, TypeOK, CustomersTypeOK
<1>2. CASE UNCHANGED customer
    BY <1>2
<1>3. CASE NewCustomer
    BY <1>1, <1>3 DEF NewCustomer, CreateCustomer
<1>4. ASSUME NEW k \in Client, BeginOnCustomer(k) PROVE UNCHANGED customer
    BY <1>4, BeginCases DEF Typed, TypeOK, BeginsWith, accounts
<1>5. ASSUME NEW k \in Client, OnCustomer(k), ~UpdateCustomer(k), ~DeactivateCustomer(k) PROVE UNCHANGED customer
    BY <1>5 DEF OnCustomer, MergeRefused, FilingRefused, CountVoices, DeleteContact, ReadSource, CreateDeal,
                CreateContact, CreateVoice, accounts
<1>6. ASSUME NEW k \in Client, UpdateCustomer(k) \/ DeactivateCustomer(k), ~UNCHANGED customer
      PROVE  /\ client[k].on \in Customer /\ Exists(client[k].on)
             /\ customer'[client[k].on].version = customer[client[k].on].version + 1
             /\ customer'[client[k].on].into = customer[client[k].on].into
             /\ customer'[client[k].on].state \in {"inactive", customer[client[k].on].state}
             /\ \A x \in Customer \ {client[k].on} : customer'[x] = customer[x]
  <2>1. client[k].on \in Customer /\ Exists(client[k].on)
    BY <1>6 DEF UpdateCustomer, DeactivateCustomer, Exists
  <2>2. CASE UpdateCustomer(k)
    BY <1>1, <1>6, <2>1, <2>2 DEF UpdateCustomer, Row
  <2>3. CASE DeactivateCustomer(k)
    BY <1>1, <1>6, <2>1, <2>3 DEF DeactivateCustomer, Row
  <2> QED
    BY <1>6, <2>2, <2>3
<1>7. ASSUME NEW k \in Client, Delete(k), ~UNCHANGED customer
      PROVE  /\ client[k].on \in Customer
             /\ customer' = [customer EXCEPT ![client[k].on].state = "deleted"]
    BY <1>7 DEF Delete, CountHistory, DiscardCustomer, Exists, accounts
<1>8. ASSUME NEW k \in Client, Merge(k)
      PROVE  \/ customer'[c] = customer[c]
             \/ /\ customer[c].state = "active" /\ customer'[c].state = "inactive"
                /\ customer'[c].version = customer[c].version + 1
  <2>1. PICK sources, target : customer' = Retire(sources, target)
    BY <1>8, MergeIs DEF MergesInto
  <2>2. customer'[c] = IF c \in sources /\ customer[c].state = "active"
                       THEN [customer[c] EXCEPT !.state = "inactive", !.into = target, !.version = @ + 1]
                       ELSE customer[c]
    BY <2>1 DEF Retire
  <2>3. customer[c] \in Row
    BY <1>1
  <2> QED
    BY <2>2, <2>3 DEF Row
<1>9. ASSUME NEW k \in Client, OnContract(k) PROVE UNCHANGED customer
    BY <1>9, ContractFrame DEF crmTables, accounts
<1>10. ASSUME NEW k \in Client, OnCustomer(k), ~UNCHANGED customer
       PROVE  /\ customer[c].state # "unborn" => customer'[c].state # "unborn"
              /\ customer[c].state = "inactive" =>
                   customer'[c].state \in {"inactive", "deleted"} /\ customer'[c].into = customer[c].into
              /\ customer[c].state # "unborn" =>
                   \/ customer'[c].version = customer[c].version + 1
                   \/ customer'[c].version = customer[c].version /\ customer'[c].kind = customer[c].kind
    BY <1>5, <1>6, <1>10 DEF Exists
<1>11. ASSUME NEW k \in Client, Delete(k), ~UNCHANGED customer
       PROVE  /\ customer'[c].state \in {"deleted", customer[c].state} /\ customer'[c].into = customer[c].into
              /\ customer'[c].version = customer[c].version /\ customer'[c].kind = customer[c].kind
  <2>1. customer' = [customer EXCEPT ![client[k].on].state = "deleted"]
    BY <1>7, <1>11
  <2>2. CASE c = client[k].on
    <3>1. customer'[c] = [customer[c] EXCEPT !.state = "deleted"]
      BY <1>1, <2>1, <2>2
    <3>2. customer[c] \in Row
      BY <1>1
    <3> QED
      BY <3>1, <3>2 DEF Row
  <2>3. CASE c # client[k].on
    BY <1>1, <2>1, <2>3
  <2> QED
    BY <2>2, <2>3
<1>12. CASE UNCHANGED vars
    BY <1>2, <1>12 DEF vars, crmVars, crmTables, accounts
<1> QED
    BY <1>2, <1>3, <1>4, <1>8, <1>9, <1>10, <1>11, <1>12, NextCases

(* No request, however late, brings a merged or hidden customer back or     *)
(* merges it into another one.                                              *)
THEOREM RetiredStayRetired == Spec => RetiredForGood
<1>1. Typed /\ [Next]_vars =>
        [\A c \in Customer : customer[c].state = "inactive" =>
           customer'[c].state \in {"inactive", "deleted"} /\ customer'[c].into = customer[c].into]_vars
    BY RowSteps
<1> QED
    BY <1>1, TypedInit, TypedNext, PTL DEF Spec, RetiredForGood

-----------------------------------------------------------------------------
(* The record of an account                                                 *)

(* Everything filed names a customer whose row is there: the foreign keys.  *)
Filed ==
    /\ \A d \in Deal : deal[d] # NoCustomer => Exists(deal[d])
    /\ \A c \in Contract : contract[c].status # "none" => Exists(contract[c].customer)
    /\ \A s \in Sale : sale[s] # NoSale => Exists(sale[s].customer)
    /\ \A v \in Voice : voice[v].customer \in Customer => Exists(voice[v].customer)

(* A row goes only if nothing is filed on it.                               *)
LEMMA GoneOnlyIf ==
    ASSUME Typed, [Next]_vars, NEW c \in Customer, Exists(c), ~Exists(c)'
    PROVE  /\ \A d \in Deal : deal'[d] = deal[d] /\ deal[d] # c
           /\ \A x \in Contract : contract'[x] = contract[x] /\ contract[x].customer # c
           /\ \A s \in Sale : sale'[s] = sale[s] /\ sale[s].customer # c
           /\ \A v \in Voice : voice'[v].customer # c
           /\ \A x \in Customer : x # c => customer'[x] = customer[x]
<1>1. customer \in [Customer -> Row] /\ client \in [Client -> Request]
    BY DEF Typed, TypeOK, CustomersTypeOK
<1>2. customer[c].state \in {"active", "inactive"} /\ customer'[c].state \notin {"active", "inactive"}
    BY DEF Exists
<1>3. ASSUME NEW k \in Client, Delete(k)
      PROVE  /\ c = client[k].on /\ Deletable(c, HasContract(c) \/ HasSale(c)) /\ UNCHANGED <<deal, contract, sale>>
             /\ \A v \in Voice : voice'[v].customer # c
             /\ \A x \in Customer : x # c => customer'[x] = customer[x]
  <2>1. ~CountHistory(k, HasContract(client[k].on) \/ HasSale(client[k].on))
    BY <1>2 DEF CountHistory, accounts
  <2>2. DiscardCustomer(k, HasContract(client[k].on) \/ HasSale(client[k].on)) /\ UNCHANGED contractVars
    BY <1>3, <2>1 DEF Delete
  <2>3. /\ Deletable(client[k].on, HasContract(client[k].on) \/ HasSale(client[k].on))
        /\ customer' = [customer EXCEPT ![client[k].on].state = "deleted"] /\ UNCHANGED deal
        /\ voice' = [v \in Voice |-> IF voice[v].customer = client[k].on THEN LostVoice ELSE voice[v]]
    BY <1>2, <2>2 DEF DiscardCustomer
  <2>4. c = client[k].on
    BY <1>1, <1>2, <2>3
  <2>5. \A v \in Voice : voice'[v].customer # c
    BY <2>3, <2>4, CustomersAssumption DEF LostVoice
  <2> QED
    BY <1>1, <2>2, <2>3, <2>4, <2>5 DEF contractVars
<1>4. ASSUME NEW k \in Client, Delete(k) PROVE ~HasDeal(c) /\ ~HasContract(c) /\ ~HasSale(c)
    BY <1>3, <1>4 DEF Deletable
<1>5. \E k \in Client : Delete(k)
  <2>1. customer' # customer /\ ~UNCHANGED vars
    BY <1>2 DEF vars, crmVars, crmTables, accounts
  <2>2. ~NewCustomer
    BY <1>1, <1>2 DEF NewCustomer, CreateCustomer
  <2>3. \A k \in Client : ~BeginOnCustomer(k)
    BY <2>1, BeginCases DEF Typed, TypeOK, BeginsWith, accounts
  <2>4. ASSUME NEW k \in Client, OnCustomer(k) PROVE FALSE
    <3>1. UpdateCustomer(k) \/ DeactivateCustomer(k)
      BY <2>1, <2>4 DEF OnCustomer, MergeRefused, FilingRefused, CountVoices, DeleteContact, ReadSource, CreateDeal,
                        CreateContact, CreateVoice, accounts
    <3>2. CASE UpdateCustomer(k)
      BY <1>1, <1>2, <2>1, <3>2 DEF UpdateCustomer, Row
    <3>3. CASE DeactivateCustomer(k)
      BY <1>1, <1>2, <2>1, <3>3 DEF DeactivateCustomer, Row
    <3> QED
      BY <3>1, <3>2, <3>3
  <2>5. ASSUME NEW k \in Client, Merge(k) PROVE FALSE
    <3>1. PICK sources, target : customer' = Retire(sources, target)
      BY <2>5, MergeIs DEF MergesInto
    <3>2. customer'[c] = IF c \in sources /\ customer[c].state = "active"
                         THEN [customer[c] EXCEPT !.state = "inactive", !.into = target, !.version = @ + 1]
                         ELSE customer[c]
      BY <3>1 DEF Retire
    <3>3. customer[c] \in Row
      BY <1>1
    <3> QED
      BY <1>2, <3>2, <3>3 DEF Row
  <2>6. \A k \in Client : ~OnContract(k)
    BY <2>1, ContractFrame DEF crmTables, accounts
  <2> QED
    BY <2>1, <2>2, <2>3, <2>4, <2>5, <2>6, NextCases
<1> QED
    BY <1>3, <1>4, <1>5 DEF HasDeal, HasContract, HasSale

(* Nothing filed disappears, and what is new or moved names a row that      *)
(* exists.                                                                  *)
KeptDeal(d) == deal'[d] # deal[d] => Exists(deal'[d])
KeptContract(c) ==
    /\ contract[c].status # "none" => contract'[c].status # "none"
    /\ \/ contract'[c].customer = contract[c].customer /\ (contract[c].status = "none" => contract'[c].status = "none")
       \/ Exists(contract'[c].customer)
KeptSale(s) ==
    /\ sale[s] # NoSale => sale'[s].row = sale[s].row
    /\ sale'[s] = sale[s] \/ Exists(sale'[s].customer)

LEMMA FiledSteps ==
    ASSUME Typed, [Next]_vars
    PROVE  /\ \A d \in Deal : KeptDeal(d)
           /\ \A c \in Contract : KeptContract(c)
           /\ \A s \in Sale : KeptSale(s)
<1> DEFINE Kept == /\ \A d \in Deal : KeptDeal(d)
                   /\ \A c \in Contract : KeptContract(c)
                   /\ \A s \in Sale : KeptSale(s)
<1>1. /\ deal \in [Deal -> Customer \cup {NoCustomer}] /\ contract \in [Contract -> ContractRow]
      /\ sale \in [Sale -> SaleRow] /\ clerk \in [Client -> Placed]
    BY DEF Typed, TypeOK, CustomersTypeOK
<1>2. UNCHANGED deal => \A d \in Deal : KeptDeal(d)
    BY DEF KeptDeal
<1>3. UNCHANGED contract => \A c \in Contract : KeptContract(c)
    BY DEF KeptContract
<1>4. UNCHANGED sale => \A s \in Sale : KeptSale(s)
    BY DEF KeptSale
<1>5. CASE UNCHANGED vars
    BY <1>2, <1>3, <1>4, <1>5 DEF vars, crmVars, crmTables, contractVars
<1>6. ASSUME NewCustomer \/ \E k \in Client : BeginOnCustomer(k) \/ OnCustomer(k) \/ Delete(k) PROVE Kept
  <2>1. UNCHANGED <<contract, sale>>
    BY <1>6, CustomerFrame DEF contractVars
  <2>2. ASSUME NEW k \in Client, NEW x \in Deal, CreateDeal(k, x) PROVE \A d \in Deal : KeptDeal(d)
    BY <1>1, <2>2 DEF CreateDeal, Refers, KeptDeal
  <2>3. \/ UNCHANGED deal
        \/ \E k \in Client, x \in Deal : CreateDeal(k, x)
    <3>1. NewCustomer => UNCHANGED deal
      BY DEF NewCustomer, CreateCustomer
    <3>2. \A k \in Client : BeginOnCustomer(k) => UNCHANGED deal
      BY BeginCases DEF Typed, TypeOK, BeginsWith
    <3>3. \A k \in Client : Delete(k) => UNCHANGED deal
      BY DEF Delete, CountHistory, DiscardCustomer
    <3>4. \A k \in Client : OnCustomer(k) => UNCHANGED deal \/ \E x \in Deal : CreateDeal(k, x)
      BY DEF OnCustomer, UpdateCustomer, DeactivateCustomer, MergeRefused, FilingRefused, CountVoices,
             DeleteContact, ReadSource, CreateContact, CreateVoice
    <3> QED
      BY <1>6, <3>1, <3>2, <3>3, <3>4
  <2> QED
    <3>1. \A d \in Deal : KeptDeal(d)
      BY <1>2, <2>2, <2>3
    <3>2. (\A c \in Contract : KeptContract(c)) /\ \A s \in Sale : KeptSale(s)
      BY <1>3, <1>4, <2>1
    <3> QED
      BY <3>1, <3>2
<1>7. ASSUME NEW k \in Client, Merge(k) PROVE Kept
  <2>0. PICK target \in Customer, sources \in SUBSET Customer : MergesInto(k, target, sources)
    BY <1>7, MergeIs
  <2>1. /\ Exists(target) /\ deal' = Moved(deal, sources, target)
        /\ contract' = [x \in Contract |->
               IF contract[x].customer \in sources
               THEN [contract[x] EXCEPT !.customer = target, !.version = @ + 1] ELSE contract[x]]
        /\ sale' = [s \in Sale |-> IF sale[s].customer \in sources
                                   THEN [sale[s] EXCEPT !.customer = target] ELSE sale[s]]
    BY <2>0 DEF MergesInto
  <2>2. \A d \in Deal : KeptDeal(d)
    BY <1>1, <2>1 DEF Moved, KeptDeal
  <2>3. ASSUME NEW c \in Contract PROVE KeptContract(c)
    <3>1. contract[c] \in ContractRow
      BY <1>1
    <3>2. contract'[c] = IF contract[c].customer \in sources
                 THEN [contract[c] EXCEPT !.customer = target, !.version = @ + 1] ELSE contract[c]
      BY <2>1
    <3>3. contract'[c].status = contract[c].status /\ contract'[c].customer \in {target, contract[c].customer}
      BY <3>1, <3>2 DEF ContractRow
    <3> QED
      BY <2>1, <3>3 DEF KeptContract
  <2>4. ASSUME NEW s \in Sale PROVE KeptSale(s)
    <3>1. sale[s] \in SaleRow
      BY <1>1
    <3>2. sale'[s] = IF sale[s].customer \in sources THEN [sale[s] EXCEPT !.customer = target] ELSE sale[s]
      BY <2>1
    <3>3. sale'[s].row = sale[s].row /\ (sale'[s] = sale[s] \/ sale'[s].customer = target)
      BY <3>1, <3>2 DEF SaleRow
    <3> QED
      BY <2>1, <3>3 DEF KeptSale
  <2> QED
    BY <2>2, <2>3, <2>4
<1>8. ASSUME NEW k \in Client, OnContract(k) PROVE Kept
  <2>1. UNCHANGED deal
    BY <1>8, ContractFrame DEF crmTables
  <2>2. \A c \in Contract : KeptContract(c)
    <3>1. ASSUME NEW x \in Contract, CreateContract(k, x), ~UNCHANGED contract, NEW c \in Contract PROVE KeptContract(c)
      <4>1. PICK status \in {"DRAFT", "ACTIVE"} :
              /\ Refers([clerk[k].before EXCEPT !.status = status].customer)
              /\ contract' = [contract EXCEPT ![x] = [clerk[k].before EXCEPT !.status = status]]
        BY <3>1 DEF CreateContract
      <4>2. contract[x].status = "none"
        BY <3>1 DEF CreateContract
      <4>3. CASE c = x
        BY <1>1, <4>1, <4>2, <4>3 DEF Refers, KeptContract
      <4>4. CASE c # x
        BY <1>1, <4>1, <4>4 DEF KeptContract
      <4> QED
        BY <4>3, <4>4
    <3>2. ASSUME ActivateContract(k) \/ UpdateContractRenewal(k), ~UNCHANGED contract, NEW c \in Contract PROVE KeptContract(c)
      <4> DEFINE x == clerk[k].on
      <4>1. \/ contract[x].status = "DRAFT" /\ contract' = [contract EXCEPT ![x].status = "ACTIVE", ![x].version = @ + 1]
            \/ contract' = [contract EXCEPT ![x].renewal = Renewal(clerk[k]), ![x].version = @ + 1]
        BY <3>2 DEF ActivateContract, UpdateContractRenewal
      <4>2. contract[c] \in ContractRow
        BY <1>1
      <4> HIDE DEF x
      <4>3. contract'[c].customer = contract[c].customer /\ (contract[c].status = "none" <=> contract'[c].status = "none")
        BY <1>1, <4>1, <4>2 DEF ContractRow
      <4> QED
        BY <4>3 DEF KeptContract
    <3>3. \/ UNCHANGED contract
          \/ ActivateContract(k) \/ UpdateContractRenewal(k) \/ \E x \in Contract : CreateContract(k, x)
      BY <1>8 DEF OnContract, LockRow, RollBack, ReadContractCustomer, ReadSaleCustomer, ReadRow, ReadContract, BookSale, CreateSale
    <3> QED
      BY <1>3, <3>1, <3>2, <3>3
  <2>3. \A s \in Sale : KeptSale(s)
    <3>1. ASSUME NEW x \in Sale, BookSale(k, x) \/ CreateSale(k, x), ~UNCHANGED sale, NEW s \in Sale PROVE KeptSale(s)
      <4>1. sale[x] = NoSale /\ Refers(clerk[k].before.customer)
        BY <3>1 DEF BookSale, CreateSale
      <4>2. \E new : sale' = [sale EXCEPT ![x] = new] /\ new.customer = clerk[k].before.customer
        <5>1. CASE BookSale(k, x)
          BY <3>1, <5>1 DEF BookSale
        <5>2. CASE CreateSale(k, x)
          <6>1. [NoSale EXCEPT !.customer = clerk[k].before.customer].customer = clerk[k].before.customer
            BY DEF NoSale
          <6>2. sale' = [sale EXCEPT ![x] = [NoSale EXCEPT !.customer = clerk[k].before.customer]]
            BY <3>1, <5>2 DEF CreateSale
          <6> QED
            BY <6>1, <6>2
        <5> QED
          BY <3>1, <5>1, <5>2
      <4> QED
        BY <1>1, <4>1, <4>2 DEF Refers, KeptSale
    <3>2. UNCHANGED sale \/ \E x \in Sale : BookSale(k, x) \/ CreateSale(k, x)
      BY <1>8 DEF OnContract, ActivateContract, UpdateContractRenewal, CreateContract, LockRow, RollBack,
                  ReadContractCustomer, ReadSaleCustomer, ReadRow, ReadContract
    <3> QED
      BY <1>4, <3>1, <3>2
  <2> QED
    BY <1>2, <2>1, <2>2, <2>3
<1> QED
    BY <1>5, <1>6, <1>7, <1>8, NextCases

(* A request is filed on a row that exists and goes only with its customer. *)
Files(k, v) == voice[v] = NoVoice /\ Refers(client[k].on) /\ voice'[v].customer = client[k].on
Discards(k, v) ==
    /\ client[k].op = "discard" /\ client[k].on = voice[v].customer
    /\ Exists(client[k].on) /\ voice'[v] = LostVoice

LEMMA VoiceSteps ==
    ASSUME Typed, [Next]_vars, NEW v \in Voice
    PROVE  voice'[v] = voice[v] \/ \E k \in Client : Files(k, v) \/ Discards(k, v)
<1>1. CustomersTypeOK /\ DOMAIN voice = Voice
    BY DEF Typed, TypeOK, CustomersTypeOK
<1>2. ASSUME NEW k \in Client, NEW x \in Voice, CreateVoice(k, x) PROVE voice'[v] = voice[v] \/ Files(k, v)
  <2>1. PICK p : voice' = [voice EXCEPT ![x] = [customer |-> client[k].on, contact |-> p]]
    BY <1>2 DEF CreateVoice
  <2> QED
    BY <1>1, <1>2, <2>1 DEF CreateVoice, Files
<1>3. ASSUME NEW k \in Client, OnCustomer(k) PROVE UNCHANGED voice \/ \E x \in Voice : CreateVoice(k, x)
    BY <1>3 DEF OnCustomer, UpdateCustomer, DeactivateCustomer, MergeRefused, FilingRefused, CountVoices,
                DeleteContact, ReadSource, CreateContact, CreateDeal
<1>4. ASSUME NEW k \in Client, BeginOnCustomer(k) PROVE UNCHANGED voice
    BY <1>1, <1>4, BeginCases DEF BeginsWith
<1>5. ASSUME NEW k \in Client, Delete(k) PROVE voice'[v] = voice[v] \/ Discards(k, v)
    BY <1>1, <1>5 DEF Delete, CountHistory, DiscardCustomer, Discards, On
<1>6. ASSUME NEW k \in Client, Merge(k) PROVE UNCHANGED voice
    BY <1>6 DEF Merge, MergeCustomers, MergeRecords
<1>7. ASSUME NewCustomer \/ \E k \in Client : OnContract(k) PROVE UNCHANGED voice
    BY <1>7, ContractFrame DEF NewCustomer, CreateCustomer, crmTables
<1>8. UNCHANGED vars => UNCHANGED voice
    BY DEF vars, crmVars, crmTables
<1> QED
    BY <1>2, <1>3, <1>4, <1>5, <1>6, <1>7, <1>8, NextCases

LEMMA FiledInit == Init => Filed
BY CustomersAssumption DEF Init, CustomersInit, Filed, NoContract, NoVoice

LEMMA FiledNext == Typed /\ Filed /\ [Next]_vars => Filed'
<1> SUFFICES ASSUME Typed, Filed, [Next]_vars PROVE Filed'
    OBVIOUS
<1>1. ASSUME NEW d \in Deal, deal'[d] # NoCustomer PROVE Exists(deal[d])'
  <2>1. Exists(deal'[d])
    BY <1>1, FiledSteps DEF KeptDeal, Filed
  <2>2. deal'[d] \in Customer
    BY <2>1 DEF Exists
  <2>3. ASSUME NEW c \in Customer, c = deal'[d], ~Exists(c)' PROVE FALSE
    BY <2>1, <2>3, GoneOnlyIf
  <2> QED
    BY <2>2, <2>3 DEF Exists
<1>2. ASSUME NEW x \in Contract, contract'[x].status # "none" PROVE Exists(contract[x].customer)'
  <2>1. Exists(contract'[x].customer)
    BY <1>2, FiledSteps DEF KeptContract, Filed
  <2>2. contract'[x].customer \in Customer
    BY <2>1 DEF Exists
  <2>3. ASSUME NEW c \in Customer, c = contract'[x].customer, ~Exists(c)' PROVE FALSE
    BY <2>1, <2>3, GoneOnlyIf
  <2> QED
    BY <2>2, <2>3 DEF Exists
<1>3. ASSUME NEW s \in Sale, sale'[s] # NoSale PROVE Exists(sale[s].customer)'
  <2>1. Exists(sale'[s].customer)
    BY <1>3, FiledSteps DEF KeptSale, Filed
  <2>2. sale'[s].customer \in Customer
    BY <2>1 DEF Exists
  <2>3. ASSUME NEW c \in Customer, c = sale'[s].customer, ~Exists(c)' PROVE FALSE
    BY <2>1, <2>3, GoneOnlyIf
  <2> QED
    BY <2>2, <2>3 DEF Exists
<1>4. ASSUME NEW v \in Voice, voice'[v].customer \in Customer PROVE Exists(voice[v].customer)'
  <2>1. Exists(voice'[v].customer)
    BY <1>4, VoiceSteps, CustomersAssumption DEF Files, Refers, Discards, LostVoice, Filed
  <2>2. ASSUME NEW c \in Customer, c = voice'[v].customer, ~Exists(c)' PROVE FALSE
    BY <2>1, <2>2, GoneOnlyIf
  <2> QED
    BY <1>4, <2>2 DEF Exists
<1> QED
    BY <1>1, <1>2, <1>3, <1>4 DEF Filed, Exists, NoSale

(* A deletion that is about to run counted no request on its customer.      *)
Counted ==
    \A k \in Client : client[k].op = "discard" =>
        \A v \in client[k].counted :
            voice[v] # NoVoice /\ (voice[v].customer \in Customer => voice[v].customer # client[k].on)

Counts(k) ==
    /\ client'[k].on = client[k].on /\ client'[k].counted = Filings
    /\ ~HasVoice(client[k].on) /\ UNCHANGED voice

LEMMA DiscardSteps ==
    ASSUME Typed, [Next]_vars, NEW j \in Client, client'[j].op = "discard"
    PROVE  client'[j] = client[j] \/ Counts(j)
<1>1. client \in [Client -> Request] /\ CustomersTypeOK
    BY DEF Typed, TypeOK, CustomersTypeOK
<1>2. ASSUME NEW k \in Client, NEW r, Await(k, r), r.op # "discard" PROVE client'[j] = client[j]
    BY <1>1, <1>2 DEF Await
<1>3. ASSUME NEW k \in Client, Done(k) PROVE client'[j] = client[j]
    BY <1>2, <1>3 DEF Done, Idle
<1>4. ASSUME NEW k \in Client, BeginOnCustomer(k) PROVE client'[j] = client[j]
  <2>1. PICK r : BeginsWith(k, r)
    BY <1>1, <1>4, BeginCases
  <2>2. client' = [client EXCEPT ![k] = r] /\ r.op # "discard"
    BY <2>1 DEF BeginsWith
  <2> QED
    BY <1>1, <2>2
<1>5. ASSUME NEW k \in Client, OnCustomer(k) PROVE client'[j] = client[j]
  <2>1. ASSUME CountVoices(k) PROVE client'[j] = client[j]
    <3>1. Idle.op # "discard" /\ [client[k] EXCEPT !.op = "drop contact"].op # "discard"
      BY <1>1 DEF Idle, Request
    <3> QED
      BY <1>2, <2>1, <3>1 DEF CountVoices
  <2>2. ASSUME NEW c \in Customer, ReadSource(k, c) PROVE client'[j] = client[j]
    <3>1. [client[k] EXCEPT !.sources = @ \cup {c}].op # "discard"
      BY <1>1, <2>2 DEF Request, ReadSource, On
    <3> QED
      BY <1>2, <2>2, <3>1 DEF ReadSource
  <2> QED
    BY <1>3, <1>5, <2>1, <2>2 DEF OnCustomer, UpdateCustomer, MergeRefused, DeactivateCustomer, FilingRefused,
                                  DeleteContact, CreateDeal, CreateContact, CreateVoice
<1>6. ASSUME NEW k \in Client, NEW other, CountHistory(k, other) PROVE client'[j] = client[j] \/ Counts(j)
  <2>1. CASE HasDeal(client[k].on) \/ HasVoice(client[k].on) \/ other
    <3>1. [client[k] EXCEPT !.op = "deactivate"].op # "discard"
      BY <1>1 DEF Request
    <3> QED
      BY <1>2, <1>6, <2>1, <3>1 DEF CountHistory
  <2>2. CASE ~(HasDeal(client[k].on) \/ HasVoice(client[k].on) \/ other)
    <3>1. client' = [client EXCEPT ![k] = [client[k] EXCEPT !.op = "discard", !.counted = Filings]] /\ UNCHANGED voice
      BY <1>6, <2>2 DEF CountHistory, Await
    <3>2. CASE j = k
      <4>1. client'[j] = [client[k] EXCEPT !.op = "discard", !.counted = Filings] /\ client[k] \in Request
        BY <1>1, <3>1, <3>2
      <4>2. client'[j].on = client[j].on /\ client'[j].counted = Filings
        BY <3>2, <4>1 DEF Request
      <4> QED
        BY <2>2, <3>1, <3>2, <4>2 DEF Counts
    <3>3. CASE j # k
      BY <1>1, <3>1, <3>3
    <3> QED
      BY <3>2, <3>3
  <2> QED
    BY <2>1, <2>2
<1>7. ASSUME NEW k \in Client, Delete(k) PROVE client'[j] = client[j] \/ Counts(j)
    BY <1>3, <1>6, <1>7 DEF Delete, DiscardCustomer
<1>8. ASSUME NEW k \in Client, Merge(k) PROVE client'[j] = client[j]
    BY <1>3, <1>8 DEF Merge, MergeCustomers
<1>9. ASSUME NewCustomer \/ \E k \in Client : OnContract(k) PROVE client'[j] = client[j]
    BY <1>9, ContractFrame DEF NewCustomer, CreateCustomer, crmTables
<1>10. UNCHANGED vars => client' = client
    BY DEF vars, crmVars, crmTables
<1> QED
    BY <1>4, <1>5, <1>7, <1>8, <1>9, <1>10, NextCases

LEMMA CountedInit == Init => Counted
BY DEF Init, CustomersInit, Counted, Idle

LEMMA CountedNext == Typed /\ Counted /\ [Next]_vars => Counted'
<1> SUFFICES ASSUME Typed, Counted, [Next]_vars, NEW k \in Client, client'[k].op = "discard", NEW v \in client'[k].counted
             PROVE  voice'[v] # NoVoice /\ (voice'[v].customer \in Customer => voice'[v].customer # client'[k].on)
    BY DEF Counted
<1>1. CASE client'[k] = client[k]
  <2>1. voice[v] # NoVoice /\ (voice[v].customer \in Customer => voice[v].customer # client[k].on)
    BY <1>1 DEF Counted
  <2>2. v \in Voice
    BY <1>1 DEF Typed, TypeOK, CustomersTypeOK, Request
  <2>3. LostVoice # NoVoice /\ LostVoice.customer \notin Customer
    BY CustomersAssumption DEF LostVoice, NoVoice
  <2> QED
    BY <1>1, <2>1, <2>2, <2>3, VoiceSteps DEF Files, Discards
<1>2. CASE Counts(k)
    BY <1>2 DEF Counts, Filings, HasVoice
<1> QED
    BY <1>1, <1>2, DiscardSteps

(* The deals, contracts and sales of an account are never lost and never    *)
(* point at a deleted customer, whatever DeleteCustomer counted; a customer *)
(* request is lost only to a deletion that counted before it was filed.     *)
THEOREM HistoryIsKept == Spec => HistoryKept
<1> DEFINE Keeps == /\ \A d \in Deal : deal[d] # NoCustomer => deal'[d] \in Customer /\ Exists(deal[d])'
                    /\ \A c \in Contract : contract[c].status # "none" =>
                         contract'[c].status # "none" /\ Exists(contract[c].customer)'
                    /\ \A s \in Sale : sale[s] # NoSale => sale'[s].row = sale[s].row /\ Exists(sale[s].customer)'
                    /\ \A v \in Voice : voice[v].customer \in Customer =>
                         IF voice'[v] = voice[v] THEN Exists(voice[v].customer)'
                         ELSE \E k \in Client : /\ client[k].op = "discard" /\ client[k].on = voice[v].customer
                                                /\ v \notin client[k].counted
<1>1. ASSUME Typed, Filed, Counted, [Next]_vars PROVE Keeps
  <2>1. Filed'
    BY <1>1, FiledNext
  <2>2. ASSUME NEW d \in Deal, deal[d] # NoCustomer PROVE deal'[d] \in Customer /\ Exists(deal[d])'
    <3>1. Exists(deal'[d])
      BY <1>1, <2>2, FiledSteps DEF KeptDeal, Filed
    <3>2. deal'[d] \in Customer /\ deal'[d] # NoCustomer
      BY <3>1, CustomersAssumption DEF Exists
    <3> QED
      BY <2>1, <3>2 DEF Filed
  <2>3. ASSUME NEW c \in Contract, contract[c].status # "none" PROVE contract'[c].status # "none" /\ Exists(contract[c].customer)'
    BY <1>1, <2>1, <2>3, FiledSteps DEF KeptContract, Filed
  <2>4. ASSUME NEW s \in Sale, sale[s] # NoSale PROVE sale'[s].row = sale[s].row /\ Exists(sale[s].customer)'
    <3>1. sale'[s].row = sale[s].row /\ Exists(sale'[s].customer)
      BY <1>1, <2>4, FiledSteps DEF KeptSale, Filed
    <3>2. sale'[s] # NoSale
      BY <3>1, CustomersAssumption DEF Exists, NoSale
    <3> QED
      BY <2>1, <3>1, <3>2 DEF Filed, NoSale
  <2>5. ASSUME NEW v \in Voice, voice[v].customer \in Customer, voice'[v] = voice[v] PROVE Exists(voice[v].customer)'
    BY <2>1, <2>5 DEF Filed
  <2>6. ASSUME NEW v \in Voice, voice[v].customer \in Customer, voice'[v] # voice[v]
        PROVE  \E k \in Client : /\ client[k].op = "discard" /\ client[k].on = voice[v].customer
                                 /\ v \notin client[k].counted
    <3>1. PICK k \in Client : Discards(k, v)
      BY <1>1, <2>6, VoiceSteps, CustomersAssumption DEF Files, NoVoice
    <3> QED
      BY <1>1, <2>6, <3>1 DEF Discards, Counted
  <2> QED
    BY <2>2, <2>3, <2>4, <2>5, <2>6
<1>2. Typed /\ Filed /\ Counted /\ [Next]_vars => [Keeps]_vars
    BY <1>1
<1> QED
    BY <1>2, TypedInit, TypedNext, FiledInit, FiledNext, CountedInit, CountedNext, PTL DEF Spec, HistoryKept

-----------------------------------------------------------------------------
(* What a request has read                                                  *)

(* What a step may do to the row of a contract.                             *)
LEMMA ContractSteps ==
    ASSUME Typed, [Next]_vars, NEW c \in Contract, contract[c].status # "none"
    PROVE  /\ contract'[c].status # "none" /\ contract'[c].terms = contract[c].terms
           /\ \/ contract'[c].version = contract[c].version + 1
              \/ contract'[c].version = contract[c].version /\ contract'[c].renewal = contract[c].renewal
           /\ contract'[c].status = contract[c].status \/ \E k \in Client : ActivateContract(k) /\ clerk[k].on = c
<1>1. contract \in [Contract -> ContractRow] /\ contract[c] \in ContractRow
    BY DEF Typed, TypeOK
<1>2. CASE contract'[c] = contract[c]
    BY <1>2
<1>3. ASSUME NEW k \in Client, Merge(k)
      PROVE  /\ contract'[c].status = contract[c].status /\ contract'[c].terms = contract[c].terms
             /\ contract'[c] = contract[c] \/ contract'[c].version = contract[c].version + 1
  <2>1. PICK target \in Customer, sources \in SUBSET Customer : MergesInto(k, target, sources)
    BY <1>3, MergeIs
  <2>2. contract'[c] = IF contract[c].customer \in sources
                       THEN [contract[c] EXCEPT !.customer = target, !.version = @ + 1] ELSE contract[c]
    BY <2>1 DEF MergesInto
  <2> QED
    BY <1>1, <2>2 DEF ContractRow
<1>4. ASSUME NEW k \in Client, OnContract(k)
      PROVE  \/ contract'[c] = contract[c]
             \/ ActivateContract(k) /\ clerk[k].on = c /\ contract'[c] = [contract[c] EXCEPT !.status = "ACTIVE", !.version = @ + 1]
             \/ contract'[c] = [contract[c] EXCEPT !.renewal = Renewal(clerk[k]), !.version = @ + 1]
  <2>1. ASSUME NEW x \in Contract, CreateContract(k, x) PROVE contract'[c] = contract[c]
    <3>1. x # c
      BY <2>1 DEF CreateContract
    <3> QED
      BY <1>1, <2>1, <3>1 DEF CreateContract
  <2>2. ASSUME ActivateContract(k)
        PROVE  contract'[c] = contract[c] \/ (clerk[k].on = c /\ contract'[c] = [contract[c] EXCEPT !.status = "ACTIVE", !.version = @ + 1])
    BY <1>1, <2>2 DEF ActivateContract
  <2>3. ASSUME UpdateContractRenewal(k)
        PROVE  contract'[c] = contract[c] \/ contract'[c] = [contract[c] EXCEPT !.renewal = Renewal(clerk[k]), !.version = @ + 1]
    BY <1>1, <2>3 DEF UpdateContractRenewal
  <2>4. \/ UNCHANGED contract
        \/ ActivateContract(k) \/ UpdateContractRenewal(k) \/ \E x \in Contract : CreateContract(k, x)
    BY <1>4 DEF OnContract, LockRow, RollBack, ReadContractCustomer, ReadSaleCustomer, ReadRow, ReadContract, BookSale, CreateSale
  <2> QED
    BY <2>1, <2>2, <2>3, <2>4
<1>5. ASSUME NEW k \in Client, OnContract(k), contract'[c] # contract[c]
      PROVE  /\ contract'[c].status # "none" /\ contract'[c].terms = contract[c].terms
             /\ contract'[c].version = contract[c].version + 1
             /\ contract'[c].status = contract[c].status \/ (ActivateContract(k) /\ clerk[k].on = c)
    BY <1>1, <1>4, <1>5 DEF ContractRow
<1>6. ASSUME NewCustomer \/ \E k \in Client : BeginOnCustomer(k) \/ OnCustomer(k) \/ Delete(k) PROVE contract' = contract
    BY <1>6, CustomerFrame DEF contractVars
<1>7. CASE UNCHANGED vars
    BY <1>2, <1>7 DEF vars, contractVars
<1> QED
    BY <1>2, <1>3, <1>5, <1>6, <1>7, NextCases

(* An errand that begins or goes on, with what it has read.                 *)
Starts(j, e) ==
    /\ e.op \in {"activate", "renew"} =>
         e.on \in Contract /\ contract[e.on].status # "none" /\ e.before = contract[e.on]
    /\ e.op = "activate" => BuildScheduleDates(e.before.terms) # << >>
    /\ e.op = "renew" => e.version <= contract[e.on].version
    /\ e.op = "recognize" => e.on \in Contract /\ e.row \in DOMAIN schedule[e.on]
    /\ e.op = "book" =>
         /\ clerk[j].op = "recognize" /\ e.on = clerk[j].on /\ e.row = clerk[j].row
         /\ <<e.on, e.row>> \notin lock /\ lock' = lock \cup {<<e.on, e.row>>}
         /\ schedule[e.on][e.row].status = "PLANNED"
    /\ e.op # "book" => UNCHANGED lock
    /\ UNCHANGED <<contract, schedule, sale>>

LEMMA ClerkSteps ==
    ASSUME Typed, [Next]_vars, NEW j \in Client
    PROVE  clerk'[j] = clerk[j] \/ clerk'[j].op = "idle" \/ Starts(j, clerk'[j])
<1>1. clerk \in [Client -> Placed] /\ contract \in [Contract -> ContractRow] /\ MaxContractVersion \in Nat
    BY ContractsAssumption DEF Typed, TypeOK
<1>2. ASSUME NEW k \in Client, NEW e, Open(k, e) \/ Run(k, e) PROVE clerk'[j] = clerk[j] \/ (j = k /\ clerk'[j] = e)
    BY <1>1, <1>2 DEF Open, Run
<1>3. ASSUME NEW k \in Client, Finish(k) PROVE clerk'[j] = clerk[j] \/ clerk'[j].op = "idle"
  <2>1. NoErrand.op = "idle"
    BY DEF NoErrand
  <2> QED
    BY <1>2, <1>3, <2>1 DEF Finish
<1>4. ASSUME NEW k \in Client, NEW c \in Customer, ReadContractCustomer(k, c) PROVE clerk'[j] = clerk[j] \/ Starts(j, clerk'[j])
  <2>1. PICK t \in Terms : Open(k, [NoErrand EXCEPT !.op = "create", !.before = [NoContract EXCEPT
                                       !.customer = c, !.terms = t, !.version = 1]])
    BY <1>4 DEF ReadContractCustomer
  <2> DEFINE e == [NoErrand EXCEPT !.op = "create", !.before = [NoContract EXCEPT !.customer = c, !.terms = t, !.version = 1]]
  <2>2. e.op = "create"
    BY DEF NoErrand
  <2>3. Open(k, e)
    BY <2>1
  <2> HIDE DEF e
  <2> QED
    BY <1>2, <1>4, <2>2, <2>3 DEF Starts, ReadContractCustomer
<1>5. ASSUME NEW k \in Client, NEW c \in Customer, ReadSaleCustomer(k, c) PROVE clerk'[j] = clerk[j] \/ Starts(j, clerk'[j])
  <2> DEFINE e == [NoErrand EXCEPT !.op = "sell", !.before = [NoContract EXCEPT !.customer = c]]
  <2>1. e.op = "sell"
    BY DEF NoErrand
  <2>2. Open(k, e)
    BY <1>5 DEF ReadSaleCustomer
  <2> HIDE DEF e
  <2> QED
    BY <1>2, <1>5, <2>1, <2>2 DEF Starts, ReadSaleCustomer
<1>6. ASSUME NEW k \in Client, NEW c \in Contract, NEW i \in DOMAIN schedule[c], ReadRow(k, c, i)
      PROVE  clerk'[j] = clerk[j] \/ Starts(j, clerk'[j])
  <2> DEFINE e == [NoErrand EXCEPT !.op = "recognize", !.on = c, !.row = i, !.before = contract[c]]
  <2>1. e.op = "recognize" /\ e.on = c /\ e.row = i
    BY DEF NoErrand
  <2>2. Open(k, e)
    BY <1>6 DEF ReadRow
  <2> HIDE DEF e
  <2> QED
    BY <1>2, <1>6, <2>1, <2>2 DEF Starts, ReadRow
<1>7. ASSUME NEW k \in Client, NEW c \in Contract, NEW op \in {"activate", "renew"}, NEW version \in 0..contract[c].version,
             NEW input, ReadContract(k, c, op, version, input)
      PROVE  clerk'[j] = clerk[j] \/ Starts(j, clerk'[j])
  <2> DEFINE v == IF version = 0 THEN contract[c].version ELSE version
  <2>1. v <= contract[c].version
    BY <1>1 DEF ContractRow
  <2> HIDE DEF v
  <2> DEFINE e == [NoErrand EXCEPT !.op = op, !.on = c, !.before = contract[c], !.input = input, !.version = v]
  <2>2. e.op = op /\ e.on = c /\ e.before = contract[c] /\ e.version = v
    BY DEF NoErrand
  <2>3. Open(k, e)
    BY <1>7 DEF ReadContract, v
  <2> HIDE DEF e
  <2> QED
    BY <1>2, <1>7, <2>1, <2>2, <2>3 DEF Starts, ReadContract
<1>8. ASSUME NEW k \in Client, LockRow(k), ~Finish(k) PROVE clerk'[j] = clerk[j] \/ Starts(j, clerk'[j])
  <2> DEFINE e == [clerk[k] EXCEPT !.op = "book"]
  <2>1. e.op = "book" /\ e.on = clerk[k].on /\ e.row = clerk[k].row
    BY <1>1 DEF Placed, Errand
  <2>2. Run(k, e)
    BY <1>8 DEF LockRow
  <2> HIDE DEF e
  <2> QED
    BY <1>2, <1>8, <2>1, <2>2 DEF Starts, LockRow, Doing
<1>9. ASSUME NEW k \in Client, OnContract(k)
      PROVE  clerk'[j] = clerk[j] \/ clerk'[j].op = "idle" \/ Starts(j, clerk'[j])
  <2>1. ASSUME ActivateContract(k) \/ UpdateContractRenewal(k) \/ RollBack(k)
               \/ (\E c \in Contract : CreateContract(k, c)) \/ \E s \in Sale : BookSale(k, s) \/ CreateSale(k, s)
        PROVE  Finish(k)
    BY <2>1 DEF ActivateContract, UpdateContractRenewal, RollBack, CreateContract, BookSale, CreateSale
  <2> QED
    BY <1>3, <1>4, <1>5, <1>6, <1>7, <1>8, <1>9, <2>1 DEF OnContract
<1>10. ASSUME NewCustomer \/ \E k \in Client : BeginOnCustomer(k) \/ OnCustomer(k) \/ Delete(k) PROVE clerk' = clerk
    BY <1>10, CustomerFrame DEF contractVars
<1>11. ASSUME NEW k \in Client, Merge(k) PROVE clerk' = clerk
    BY <1>11 DEF Merge
<1>12. UNCHANGED vars => clerk' = clerk
    BY DEF vars, contractVars
<1> QED
    BY <1>9, <1>10, <1>11, <1>12, NextCases

LEMMA ClientSteps ==
    ASSUME Typed, [Next]_vars, NEW j \in Client, client'[j].op = "update"
    PROVE  client'[j] = client[j] \/ (BeginsWith(j, client'[j]) /\ UNCHANGED customer)
<1>1. client \in [Client -> Request] /\ CustomersTypeOK
    BY DEF Typed, TypeOK, CustomersTypeOK
<1>2. ASSUME NEW k \in Client, NEW r, Await(k, r), r.op # "update" PROVE client'[j] = client[j]
    BY <1>1, <1>2 DEF Await
<1>3. ASSUME NEW k \in Client, Done(k) PROVE client'[j] = client[j]
    BY <1>2, <1>3 DEF Done, Idle
<1>4. ASSUME NEW k \in Client, BeginOnCustomer(k) PROVE client'[j] = client[j] \/ (BeginsWith(j, client'[j]) /\ UNCHANGED customer)
  <2>1. PICK r : BeginsWith(k, r)
    BY <1>1, <1>4, BeginCases
  <2>2. client' = [client EXCEPT ![k] = r] /\ UNCHANGED customer
    BY <2>1 DEF BeginsWith, accounts
  <2> QED
    BY <1>1, <2>1, <2>2
<1>5. ASSUME NEW k \in Client, OnCustomer(k) PROVE client'[j] = client[j]
  <2>1. ASSUME CountVoices(k) PROVE client'[j] = client[j]
    <3>1. Idle.op # "update" /\ [client[k] EXCEPT !.op = "drop contact"].op # "update"
      BY <1>1 DEF Idle, Request
    <3> QED
      BY <1>2, <2>1, <3>1 DEF CountVoices
  <2>2. ASSUME NEW c \in Customer, ReadSource(k, c) PROVE client'[j] = client[j]
    <3>1. [client[k] EXCEPT !.sources = @ \cup {c}].op # "update"
      BY <1>1, <2>2 DEF Request, ReadSource, On
    <3> QED
      BY <1>2, <2>2, <3>1 DEF ReadSource
  <2> QED
    BY <1>3, <1>5, <2>1, <2>2 DEF OnCustomer, UpdateCustomer, MergeRefused, DeactivateCustomer, FilingRefused,
                                  DeleteContact, CreateDeal, CreateContact, CreateVoice
<1>6. ASSUME NEW k \in Client, Delete(k) PROVE client'[j] = client[j]
  <2>1. /\ [client[k] EXCEPT !.op = "deactivate"].op # "update"
        /\ [client[k] EXCEPT !.op = "discard", !.counted = Filings].op # "update"
    BY <1>1 DEF Request
  <2>2. ASSUME NEW other, CountHistory(k, other) PROVE client'[j] = client[j]
    BY <1>2, <2>1, <2>2 DEF CountHistory
  <2> QED
    BY <1>3, <1>6, <2>2 DEF Delete, DiscardCustomer
<1>7. ASSUME NEW k \in Client, Merge(k) PROVE client'[j] = client[j]
    BY <1>3, <1>7 DEF Merge, MergeCustomers
<1>8. ASSUME NewCustomer \/ \E k \in Client : OnContract(k) PROVE client'[j] = client[j]
    BY <1>8, ContractFrame DEF NewCustomer, CreateCustomer, crmTables
<1>9. UNCHANGED vars => client' = client
    BY DEF vars, crmVars, crmTables
<1> QED
    BY <1>4, <1>5, <1>6, <1>7, <1>8, <1>9, NextCases

(* What a request on a row has read is the row, unless the row has a later  *)
(* version.                                                                 *)
Current ==
    \A k \in Client :
      /\ client[k].op = "update" =>
           /\ client[k].on \in Customer /\ customer[client[k].on].state # "unborn"
           /\ client[k].version <= customer[client[k].on].version
           /\ client[k].version = customer[client[k].on].version => client[k].kind = customer[client[k].on].kind
      /\ clerk[k].op = "renew" =>
           /\ clerk[k].on \in Contract /\ contract[clerk[k].on].status # "none"
           /\ clerk[k].version <= contract[clerk[k].on].version
           /\ clerk[k].version = contract[clerk[k].on].version =>
                clerk[k].before.renewal = contract[clerk[k].on].renewal

LEMMA CurrentInit == Init => Current
BY DEF Init, CustomersInit, Current, Idle, NoErrand

LEMMA CurrentNext == Typed /\ Current /\ [Next]_vars => Current'
<1> SUFFICES ASSUME Typed, Current, [Next]_vars, NEW k \in Client
             PROVE  /\ client'[k].op = "update" =>
                         /\ client'[k].on \in Customer /\ customer'[client'[k].on].state # "unborn"
                         /\ client'[k].version <= customer'[client'[k].on].version
                         /\ client'[k].version = customer'[client'[k].on].version =>
                              client'[k].kind = customer'[client'[k].on].kind
                    /\ clerk'[k].op = "renew" =>
                         /\ clerk'[k].on \in Contract /\ contract'[clerk'[k].on].status # "none"
                         /\ clerk'[k].version <= contract'[clerk'[k].on].version
                         /\ clerk'[k].version = contract'[clerk'[k].on].version =>
                              clerk'[k].before.renewal = contract'[clerk'[k].on].renewal
    BY DEF Current
<1>0. /\ \A x \in Client : client[x].version \in Nat /\ clerk[x].version \in Nat
      /\ \A x \in Customer : customer[x].version \in Nat
      /\ \A x \in Contract : contract[x].version \in Nat
    BY CustomersAssumption, ContractsAssumption DEF Typed, TypeOK, CustomersTypeOK, Row, Request, ContractRow, Errand
<1>1. ASSUME client'[k].op = "update"
      PROVE  /\ client'[k].on \in Customer /\ customer'[client'[k].on].state # "unborn"
             /\ client'[k].version <= customer'[client'[k].on].version
             /\ client'[k].version = customer'[client'[k].on].version =>
                  client'[k].kind = customer'[client'[k].on].kind
  <2> DEFINE c == client'[k].on
  <2>1. CASE client'[k] = client[k]
    <3>1. /\ c \in Customer /\ customer[c].state # "unborn" /\ client[k].version <= customer[c].version
          /\ client[k].version = customer[c].version => client[k].kind = customer[c].kind
      BY <1>1, <2>1 DEF Current
    <3>2. /\ customer'[c].state # "unborn"
          /\ \/ customer'[c].version = customer[c].version + 1
             \/ customer'[c].version = customer[c].version /\ customer'[c].kind = customer[c].kind
      BY <3>1, RowSteps
    <3> QED
      BY <1>0, <2>1, <3>1, <3>2
  <2>2. CASE BeginsWith(k, client'[k]) /\ UNCHANGED customer
    BY <1>1, <2>2 DEF BeginsWith
  <2> QED
    BY <1>1, <2>1, <2>2, ClientSteps
<1>2. ASSUME clerk'[k].op = "renew"
      PROVE  /\ clerk'[k].on \in Contract /\ contract'[clerk'[k].on].status # "none"
             /\ clerk'[k].version <= contract'[clerk'[k].on].version
             /\ clerk'[k].version = contract'[clerk'[k].on].version =>
                  clerk'[k].before.renewal = contract'[clerk'[k].on].renewal
  <2> DEFINE c == clerk'[k].on
  <2>1. CASE clerk'[k] = clerk[k]
    <3>1. /\ c \in Contract /\ contract[c].status # "none" /\ clerk[k].version <= contract[c].version
          /\ clerk[k].version = contract[c].version => clerk[k].before.renewal = contract[c].renewal
      BY <1>2, <2>1 DEF Current
    <3>2. /\ contract'[c].status # "none"
          /\ \/ contract'[c].version = contract[c].version + 1
             \/ contract'[c].version = contract[c].version /\ contract'[c].renewal = contract[c].renewal
      BY <3>1, ContractSteps
    <3> QED
      BY <1>0, <2>1, <3>1, <3>2
  <2>2. CASE Starts(k, clerk'[k])
    BY <1>2, <2>2 DEF Starts
  <2> QED
    BY <1>2, <2>1, <2>2, ClerkSteps
<1> QED
    BY <1>1, <1>2

(* UpdateCustomer and UpdateContractRenewal lose no update: what they write *)
(* back for a field left out is what the row says.                          *)
THEOREM NothingIsOverwritten == Spec => []NothingOverwritten
<1>1. Current => NothingOverwritten
    BY DEF Current, NothingOverwritten, Unchanged
<1> QED
    BY <1>1, TypedInit, TypedNext, CurrentInit, CurrentNext, PTL DEF Spec

-----------------------------------------------------------------------------
(* Schedules and their contracts                                            *)

OnPlan(rows, t) ==
    /\ BuildScheduleDates(t) # << >> /\ DOMAIN rows = DOMAIN RevenueSchedule(t)
    /\ \A i \in DOMAIN rows : /\ rows[i].date = RevenueSchedule(t)[i].date
                              /\ rows[i].amount = RevenueSchedule(t)[i].amount

(* A schedule is what createRevenueSchedule computed, and an activation     *)
(* under way computes it from the terms of the contract.                    *)
Planned ==
    /\ \A c \in Contract : IF contract[c].status # "ACTIVE" THEN schedule[c] = << >>
                             ELSE OnPlan(schedule[c], contract[c].terms)
    /\ \A k \in Client : clerk[k].op = "activate" =>
         /\ clerk[k].on \in Contract /\ contract[clerk[k].on].status # "none"
         /\ clerk[k].before.terms = contract[clerk[k].on].terms /\ BuildScheduleDates(clerk[k].before.terms) # << >>

(* What a step may do to the rows of a contract.                            *)
RowsKept(c) ==
    /\ schedule'[c] = schedule[c] /\ contract'[c].status = contract[c].status
    /\ contract'[c].terms = contract[c].terms
Drafted(c) == contract[c].status = "none" /\ contract'[c].status = "DRAFT" /\ schedule'[c] = schedule[c]
Created(c) ==
    /\ contract[c].status = "none" /\ contract'[c].status = "ACTIVE"
    /\ schedule'[c] = RevenueSchedule(contract'[c].terms) /\ schedule'[c] # << >>
Activated(k, c) ==
    /\ clerk[k].op = "activate" /\ clerk[k].on = c /\ contract[c].status = "DRAFT" /\ contract'[c].status = "ACTIVE"
    /\ contract'[c].terms = contract[c].terms
    /\ schedule'[c] = schedule[c] \o RevenueSchedule(clerk[k].before.terms)
Recognized(k, c) ==
    /\ clerk[k].op = "book" /\ clerk[k].on = c /\ contract'[c] = contract[c]
    /\ schedule'[c] = [schedule[c] EXCEPT ![clerk[k].row].status = "RECOGNIZED"]

LEMMA RowsSteps ==
    ASSUME Typed, [Next]_vars, NEW c \in Contract
    PROVE  \/ RowsKept(c) \/ Drafted(c) \/ Created(c)
           \/ \E k \in Client : Activated(k, c) \/ (Recognized(k, c) /\ \E s \in Sale : BookSale(k, s))
<1>1. /\ contract \in [Contract -> ContractRow] /\ contract[c] \in ContractRow
      /\ schedule \in [Contract -> Seq(ScheduleRow)] /\ clerk \in [Client -> Placed]
    BY DEF Typed, TypeOK
<1>2. UNCHANGED <<contract, schedule>> => RowsKept(c)
    BY DEF RowsKept
<1>3. ASSUME NewCustomer \/ \E k \in Client : BeginOnCustomer(k) \/ OnCustomer(k) \/ Delete(k) PROVE RowsKept(c)
    BY <1>2, <1>3, CustomerFrame DEF contractVars
<1>4. ASSUME NEW k \in Client, Merge(k) PROVE RowsKept(c)
  <2>1. PICK target \in Customer, sources \in SUBSET Customer : MergesInto(k, target, sources)
    BY <1>4, MergeIs
  <2>2. contract'[c] = IF contract[c].customer \in sources
                       THEN [contract[c] EXCEPT !.customer = target, !.version = @ + 1] ELSE contract[c]
    BY <2>1 DEF MergesInto
  <2>3. contract'[c].status = contract[c].status /\ contract'[c].terms = contract[c].terms
    BY <1>1, <2>2 DEF ContractRow
  <2> QED
    BY <2>1, <2>3 DEF MergesInto, RowsKept
<1>5. ASSUME NEW k \in Client, NEW x \in Contract, CreateContract(k, x) PROVE RowsKept(c) \/ Drafted(c) \/ Created(c)
  <2>1. PICK status \in {"DRAFT", "ACTIVE"} :
         LET new == [clerk[k].before EXCEPT !.status = status]
             rows == RevenueSchedule(new.terms)
         IN IF Refers(new.customer) /\ (status = "ACTIVE" => rows # << >>)
            THEN /\ contract' = [contract EXCEPT ![x] = new]
                 /\ schedule' = IF status = "ACTIVE" THEN [schedule EXCEPT ![x] = rows] ELSE schedule
            ELSE UNCHANGED <<contract, schedule>>
    BY <1>5 DEF CreateContract
  <2> DEFINE new == [clerk[k].before EXCEPT !.status = status]
             rows == RevenueSchedule(new.terms)
  <2>2. new.status = status
    BY <1>1 DEF Placed, Errand, ContractRow
  <2>3. \/ UNCHANGED <<contract, schedule>>
        \/ /\ contract' = [contract EXCEPT ![x] = new] /\ (status = "ACTIVE" => rows # << >>)
           /\ schedule' = IF status = "ACTIVE" THEN [schedule EXCEPT ![x] = rows] ELSE schedule
    BY <2>1
  <2>4. contract[x].status = "none"
    BY <1>5 DEF CreateContract
  <2>5. rows = RevenueSchedule(new.terms)
    OBVIOUS
  <2> HIDE DEF new, rows
  <2>6. CASE c = x
    BY <1>1, <1>2, <2>2, <2>3, <2>4, <2>5, <2>6 DEF Drafted, Created
  <2>7. CASE c # x
    BY <1>1, <1>2, <2>3, <2>7 DEF RowsKept
  <2> QED
    BY <2>6, <2>7
<1>6. ASSUME NEW k \in Client, ActivateContract(k) PROVE RowsKept(c) \/ Activated(k, c)
  <2> DEFINE x == clerk[k].on
             rows == RevenueSchedule(clerk[k].before.terms)
  <2>1. x \in Contract /\ clerk[k].op = "activate"
    BY <1>1, <1>6 DEF ActivateContract, Doing, Placed
  <2>2. \/ UNCHANGED <<contract, schedule>>
        \/ /\ contract[x].status = "DRAFT"
           /\ contract' = [contract EXCEPT ![x].status = "ACTIVE", ![x].version = @ + 1]
           /\ schedule' = [schedule EXCEPT ![x] = schedule[x] \o rows]
    BY <1>1, <1>6, <2>1 DEF ActivateContract
  <2> HIDE DEF x, rows
  <2>3. CASE c = x
    <3>1. CASE UNCHANGED <<contract, schedule>>
      BY <1>2, <3>1
    <3>2. CASE ~UNCHANGED <<contract, schedule>>
      <4>1. contract'[c] = [contract[c] EXCEPT !.status = "ACTIVE", !.version = @ + 1] /\ schedule'[c] = schedule[c] \o rows
        BY <1>1, <2>1, <2>2, <2>3, <3>2
      <4>2. contract'[c].status = "ACTIVE" /\ contract'[c].terms = contract[c].terms
        BY <1>1, <4>1 DEF ContractRow
      <4> QED
        BY <2>1, <2>2, <2>3, <3>2, <4>1, <4>2 DEF Activated, x, rows
    <3> QED
      BY <3>1, <3>2
  <2>4. CASE c # x
    BY <1>1, <2>2, <2>4 DEF RowsKept
  <2> QED
    BY <2>3, <2>4
<1>7. ASSUME NEW k \in Client, UpdateContractRenewal(k) PROVE RowsKept(c)
  <2>1. contract'[c] = contract[c] \/ contract'[c] = [contract[c] EXCEPT !.renewal = Renewal(clerk[k]), !.version = @ + 1]
    BY <1>1, <1>7 DEF UpdateContractRenewal
  <2>2. contract'[c].status = contract[c].status /\ contract'[c].terms = contract[c].terms
    BY <1>1, <2>1 DEF ContractRow
  <2> QED
    BY <1>7, <2>2 DEF UpdateContractRenewal, RowsKept
<1>8. ASSUME NEW k \in Client, NEW s \in Sale, BookSale(k, s) PROVE RowsKept(c) \/ Recognized(k, c)
  <2> DEFINE x == clerk[k].on
             i == clerk[k].row
  <2>1. x \in Contract /\ clerk[k].op = "book" /\ contract' = contract
    BY <1>1, <1>8 DEF BookSale, Doing, Placed
  <2>2. schedule' = schedule \/ schedule' = [schedule EXCEPT ![x][i].status = "RECOGNIZED"]
    BY <1>8 DEF BookSale
  <2> HIDE DEF x, i
  <2>3. CASE c = x
    <3>1. schedule'[c] = schedule[c] \/ schedule'[c] = [schedule[c] EXCEPT ![i].status = "RECOGNIZED"]
      BY <1>1, <2>1, <2>2, <2>3
    <3> QED
      BY <2>1, <2>3, <3>1 DEF RowsKept, Recognized, x, i
  <2>4. CASE c # x
    BY <1>1, <2>1, <2>2, <2>4 DEF RowsKept
  <2> QED
    BY <2>3, <2>4
<1>9. ASSUME NEW k \in Client, OnContract(k)
      PROVE  \/ UNCHANGED <<contract, schedule>> \/ ActivateContract(k) \/ UpdateContractRenewal(k)
             \/ (\E x \in Contract : CreateContract(k, x)) \/ \E s \in Sale : BookSale(k, s)
    BY <1>9 DEF OnContract, LockRow, RollBack, ReadContractCustomer, ReadSaleCustomer, ReadRow, ReadContract, CreateSale
<1>10. UNCHANGED vars => UNCHANGED <<contract, schedule>>
    BY DEF vars, contractVars
<1> QED
    BY <1>2, <1>3, <1>4, <1>5, <1>6, <1>7, <1>8, <1>9, <1>10, NextCases

LEMMA PlannedInit == Init => Planned
BY DEF Init, Planned, NoContract, NoErrand

LEMMA PlannedNext == Typed /\ Planned /\ [Next]_vars => Planned'
<1> SUFFICES ASSUME Typed, Planned, [Next]_vars PROVE Planned'
    OBVIOUS
<1>1. /\ schedule \in [Contract -> Seq(ScheduleRow)] /\ clerk \in [Client -> Placed] /\ contract \in [Contract -> ContractRow]
      /\ Terms \subseteq Term
    BY ContractsAssumption DEF Typed, TypeOK
<1>2. contract' \in [Contract -> ContractRow]
    BY TypedNext DEF Typed, TypeOK
<1>3. ASSUME NEW c \in Contract
      PROVE  IF contract'[c].status # "ACTIVE" THEN schedule'[c] = << >> ELSE OnPlan(schedule'[c], contract'[c].terms)
  <2>1. IF contract[c].status # "ACTIVE" THEN schedule[c] = << >> ELSE OnPlan(schedule[c], contract[c].terms)
    BY DEF Planned
  <2>2. CASE RowsKept(c)
    BY <2>1, <2>2 DEF RowsKept
  <2>3. CASE Drafted(c)
    BY <2>1, <2>3 DEF Drafted
  <2>4. CASE Created(c)
    <3>1. contract'[c].terms \in Term
      BY <1>1, <1>2 DEF ContractRow
    <3>2. BuildScheduleDates(contract'[c].terms) # << >>
      BY <2>4, <3>1, RevenueScheduleIs DEF Created
    <3> QED
      BY <2>4, <3>2 DEF Created, OnPlan
  <2>5. ASSUME NEW k \in Client, Activated(k, c) PROVE contract'[c].status = "ACTIVE" /\ OnPlan(schedule'[c], contract'[c].terms)
    <3> DEFINE t == contract[c].terms
    <3>1. t \in Term
      BY <1>1 DEF ContractRow
    <3>2. clerk[k].before.terms = t /\ BuildScheduleDates(t) # << >>
      BY <2>5 DEF Planned, Activated
    <3>3. schedule[c] = << >> /\ schedule'[c] = schedule[c] \o RevenueSchedule(t) /\ contract'[c].terms = t
      BY <2>1, <2>5, <3>2 DEF Activated
    <3>4. RevenueSchedule(t) \in Seq(ScheduleRow)
      BY <3>1, RevenueScheduleIs
    <3> HIDE DEF t
    <3>5. schedule'[c] = RevenueSchedule(t)
      BY <3>3, <3>4, ConcatEmptySeq
    <3> QED
      BY <2>5, <3>2, <3>3, <3>5 DEF OnPlan, Activated
  <2>6. ASSUME NEW k \in Client, Recognized(k, c)
        PROVE  IF contract'[c].status # "ACTIVE" THEN schedule'[c] = << >> ELSE OnPlan(schedule'[c], contract'[c].terms)
    <3> DEFINE i == clerk[k].row
    <3>1. contract'[c] = contract[c] /\ schedule'[c] = [schedule[c] EXCEPT ![i].status = "RECOGNIZED"]
      BY <2>6 DEF Recognized
    <3>2. schedule[c] \in Seq(ScheduleRow)
      BY <1>1
    <3> HIDE DEF i
    <3>3. \A j \in DOMAIN schedule[c] : schedule[c][j] \in ScheduleRow
      BY <3>2
    <3>4. DOMAIN schedule'[c] = DOMAIN schedule[c]
      BY <3>1
    <3>5. \A j \in DOMAIN schedule[c] : schedule'[c][j].date = schedule[c][j].date /\ schedule'[c][j].amount = schedule[c][j].amount
      BY <3>1, <3>3 DEF ScheduleRow
    <3>6. schedule[c] = << >> => schedule'[c] = << >>
      BY <3>1
    <3> QED
      BY <2>1, <3>1, <3>4, <3>5, <3>6 DEF OnPlan
  <2> QED
    BY <2>2, <2>3, <2>4, <2>5, <2>6, RowsSteps
<1>4. ASSUME NEW k \in Client, clerk'[k].op = "activate"
      PROVE  /\ clerk'[k].on \in Contract /\ contract'[clerk'[k].on].status # "none"
             /\ clerk'[k].before.terms = contract'[clerk'[k].on].terms /\ BuildScheduleDates(clerk'[k].before.terms) # << >>
  <2>1. CASE clerk'[k] = clerk[k]
    <3>1. /\ clerk[k].on \in Contract /\ contract[clerk[k].on].status # "none"
          /\ clerk[k].before.terms = contract[clerk[k].on].terms /\ BuildScheduleDates(clerk[k].before.terms) # << >>
      BY <1>4, <2>1 DEF Planned
    <3>2. contract'[clerk[k].on].status # "none" /\ contract'[clerk[k].on].terms = contract[clerk[k].on].terms
      BY <3>1, ContractSteps
    <3> QED
      BY <2>1, <3>1, <3>2
  <2>2. CASE Starts(k, clerk'[k])
    BY <1>4, <2>2 DEF Starts
  <2> QED
    BY <1>4, <2>1, <2>2, ClerkSteps
<1>5. /\ \A c \in Contract : IF contract'[c].status # "ACTIVE" THEN schedule'[c] = << >> ELSE OnPlan(schedule'[c], contract'[c].terms)
      /\ \A k \in Client : clerk'[k].op = "activate" =>
           /\ clerk'[k].on \in Contract /\ contract'[clerk'[k].on].status # "none"
           /\ clerk'[k].before.terms = contract'[clerk'[k].on].terms /\ BuildScheduleDates(clerk'[k].before.terms) # << >>
    BY <1>3, <1>4
<1> QED
    BY <1>5 DEF Planned, OnPlan

(* Activated exactly once: the rows of every ACTIVE contract are its due    *)
(* dates in order and add up to its amount, and no other contract has rows. *)
THEOREM SchedulesMatch == Spec => []ScheduleMatches
<1>1. Typed /\ Planned => ScheduleMatches
  <2> SUFFICES ASSUME Typed, Planned, NEW c \in Contract
               PROVE  IF contract[c].status # "ACTIVE" THEN schedule[c] = << >>
                      ELSE Scheduled(schedule[c], contract[c].terms)
    BY DEF ScheduleMatches
  <2>1. schedule[c] \in Seq(ScheduleRow) /\ contract[c].terms \in Term
    BY ContractsAssumption DEF Typed, TypeOK, ContractRow
  <2>2. Len(schedule[c]) \in Nat /\ DOMAIN schedule[c] = 1..Len(schedule[c])
    BY <2>1
  <2>3. CASE contract[c].status = "ACTIVE"
    <3>1. OnPlan(schedule[c], contract[c].terms)
      BY <2>3 DEF Planned
    <3> QED
      BY <2>1, <2>2, <2>3, <3>1, ScheduledByPlan DEF OnPlan
  <2> QED
    BY <2>3 DEF Planned
<1> QED
    BY <1>1, TypedInit, TypedNext, PlannedInit, PlannedNext, PTL DEF Spec

-----------------------------------------------------------------------------
(* Revenue is booked once                                                   *)

(* A step changes the errand of one slot at most.                           *)
LEMMA OneClerk ==
    ASSUME Typed, [Next]_vars, NEW j \in Client, NEW k \in Client, clerk'[j] # clerk[j], clerk'[k] # clerk[k]
    PROVE  j = k
<1>1. clerk \in [Client -> Placed]
    BY DEF Typed
<1>2. clerk' # clerk
    OBVIOUS
<1>3. ASSUME NewCustomer \/ \E x \in Client : BeginOnCustomer(x) \/ OnCustomer(x) \/ Delete(x) \/ Merge(x) PROVE clerk' = clerk
    BY <1>3, CustomerFrame DEF contractVars, Merge
<1>4. UNCHANGED vars => clerk' = clerk
    BY DEF vars, contractVars
<1>5. PICK x \in Client : OnContract(x)
    BY <1>2, <1>3, <1>4, NextCases
<1>6. \E e : clerk' = [clerk EXCEPT ![x] = e]
    BY <1>5 DEF OnContract, ActivateContract, UpdateContractRenewal, LockRow, RollBack, ReadContractCustomer,
                ReadSaleCustomer, CreateContract, ReadRow, ReadContract, BookSale, CreateSale, Open, Finish, Run
<1> QED
    BY <1>1, <1>6

(* A recognition names a row that exists, and from LockRow to BookSale each *)
(* holds the lock of a PLANNED row of its own.                              *)
Held ==
    /\ \A k \in Client : clerk[k].op \in {"recognize", "book"} =>
         clerk[k].on \in Contract /\ clerk[k].row \in DOMAIN schedule[clerk[k].on]
    /\ \A k \in Client : clerk[k].op = "book" =>
         <<clerk[k].on, clerk[k].row>> \in lock /\ schedule[clerk[k].on][clerk[k].row].status = "PLANNED"
    /\ \A j, k \in Client : clerk[j].op = "book" /\ clerk[k].op = "book" /\ j # k =>
         <<clerk[j].on, clerk[j].row>> # <<clerk[k].on, clerk[k].row>>

(* A sale booked for a row, a RECOGNIZED row with its sale, one each.       *)
SaleHasRow(s, c, i) == sale[s].row = <<c, i>> => i \in DOMAIN schedule[c] /\ schedule[c][i].status = "RECOGNIZED"
RowHasSale(c, i) == schedule[c][i].status = "RECOGNIZED" => \E s \in Sale : sale[s].row = <<c, i>>
OneSale(s, x, c, i) == sale[s].row = <<c, i>> /\ sale[x].row = <<c, i>> => s = x

Booked ==
    /\ \A s \in Sale, c \in Contract, i \in Nat : SaleHasRow(s, c, i)
    /\ \A c \in Contract : \A i \in DOMAIN schedule[c] : RowHasSale(c, i)
    /\ \A s, x \in Sale, c \in Contract, i \in Nat : OneSale(s, x, c, i)

(* A sale is booked for the row of slot k ...                               *)
Books(k, s) ==
    /\ clerk[k].op = "book" /\ clerk' = [clerk EXCEPT ![k] = NoErrand] /\ sale[s] = NoSale
    /\ lock' = lock \ {<<clerk[k].on, clerk[k].row>>}
    /\ sale' = [sale EXCEPT ![s] = [customer |-> clerk[k].before.customer, row |-> <<clerk[k].on, clerk[k].row>>]]
    /\ schedule' = [schedule EXCEPT ![clerk[k].on][clerk[k].row].status = "RECOGNIZED"]

(* ... or its lock is given up ...                                          *)
GivesUp(k) ==
    /\ clerk[k].op = "book" /\ clerk' = [clerk EXCEPT ![k] = NoErrand]
    /\ lock' = lock \ {<<clerk[k].on, clerk[k].row>>} /\ UNCHANGED <<sale, schedule>>

(* ... or no sale, row or lock that was there is touched.                   *)
Leaves ==
    /\ lock \subseteq lock' /\ \A s \in Sale : sale'[s].row = sale[s].row
    /\ \A c \in Contract : schedule'[c] = schedule[c] \/
         (schedule[c] = << >> /\ \A i \in DOMAIN schedule'[c] : schedule'[c][i].status = "PLANNED")

LEMMA LedgerSteps ==
    ASSUME Typed, Planned, [Next]_vars
    PROVE  (\E k \in Client : GivesUp(k) \/ \E s \in Sale : Books(k, s)) \/ Leaves
<1>1. /\ contract \in [Contract -> ContractRow] /\ sale \in [Sale -> SaleRow]
      /\ schedule \in [Contract -> Seq(ScheduleRow)] /\ clerk \in [Client -> Placed] /\ Terms \subseteq Term
    BY ContractsAssumption DEF Typed, TypeOK
<1>2. ASSUME NEW k \in Client, NEW s \in Sale, BookSale(k, s) PROVE GivesUp(k) \/ Books(k, s)
    BY <1>2 DEF BookSale, Finish, Run, Doing, GivesUp, Books
<1>3. ASSUME NEW k \in Client, RollBack(k) PROVE GivesUp(k)
    BY <1>3 DEF RollBack, Finish, Run, Doing, GivesUp
<1>4. ASSUME \A k \in Client : \A s \in Sale : ~BookSale(k, s), NEW c \in Contract
      PROVE  schedule'[c] = schedule[c] \/
               (schedule[c] = << >> /\ \A i \in DOMAIN schedule'[c] : schedule'[c][i].status = "PLANNED")
  <2>1. contract[c].status # "ACTIVE" => schedule[c] = << >>
    BY DEF Planned
  <2>2. CASE RowsKept(c) \/ Drafted(c)
    BY <2>2 DEF RowsKept, Drafted
  <2>3. CASE Created(c)
    <3>1. contract'[c].terms \in Term
      BY <1>1, TypedNext DEF Typed, TypeOK, ContractRow
    <3> QED
      BY <2>1, <2>3, <3>1, RevenueScheduleIs DEF Created
  <2>4. ASSUME NEW k \in Client, Activated(k, c)
        PROVE  schedule[c] = << >> /\ \A i \in DOMAIN schedule'[c] : schedule'[c][i].status = "PLANNED"
    <3> DEFINE t == clerk[k].before.terms
    <3>1. t \in Term
      BY <1>1 DEF Placed, Errand, ContractRow
    <3>2. schedule[c] = << >> /\ schedule'[c] = schedule[c] \o RevenueSchedule(t)
      BY <2>1, <2>4 DEF Activated
    <3> HIDE DEF t
    <3>3. RevenueSchedule(t) \in Seq(ScheduleRow)
      BY <3>1, RevenueScheduleIs
    <3>4. schedule'[c] = RevenueSchedule(t)
      BY <3>2, <3>3, ConcatEmptySeq
    <3> QED
      BY <3>1, <3>2, <3>4, RevenueScheduleIs
  <2> QED
    BY <1>4, <2>2, <2>3, <2>4, RowsSteps
<1>5. ASSUME NEW k \in Client, OnContract(k), ~RollBack(k), \A s \in Sale : ~BookSale(k, s)
      PROVE  lock \subseteq lock' /\ \A s \in Sale : sale'[s].row = sale[s].row
  <2>1. ASSUME NEW x \in Sale, CreateSale(k, x) PROVE \A s \in Sale : sale'[s].row = sale[s].row
    <3>1. sale[x] = NoSale /\ [NoSale EXCEPT !.customer = clerk[k].before.customer].row = NoSale.row
      BY <2>1 DEF CreateSale, NoSale
    <3>2. sale' = sale \/ sale' = [sale EXCEPT ![x] = [NoSale EXCEPT !.customer = clerk[k].before.customer]]
      BY <2>1 DEF CreateSale
    <3> QED
      BY <1>1, <3>1, <3>2
  <2>2. UNCHANGED sale \/ \E x \in Sale : CreateSale(k, x)
    BY <1>5 DEF OnContract, ActivateContract, UpdateContractRenewal, CreateContract, LockRow,
                ReadContractCustomer, ReadSaleCustomer, ReadRow, ReadContract
  <2>3. lock \subseteq lock'
    BY <1>5 DEF OnContract, ActivateContract, UpdateContractRenewal, CreateContract, LockRow, CreateSale,
                ReadContractCustomer, ReadSaleCustomer, ReadRow, ReadContract
  <2> QED
    BY <2>1, <2>2, <2>3
<1>6. ASSUME NEW k \in Client, Merge(k) PROVE lock \subseteq lock' /\ \A s \in Sale : sale'[s].row = sale[s].row
  <2>1. PICK target \in Customer, sources \in SUBSET Customer : MergesInto(k, target, sources)
    BY <1>6, MergeIs
  <2>2. \A s \in Sale : sale'[s] = IF sale[s].customer \in sources THEN [sale[s] EXCEPT !.customer = target] ELSE sale[s]
    BY <2>1 DEF MergesInto
  <2>3. \A s \in Sale : sale'[s].row = sale[s].row
    BY <1>1, <2>2 DEF SaleRow
  <2> QED
    BY <2>1, <2>3 DEF MergesInto
<1>7. ASSUME NewCustomer \/ \E k \in Client : BeginOnCustomer(k) \/ OnCustomer(k) \/ Delete(k)
      PROVE  lock \subseteq lock' /\ \A s \in Sale : sale'[s].row = sale[s].row
    BY <1>7, CustomerFrame DEF contractVars
<1>8. CASE UNCHANGED vars
    BY <1>8 DEF Leaves, vars, contractVars
<1>9. ASSUME \A k \in Client : ~RollBack(k) /\ \A s \in Sale : ~BookSale(k, s), Next
      PROVE  Leaves
  <2>1. lock \subseteq lock' /\ \A s \in Sale : sale'[s].row = sale[s].row
    BY <1>5, <1>6, <1>7, <1>9, NextCases
  <2> QED
    BY <1>4, <1>9, <2>1 DEF Leaves
<1> QED
    BY <1>2, <1>3, <1>8, <1>9

LEMMA HeldInit == Init => Held
BY DEF Init, Held, NoErrand

LEMMA HeldNext == Typed /\ Planned /\ Held /\ [Next]_vars => Held'
<1> SUFFICES ASSUME Typed, Planned, Held, [Next]_vars PROVE Held'
    OBVIOUS
<1>1. schedule \in [Contract -> Seq(ScheduleRow)] /\ clerk \in [Client -> Placed] /\ NoErrand.op = "idle"
    BY DEF Typed, TypeOK, NoErrand
<1>2. CASE Leaves
  <2>1. ASSUME NEW c \in Contract, NEW i \in DOMAIN schedule[c]
        PROVE  i \in DOMAIN schedule'[c] /\ schedule'[c][i] = schedule[c][i]
    BY <1>2 DEF Leaves
  <2>2. ASSUME NEW k \in Client, clerk'[k].op \in {"recognize", "book"}
        PROVE  /\ clerk'[k].on \in Contract /\ clerk'[k].row \in DOMAIN schedule[clerk'[k].on]
               /\ clerk'[k].op = "book" =>
                    <<clerk'[k].on, clerk'[k].row>> \in lock' /\ schedule[clerk'[k].on][clerk'[k].row].status = "PLANNED"
    <3>1. CASE clerk'[k] = clerk[k]
      BY <1>2, <2>2, <3>1 DEF Held, Leaves
    <3>2. CASE Starts(k, clerk'[k])
      BY <2>2, <3>2 DEF Starts, Held
    <3> QED
      BY <2>2, <3>1, <3>2, ClerkSteps
  <2>3. ASSUME NEW j \in Client, NEW k \in Client, clerk'[j].op = "book", clerk'[k].op = "book", j # k
        PROVE  <<clerk'[j].on, clerk'[j].row>> # <<clerk'[k].on, clerk'[k].row>>
    <3>1. ASSUME NEW a \in Client, NEW b \in Client, clerk[a] = clerk'[a], clerk'[a].op = "book", clerk'[b].op = "book",
                 clerk'[b] # clerk[b]
          PROVE  <<clerk'[a].on, clerk'[a].row>> # <<clerk'[b].on, clerk'[b].row>>
      <4>1. <<clerk'[a].on, clerk'[a].row>> \in lock
        BY <3>1 DEF Held
      <4>2. <<clerk'[b].on, clerk'[b].row>> \notin lock
        BY <3>1, ClerkSteps DEF Starts
      <4> QED
        BY <4>1, <4>2
    <3>2. CASE clerk'[j] = clerk[j] /\ clerk'[k] = clerk[k]
      BY <2>3, <3>2 DEF Held
    <3> QED
      BY <2>3, <3>1, <3>2, OneClerk
  <2> QED
    BY <2>1, <2>2, <2>3 DEF Held
<1>3. ASSUME NEW k \in Client, GivesUp(k) \/ \E s \in Sale : Books(k, s) PROVE Held'
  <2> DEFINE row == <<clerk[k].on, clerk[k].row>>
  <2>1. clerk[k].op = "book" /\ clerk' = [clerk EXCEPT ![k] = NoErrand] /\ lock' = lock \ {row}
    BY <1>3 DEF GivesUp, Books
  <2>2. clerk'[k].op = "idle" /\ \A j \in Client : j # k => clerk'[j] = clerk[j]
    BY <1>1, <2>1
  <2>3. schedule' = schedule \/ schedule' = [schedule EXCEPT ![clerk[k].on][clerk[k].row].status = "RECOGNIZED"]
    BY <1>3 DEF GivesUp, Books
  <2>4. ASSUME NEW c \in Contract
        PROVE  DOMAIN schedule'[c] = DOMAIN schedule[c] /\ \A i \in DOMAIN schedule[c] : <<c, i>> # row => schedule'[c][i] = schedule[c][i]
    BY <1>1, <2>3
  <2>5. ASSUME NEW j \in Client, clerk'[j].op \in {"recognize", "book"}
        PROVE  /\ clerk'[j].on \in Contract /\ clerk'[j].row \in DOMAIN schedule'[clerk'[j].on]
               /\ clerk'[j].op = "book" =>
                    <<clerk'[j].on, clerk'[j].row>> \in lock' /\ schedule'[clerk'[j].on][clerk'[j].row].status = "PLANNED"
    <3>1. j # k /\ clerk'[j] = clerk[j]
      BY <2>2, <2>5
    <3>2. clerk[j].on \in Contract /\ clerk[j].row \in DOMAIN schedule[clerk[j].on]
      BY <2>5, <3>1 DEF Held
    <3>3. ASSUME clerk[j].op = "book"
          PROVE  /\ <<clerk[j].on, clerk[j].row>> \in lock /\ <<clerk[j].on, clerk[j].row>> # row
                 /\ schedule[clerk[j].on][clerk[j].row].status = "PLANNED"
      BY <2>1, <3>1, <3>3 DEF Held
    <3> HIDE DEF row
    <3> QED
      BY <2>1, <2>4, <3>1, <3>2, <3>3
  <2>6. ASSUME NEW a \in Client, NEW b \in Client, clerk'[a].op = "book", clerk'[b].op = "book", a # b
        PROVE  <<clerk'[a].on, clerk'[a].row>> # <<clerk'[b].on, clerk'[b].row>>
    BY <2>2, <2>6 DEF Held
  <2> QED
    BY <2>5, <2>6 DEF Held
<1> QED
    BY <1>2, <1>3, LedgerSteps

LEMMA BookedInit == Init => Booked
<1>1. NoSale.row = NoRow
    BY DEF NoSale
<1>2. \A c \in Contract, i \in Nat : <<c, i>> # NoRow
    BY ContractsAssumption
<1> SUFFICES ASSUME Init PROVE Booked
    OBVIOUS
<1>3. \A s \in Sale : sale[s].row = NoRow
    BY <1>1 DEF Init
<1>4. \A c \in Contract : DOMAIN schedule[c] = {}
    BY DEF Init
<1> QED
    BY <1>2, <1>3, <1>4 DEF Booked, SaleHasRow, RowHasSale, OneSale

LEMMA BookedNext == Typed /\ Planned /\ Held /\ Booked /\ [Next]_vars => Booked'
<1> SUFFICES ASSUME Typed, Planned, Held, Booked, [Next]_vars PROVE Booked'
    OBVIOUS
<1>1. /\ schedule \in [Contract -> Seq(ScheduleRow)] /\ clerk \in [Client -> Placed]
      /\ sale \in [Sale -> SaleRow]
    BY DEF Typed, TypeOK
<1>2. CASE Leaves
  <2>1. ASSUME NEW c \in Contract, NEW i \in DOMAIN schedule[c]
        PROVE  i \in DOMAIN schedule'[c] /\ schedule'[c][i] = schedule[c][i]
    BY <1>2 DEF Leaves
  <2>2. ASSUME NEW c \in Contract, NEW i \in DOMAIN schedule'[c], schedule'[c][i].status = "RECOGNIZED"
        PROVE  i \in DOMAIN schedule[c] /\ schedule[c][i].status = "RECOGNIZED"
    BY <1>2, <2>2 DEF Leaves
  <2>3. \A s \in Sale : sale'[s].row = sale[s].row
    BY <1>2 DEF Leaves
  <2>4. \A s \in Sale, c \in Contract, i \in Nat : SaleHasRow(s, c, i)'
    BY <2>1, <2>3 DEF Booked, SaleHasRow
  <2>5. \A c \in Contract : \A i \in DOMAIN schedule'[c] : RowHasSale(c, i)'
    BY <2>2, <2>3 DEF Booked, RowHasSale
  <2>6. \A s, x \in Sale, c \in Contract, i \in Nat : OneSale(s, x, c, i)'
    BY <2>3 DEF Booked, OneSale
  <2> QED
    BY <2>4, <2>5, <2>6 DEF Booked
<1>3. ASSUME NEW k \in Client, GivesUp(k) PROVE Booked'
    BY <1>3 DEF GivesUp, Booked, SaleHasRow, RowHasSale, OneSale
<1>4. ASSUME NEW k \in Client, NEW s \in Sale, Books(k, s) PROVE Booked'
  <2> DEFINE c == clerk[k].on
             i == clerk[k].row
  <2>1. c \in Contract /\ i \in DOMAIN schedule[c] /\ schedule[c][i].status = "PLANNED"
    BY <1>4 DEF Books, Held
  <2>2. schedule' = [schedule EXCEPT ![c][i].status = "RECOGNIZED"]
    BY <1>4 DEF Books
  <2>3. sale' = [sale EXCEPT ![s] = [customer |-> clerk[k].before.customer, row |-> <<c, i>>]]
    BY <1>4 DEF Books
  <2>4. sale[s].row = NoRow
    BY <1>4 DEF Books, NoSale
  <2> HIDE DEF c, i
  <2>5. sale'[s].row = <<c, i>> /\ \A x \in Sale : x # s => sale'[x].row = sale[x].row
    BY <1>1, <2>3
  <2>6. \A x \in Contract : DOMAIN schedule'[x] = DOMAIN schedule[x]
    BY <1>1, <2>2
  <2>7. schedule'[c][i].status = "RECOGNIZED"
    <3>1. schedule'[c][i] = [schedule[c][i] EXCEPT !.status = "RECOGNIZED"]
      BY <1>1, <2>1, <2>2
    <3>2. schedule[c][i] \in ScheduleRow
      BY <1>1, <2>1
    <3> QED
      BY <3>1, <3>2 DEF ScheduleRow
  <2>8. \A x \in Contract : \A j \in DOMAIN schedule[x] : x # c \/ j # i => schedule'[x][j] = schedule[x][j]
    BY <1>1, <2>1, <2>2
  <2>9. i \in Nat
    BY <1>1, <2>1
  <2>10. \A x \in Sale : sale[x].row # <<c, i>>
    BY <2>1, <2>9 DEF Booked, SaleHasRow
  <2>11. ASSUME NEW x \in Sale, NEW a \in Contract, NEW j \in Nat, sale'[x].row = <<a, j>>
         PROVE  j \in DOMAIN schedule'[a] /\ schedule'[a][j].status = "RECOGNIZED"
    <3>1. CASE x = s
      BY <2>1, <2>5, <2>6, <2>7, <2>11, <3>1
    <3>2. CASE x # s
      <4>1. j \in DOMAIN schedule[a] /\ schedule[a][j].status = "RECOGNIZED"
        BY <2>5, <2>11, <3>2 DEF Booked, SaleHasRow
      <4> QED
        BY <2>1, <2>6, <2>8, <4>1
    <3> QED
      BY <3>1, <3>2
  <2>12. ASSUME NEW a \in Contract, NEW j \in DOMAIN schedule'[a], schedule'[a][j].status = "RECOGNIZED"
         PROVE  \E x \in Sale : sale'[x].row = <<a, j>>
    <3>1. CASE a = c /\ j = i
      BY <2>5, <3>1
    <3>2. CASE ~(a = c /\ j = i)
      <4>1. PICK x \in Sale : sale[x].row = <<a, j>>
        <5>1. j \in DOMAIN schedule[a] /\ schedule[a][j].status = "RECOGNIZED"
          BY <2>6, <2>8, <2>12, <3>2
        <5> QED
          BY <5>1 DEF Booked, RowHasSale
      <4>2. x # s
        <5>1. j \in Nat
          BY <1>1, <2>6
        <5>2. <<a, j>> # NoRow
          BY <5>1, ContractsAssumption
        <5> QED
          BY <2>4, <4>1, <5>2
      <4> QED
        BY <2>5, <4>1, <4>2
    <3> QED
      BY <3>1, <3>2
  <2>13. ASSUME NEW x \in Sale, NEW y \in Sale, NEW a \in Contract, NEW j \in Nat,
                sale'[x].row = <<a, j>>, sale'[y].row = <<a, j>>
         PROVE  x = y
    BY <2>5, <2>10, <2>13 DEF Booked, OneSale
  <2>14. \A x \in Sale, a \in Contract, j \in Nat : SaleHasRow(x, a, j)'
    BY <2>11 DEF SaleHasRow
  <2>15. \A a \in Contract : \A j \in DOMAIN schedule'[a] : RowHasSale(a, j)'
    BY <2>12 DEF RowHasSale
  <2>16. \A x, y \in Sale, a \in Contract, j \in Nat : OneSale(x, y, a, j)'
    BY <2>13 DEF OneSale
  <2> QED
    BY <2>14, <2>15, <2>16 DEF Booked
<1> QED
    BY <1>2, <1>3, <1>4, LedgerSteps

(* Two requests to recognize one row book one sale, and a row without a     *)
(* sale is PLANNED.                                                         *)
THEOREM RevenueBookedOnce == Spec => []RecognizedOnce
<1>1. Typed /\ Booked => RecognizedOnce
  <2> SUFFICES ASSUME Typed, Booked, NEW c \in Contract, NEW i \in DOMAIN schedule[c]
               PROVE  LET booked == {s \in Sale : sale[s].row = <<c, i>>}
                      IN IF schedule[c][i].status = "RECOGNIZED" THEN \E s \in Sale : booked = {s} ELSE booked = {}
    BY DEF RecognizedOnce
  <2>1. i \in Nat
    BY DEF Typed, TypeOK
  <2>2. CASE schedule[c][i].status = "RECOGNIZED"
    <3>1. PICK s \in Sale : sale[s].row = <<c, i>>
      BY <2>2 DEF Booked, RowHasSale
    <3>2. \A x \in Sale : sale[x].row = <<c, i>> => x = s
      BY <2>1, <3>1 DEF Booked, OneSale
    <3> QED
      BY <2>2, <3>1, <3>2
  <2>3. CASE schedule[c][i].status # "RECOGNIZED"
    BY <2>1, <2>3 DEF Booked, SaleHasRow
  <2> QED
    BY <2>2, <2>3
<1> QED
    BY <1>1, TypedInit, TypedNext, PlannedInit, PlannedNext, HeldInit, HeldNext, BookedInit, BookedNext, PTL DEF Spec
=============================================================================
