-------------------------- MODULE SimulationProofs --------------------------
(***************************************************************************)
(* A simulation and the store of its run, for any scenarios, costs, limits *)
(* and number of processes.                                                *)
(*                                                                         *)
(* Of a run of the simulator: its sessions add up, its controls hold, and  *)
(* its ledger and its positions tell the same result but for roundings.    *)
(* Of the store: published runs stand.  Its inductive invariant says what  *)
(* the temporary directory is at each place of create_run while nobody     *)
(* else was in it, and that a research run is alone in its directories.    *)
(***************************************************************************)
EXTENDS GammaSimulation, RunStores, FiniteSetTheorems, SequenceTheorems, WellFoundedInduction, TLAPS

(***************************************************************************)
(* Sums                                                                    *)

\* A set of naturals has a least element.
LEMMA LeastOfNaturals ==
  ASSUME NEW S \in SUBSET Nat, S # {}
  PROVE  \E m \in S : \A x \in S : m <= x
<1> DEFINE R == OpToRel(<, Nat)
<1>1. \A x, y \in Nat : x < y => <<x, y>> \in R
  BY Zenon DEF OpToRel
<1>2. IsWellFoundedOn(R, Nat)
  BY NatLessThanWellFounded
<1> HIDE DEF R
<1>3. PICK m \in S : \A x \in S : <<x, m>> \notin R
  BY <1>2, WFMin
<1>4. \A x \in S : ~(x < m)
  BY <1>1, <1>3
<1> QED
  BY <1>3, <1>4

\* The equation that Total solves.
AreSums(s, v, N) == s = [n \in 0..N |-> IF n = 0 THEN 0 ELSE s[n - 1] + v[n]]

LEMMA SumsExist ==
  ASSUME NEW N \in Nat, NEW v \in [1..N -> Int]
  PROVE  \E s \in [0..N -> Int] : AreSums(s, v, N)
<1> DEFINE Bad == {n \in 0..N : ~\E s \in [0..n -> Int] : AreSums(s, v, n)}
<1> SUFFICES ASSUME Bad # {} PROVE FALSE
  OBVIOUS
<1>1. PICK n \in Bad : \A k \in Bad : n <= k
  <2>1. Bad \in SUBSET Nat
    OBVIOUS
  <2> HIDE DEF Bad
  <2> QED
    BY <2>1, LeastOfNaturals
<1>2. n # 0
  <2> DEFINE s == [k \in 0..0 |-> 0]
  <2>1. s \in [0..0 -> Int] /\ AreSums(s, v, 0)
    BY DEF AreSums
  <2> HIDE DEF s
  <2> QED
    BY <1>1, <2>1
<1>3. n \in 1..N /\ n - 1 \in 0..N /\ n - 1 \notin Bad
  BY <1>1, <1>2
<1>4. PICK s \in [0..(n - 1) -> Int] : AreSums(s, v, n - 1)
  BY <1>3
<1> DEFINE t == [k \in 0..n |-> IF k = n THEN s[n - 1] + v[n] ELSE s[k]]
<1>5. t \in [0..n -> Int]
  BY <1>3
<1>6. \A k \in 0..n : t[k] = IF k = 0 THEN 0 ELSE t[k - 1] + v[k]
  <2>1. \A k \in 0..(n - 1) : s[k] = IF k = 0 THEN 0 ELSE s[k - 1] + v[k]
    BY <1>3, <1>4 DEF AreSums
  <2>2. \A k \in 0..(n - 1) : t[k] = s[k] /\ (k # 0 => t[k - 1] = s[k - 1])
    BY <1>3
  <2>3. t[n] = s[n - 1] + v[n] /\ t[n - 1] = s[n - 1]
    BY <1>3
  <2> HIDE DEF t
  <2> QED
    BY <1>3, <2>1, <2>2, <2>3
<1>7. AreSums(t, v, n)
  <2> HIDE DEF t
  <2> QED
    BY <1>5, <1>6 DEF AreSums
<1> HIDE DEF t
<1> QED
  BY <1>1, <1>5, <1>7

\* Sums are those of the amounts up to there.
LEMMA SumsAgree ==
  ASSUME NEW M \in Nat, NEW N \in Nat, M <= N,
         NEW v \in [1..M -> Int], NEW w \in [1..N -> Int], \A n \in 1..M : w[n] = v[n],
         NEW s \in [0..M -> Int], AreSums(s, v, M),
         NEW t \in [0..N -> Int], AreSums(t, w, N)
  PROVE  t[M] = s[M]
<1> DEFINE Bad == {n \in 0..M : t[n] # s[n]}
<1>0. M \in 0..M
  OBVIOUS
<1> SUFFICES ASSUME Bad # {} PROVE FALSE
  BY <1>0
<1>1. PICK n \in Bad : \A k \in Bad : n <= k
  <2>1. Bad \in SUBSET Nat
    OBVIOUS
  <2> HIDE DEF Bad
  <2> QED
    BY <2>1, LeastOfNaturals
<1>2. \A k \in 0..M : /\ s[k] = IF k = 0 THEN 0 ELSE s[k - 1] + v[k]
                      /\ t[k] = IF k = 0 THEN 0 ELSE t[k - 1] + w[k]
  <2>1. \A k \in 0..M : s[k] = IF k = 0 THEN 0 ELSE s[k - 1] + v[k]
    BY DEF AreSums
  <2>2. \A k \in 0..N : t[k] = IF k = 0 THEN 0 ELSE t[k - 1] + w[k]
    BY DEF AreSums
  <2>3. \A k \in 0..M : k \in 0..N
    OBVIOUS
  <2> QED
    BY <2>1, <2>2, <2>3
<1>3. n # 0 /\ n \in 1..M /\ n - 1 \in 0..M /\ n - 1 \notin Bad
  BY <1>1, <1>2
<1> QED
  BY <1>1, <1>2, <1>3

LEMMA TotalIsSum ==
  ASSUME NEW N \in Nat, NEW v \in [1..N -> Int]
  PROVE  \E s \in [0..N -> Int] : AreSums(s, v, N) /\ Total(v) = s[N]
<1>1. Len(v) = N
  <2>1. v \in Seq(Int)
    BY SeqDef
  <2> QED
    BY <2>1, LenProperties
<1>2. PICK s \in [0..N -> Int] : AreSums(s, v, N)
  BY SumsExist
<1> DEFINE Solves(u) == u = [n \in 0..N |-> IF n = 0 THEN 0 ELSE u[n - 1] + v[n]]
           u == CHOOSE u : Solves(u)
<1>3. Solves(u)
  BY <1>2 DEF AreSums
<1>4. Total(v) = u[N]
  BY <1>1 DEF Total
<1> HIDE DEF u
<1>5. AreSums(u, v, N)
  BY <1>3 DEF AreSums
<1>6. u \in [0..N -> Int]
  <2> DEFINE Bad == {n \in 0..N : u[n] # s[n]}
  <2>1. \A k \in 0..N : /\ s[k] = IF k = 0 THEN 0 ELSE s[k - 1] + v[k]
                        /\ u[k] = IF k = 0 THEN 0 ELSE u[k - 1] + v[k]
    BY <1>2, <1>5 DEF AreSums
  <2>2. ASSUME Bad # {} PROVE FALSE
    <3>1. PICK n \in Bad : \A k \in Bad : n <= k
      <4>1. Bad \in SUBSET Nat
        OBVIOUS
      <4> HIDE DEF Bad
      <4> QED
        BY <2>2, <4>1, LeastOfNaturals
    <3>2. n # 0
      BY <2>1, <3>1
    <3>3. n - 1 \in 0..N /\ n - 1 \notin Bad
      BY <3>1, <3>2
    <3> QED
      BY <2>1, <3>1, <3>2, <3>3
  <2> QED
    BY <1>3, <2>2
<1> QED
  BY <1>4, <1>5, <1>6

LEMMA TotalTyped ==
  ASSUME NEW N \in Nat, NEW v \in [1..N -> Int]
  PROVE  Total(v) \in Int
BY TotalIsSum

LEMMA TotalOfNone ==
  ASSUME NEW v \in [1..0 -> Int]
  PROVE  Total(v) = 0
<1>1. PICK s \in [0..0 -> Int] : AreSums(s, v, 0) /\ Total(v) = s[0]
  <2> HIDE DEF AreSums
  <2>1. 0 \in Nat
    OBVIOUS
  <2> QED
    BY <2>1, TotalIsSum, Zenon
<1> QED
  BY <1>1 DEF AreSums

\* One more amount.
LEMMA TotalOfMore ==
  ASSUME NEW N \in Nat, NEW v \in [1..N -> Int], NEW w \in [1..(N + 1) -> Int],
         \A n \in 1..N : w[n] = v[n]
  PROVE  Total(w) = Total(v) + w[N + 1]
<1>1. PICK s \in [0..N -> Int] : AreSums(s, v, N) /\ Total(v) = s[N]
  BY TotalIsSum
<1>2. N + 1 \in Nat /\ N <= N + 1
  OBVIOUS
<1>3. PICK t \in [0..(N + 1) -> Int] : AreSums(t, w, N + 1) /\ Total(w) = t[N + 1]
  BY <1>2, TotalIsSum, Zenon
<1>4. t[N] = s[N]
  BY <1>1, <1>2, <1>3, SumsAgree, Zenon
<1>5. t[N + 1] = t[N] + w[N + 1]
  BY <1>3 DEF AreSums
<1> QED
  BY <1>1, <1>3, <1>4, <1>5

\* Two more, as a fill appends to the ledger.
LEMMA TotalOfTwoMore ==
  ASSUME NEW N \in Nat, NEW v \in [1..N -> Int], NEW w \in [1..(N + 2) -> Int],
         \A n \in 1..N : w[n] = v[n]
  PROVE  Total(w) = Total(v) + w[N + 1] + w[N + 2]
<1> DEFINE u == [n \in 1..(N + 1) |-> w[n]]
<1>1. u \in [1..(N + 1) -> Int] /\ (\A n \in 1..N : u[n] = v[n]) /\ u[N + 1] = w[N + 1]
      /\ \A n \in 1..(N + 1) : w[n] = u[n]
  OBVIOUS
<1> HIDE DEF u
<1>2. Total(u) = Total(v) + w[N + 1]
  BY <1>1, TotalOfMore
<1>3. Total(w) = Total(u) + w[(N + 1) + 1]
  <2>1. N + 1 \in Nat /\ w \in [1..((N + 1) + 1) -> Int]
    OBVIOUS
  <2> QED
    BY <1>1, <2>1, TotalOfMore
<1>4. (N + 1) + 1 = N + 2
  OBVIOUS
<1> QED
  BY <1>2, <1>3, <1>4

(***************************************************************************)
(* Rounding, fills and positions                                           *)

LEMMA AbsTyped ==
  ASSUME NEW n \in Int
  PROVE  Abs(n) \in Nat /\ (n # 0 => Abs(n) > 0)
BY DEF Abs

\* A rounding is off by half a unit at most.
LEMMA Rounded ==
  ASSUME NEW n \in Int, NEW d \in Nat \ {0}
  PROVE  /\ RoundHalfEven(n, d) \in Int
         /\ 2 * (d * RoundHalfEven(n, d) - n) <= d
         /\ 2 * (n - d * RoundHalfEven(n, d)) <= d
<1> DEFINE q == n \div d
           r == n % d
           k == RoundHalfEven(n, d)
<1>1. q \in Int /\ r \in Int /\ n = d * q + r /\ 0 <= r /\ r < d
  OBVIOUS
<1>2. \/ k = q /\ 2 * r <= d
      \/ k = q + 1 /\ 2 * r >= d
  <2>1. k = IF 2 * r < d \/ (2 * r = d /\ q % 2 = 0) THEN q ELSE q + 1
    BY DEF RoundHalfEven
  <2> HIDE DEF q, r, k
  <2> QED
    BY <1>1, <2>1
<1> HIDE DEF q, r, k
<1>3. CASE k = q /\ 2 * r <= d
  <2>1. d * k - n = -r
    BY <1>1, <1>3
  <2> QED
    BY <1>1, <1>3, <2>1 DEF k
<1>4. CASE k = q + 1 /\ 2 * r >= d
  <2>1. d * k = d * q + d
    BY <1>1, <1>4
  <2>2. d * q \in Int
    BY <1>1
  <2> QED
    BY <1>1, <1>4, <2>1, <2>2 DEF k
<1> QED
  BY <1>2, <1>3, <1>4

LEMMA MoneyRounded ==
  ASSUME NEW price \in Int
  PROVE  /\ Money(price) \in Int
         /\ 10 * Money(price) - price <= 5
         /\ price - 10 * Money(price) <= 5
<1>1. Money(price) = RoundHalfEven(price, 10) /\ 10 \in Nat \ {0}
  BY DEF Money, Parts
<1> DEFINE m == RoundHalfEven(price, 10)
<1>2. m \in Int /\ 2 * (10 * m - price) <= 10 /\ 2 * (price - 10 * m) <= 10
  BY <1>1, Rounded, Zenon
<1> HIDE DEF m
<1>3. 10 * m - price <= 5 /\ price - 10 * m <= 5
  BY <1>2
<1> QED
  BY <1>1, <1>2, <1>3 DEF m

\* What a fill is recorded with: its cash differs from price times units by a paisa
\* for each unit at most.
LEMMA FillRounded ==
  ASSUME NEW i, NEW change \in Int, change # 0, NEW multiplier \in Nat \ {0},
         NEW reference \in Nat, NEW costs \in {Costs.option, Costs.futures}
  PROVE  LET f == Fill(i, change, multiplier, reference, costs)
             units == Abs(change) * multiplier
         IN  /\ f.instrument = i /\ f.change = change /\ f.multiplier = multiplier
             /\ f.price \in Int /\ f.gross \in Int /\ f.cost \in Int
             /\ f.gross - f.price * units <= units
             /\ f.price * units - f.gross <= units
<1> DEFINE units == Abs(change) * multiplier
           f == Fill(i, change, multiplier, reference, costs)
           price == Money(reference)
           gross == Money(reference * units)
<1>1. units \in Nat /\ units >= 1
  <2>1. Abs(change) \in Nat /\ Abs(change) >= 1
    BY AbsTyped
  <2> HIDE DEF units
  <2>2. units = Abs(change) * multiplier
    BY DEF units
  <2>3. Abs(change) * multiplier \in Nat /\ Abs(change) * multiplier >= 1
    <3> DEFINE a == Abs(change)
    <3> HIDE DEF a
    <3> SUFFICES ASSUME a \in Nat, a >= 1 PROVE a * multiplier \in Nat /\ a * multiplier >= 1
      BY <2>1 DEF a
    <3> QED
      BY SMT
  <2> QED
    BY <2>2, <2>3
<1> HIDE DEF units
<1>2. price \in Int /\ 10 * price - reference <= 5 /\ reference - 10 * price <= 5
  BY MoneyRounded
<1>3. /\ gross \in Int /\ reference * units \in Int
      /\ 10 * gross - reference * units <= 5 /\ reference * units - 10 * gross <= 5
  <2>1. reference * units \in Int
    BY <1>1
  <2> QED
    BY <2>1, MoneyRounded
<1>4. f.cost \in Int
  <2>1. /\ costs.half_spread \in Int /\ costs.slippage \in Int
        /\ costs.rate_bps \in Int /\ costs.fixed \in Int
    BY SimulationAssumption
  <2>2. costs.half_spread * units \in Int /\ costs.slippage * units \in Int /\ costs.rate_bps * gross \in Int
    BY <1>1, <1>3, <2>1
  <2>3. /\ Money(costs.half_spread * units) \in Int /\ Money(costs.slippage * units) \in Int
        /\ RoundHalfEven(costs.rate_bps * gross, 10000) \in Int /\ Money(costs.fixed) \in Int
    <3> DEFINE points == 10000
    <3>1. points \in Nat \ {0}
      OBVIOUS
    <3> HIDE DEF points
    <3> DEFINE spread == costs.half_spread * units
               slippage == costs.slippage * units
               rate == costs.rate_bps * gross
    <3>2. spread \in Int /\ slippage \in Int /\ rate \in Int /\ costs.fixed \in Int
      BY <2>1, <2>2
    <3> HIDE DEF spread, slippage, rate, f, gross, price
    <3>3. RoundHalfEven(rate, points) \in Int
      BY <3>1, <3>2, Rounded, Zenon
    <3>4. Money(spread) \in Int /\ Money(slippage) \in Int /\ Money(costs.fixed) \in Int
      BY <3>2, MoneyRounded, Zenon
    <3> QED
      BY <3>3, <3>4 DEF spread, slippage, rate, points
  <2>4. f.cost = Money(costs.half_spread * units) + Money(costs.slippage * units)
                 + RoundHalfEven(costs.rate_bps * gross, 10000) + Money(costs.fixed)
    BY DEF Fill, units
  <2> HIDE DEF f, gross
  <2> QED
    BY <2>3, <2>4
<1>5. /\ f.instrument = i /\ f.change = change /\ f.multiplier = multiplier
      /\ f.price = price /\ f.gross = gross
  BY DEF Fill, units
<1> HIDE DEF price, gross, f
<1>6. /\ price * units \in Int
      /\ 10 * (price * units) - reference * units <= 5 * units
      /\ reference * units - 10 * (price * units) <= 5 * units
  BY <1>1, <1>2
<1>7. gross - price * units <= units /\ price * units - gross <= units
  <2> DEFINE a == price * units
             b == reference * units
  <2>1. a \in Int /\ b \in Int /\ 10 * a - b <= 5 * units /\ b - 10 * a <= 5 * units
        /\ 10 * gross - b <= 5 /\ b - 10 * gross <= 5
    BY <1>3, <1>6
  <2> HIDE DEF a, b
  <2>2. gross - a <= units /\ a - gross <= units
    BY <1>1, <1>3, <2>1
  <2> QED
    BY <2>2 DEF a
<1> QED
  BY <1>2, <1>3, <1>4, <1>5, <1>7 DEF f, units

\* A fill that adds: the average is off by half a paisa for each unit held at most.
LEMMA Adding ==
  ASSUME NEW q \in Int, NEW c \in Int, c # 0, q * c >= 0, NEW price \in Int, NEW average \in Int
  PROVE  LET new == q + c
             a == RoundHalfEven(average * Abs(q) + price * Abs(c), Abs(new))
         IN  /\ a \in Int
             /\ a * new - (average * q + price * c) <= Abs(new)
             /\ (average * q + price * c) - a * new <= Abs(new)
<1> DEFINE new == q + c
           sum == average * Abs(q) + price * Abs(c)
           a == RoundHalfEven(sum, Abs(new))
<1>1. \/ q >= 0 /\ c > 0
      \/ q <= 0 /\ c < 0
  BY SMT
<1>2. new # 0 /\ Abs(new) \in Nat \ {0} /\ Abs(q) \in Int /\ Abs(c) \in Int
  <2>1. new \in Int /\ new # 0
    BY <1>1
  <2> HIDE DEF new
  <2> QED
    BY <2>1, AbsTyped
<1>3. sum \in Int
  BY <1>2
<1> HIDE DEF sum, new
<1>4. /\ a \in Int
      /\ 2 * (Abs(new) * a - sum) <= Abs(new) /\ 2 * (sum - Abs(new) * a) <= Abs(new)
  BY <1>2, <1>3, Rounded
<1> HIDE DEF a
<1>5. Abs(new) * a \in Int
  BY <1>2, <1>4
<1>6. CASE q >= 0 /\ c > 0
  <2>1. Abs(q) = q /\ Abs(c) = c /\ Abs(new) = new /\ new \in Int
    BY <1>6 DEF Abs, new
  <2>2. sum = average * q + price * c
    BY <2>1 DEF sum
  <2>3. Abs(new) * a = a * new
    BY <1>4, <2>1
  <2> QED
    BY <1>2, <1>3, <1>4, <1>5, <2>2, <2>3 DEF a, sum, new
<1>7. CASE q <= 0 /\ c < 0
  <2>1. Abs(q) = -q /\ Abs(c) = -c /\ Abs(new) = -new /\ new \in Int
    BY <1>7 DEF Abs, new
  <2>2. average * q \in Int /\ price * c \in Int /\ a * new \in Int
    BY <1>4, <2>1
  <2>3. average * (-q) = -(average * q) /\ price * (-c) = -(price * c)
    OBVIOUS
  <2>4. sum = -(average * q + price * c)
    BY <2>1, <2>2, <2>3 DEF sum
  <2>5. Abs(new) * a = -(a * new)
    BY <1>4, <2>1
  <2> QED
    BY <1>2, <1>3, <1>4, <1>5, <2>2, <2>4, <2>5 DEF a, sum, new
<1> QED
  BY <1>1, <1>6, <1>7

Position == [quantity : Int, multiplier : Nat, average : Int, mark : Int, realized : Int]

\* What a position cost and has realized grows by the price of a fill times its change,
\* but for the rounding of the average (apply_fill).
LEMMA FillApplied ==
  ASSUME NEW p \in Position, NEW M \in Nat \ {0}, NEW f,
         f.change \in Int, f.change # 0, f.price \in Int, f.multiplier = M
  PROVE  LET new == ApplyFill(p, f)
         IN  /\ new \in Position
             /\ new.quantity = p.quantity + f.change /\ new.multiplier = M /\ new.mark = f.price
             /\ \E won, error \in Int :
                  /\ new.realized = p.realized + won * M
                  /\ new.average * new.quantity = p.average * p.quantity + f.price * f.change + won + error
                  /\ error <= Abs(new.quantity) /\ -error <= Abs(new.quantity)
<1> DEFINE n == ApplyFill(p, f)
           q == p.quantity
           c == f.change
           price == f.price
           average == p.average
           closed == IF Abs(q) < Abs(c) THEN Abs(q) ELSE Abs(c)
           sum == average * Abs(q) + price * Abs(c)
<1>1. /\ q \in Int /\ c \in Int /\ c # 0 /\ price \in Int /\ average \in Int /\ p.realized \in Int
      /\ Abs(q) \in Nat /\ Abs(c) \in Nat
  BY AbsTyped DEF Position
<1>2. /\ n = [quantity |-> n.quantity, multiplier |-> n.multiplier, mark |-> n.mark,
              average |-> n.average, realized |-> n.realized]
      /\ n.quantity = q + c /\ n.multiplier = M /\ n.mark = price
      /\ q * c >= 0 => n.average = RoundHalfEven(sum, Abs(q + c)) /\ n.realized = p.realized + 0
      /\ ~(q * c >= 0) =>
           /\ n.average = IF q + c = 0 THEN 0 ELSE IF q * (q + c) < 0 THEN price ELSE average
           /\ n.realized = p.realized + (price - average) * closed * M * (IF q > 0 THEN 1 ELSE -1)
  BY DEF ApplyFill
<1> HIDE DEF q, c, price, average, n
<1>3. ASSUME n.average \in Int, n.realized \in Int PROVE n \in Position
  BY <1>1, <1>2, <1>3 DEF Position
<1>4. CASE q * c >= 0
  <2>1. /\ n.average \in Int
        /\ n.average * (q + c) - (average * q + price * c) <= Abs(q + c)
        /\ (average * q + price * c) - n.average * (q + c) <= Abs(q + c)
    BY <1>1, <1>2, <1>4, Adding
  <2> DEFINE error == n.average * (q + c) - (average * q + price * c)
  <2>2. n.average * (q + c) \in Int /\ average * q \in Int /\ price * c \in Int /\ Abs(q + c) \in Int
    BY <1>1, <2>1, AbsTyped
  <2>3. error \in Int /\ 0 \in Int /\ n.realized = p.realized + 0 * M /\ n.realized \in Int
    BY <1>1, <1>2, <1>4, <2>2
  <2>4. n.average * (q + c) = average * q + price * c + 0 + error
        /\ error <= Abs(q + c) /\ -error <= Abs(q + c)
    BY <2>1, <2>2
  <2> HIDE DEF error
  <2> QED
    BY <1>2, <1>3, <2>1, <2>3, <2>4 DEF n, q, c, price, average
<1>5. CASE ~(q * c >= 0)
  <2> DEFINE side == IF q > 0 THEN 1 ELSE -1
             won == (price - average) * closed * side
  <2>1. /\ closed \in Int /\ (price - average) * closed \in Int /\ won \in Int
    BY <1>1
  <2>2. n.realized = p.realized + won * M
    <3> DEFINE x == (price - average) * closed
    <3>1. n.realized = p.realized + x * M * side
      BY <1>2, <1>5
    <3>2. x \in Int
      BY <2>1
    <3> HIDE DEF x
    <3>3. x * M * side = (x * side) * M
      <4>1. x * M \in Int
        BY <3>2
      <4>2. CASE q > 0
        BY <3>2, <4>1, <4>2
      <4>3. CASE ~(q > 0)
        <5>1. x * M * side = -(x * M) /\ (x * side) = -x
          BY <3>2, <4>1, <4>3
        <5>2. (-x) * M = -(x * M)
          BY <3>2
        <5> QED
          BY <5>1, <5>2
      <4> QED
        BY <4>2, <4>3
    <3> QED
      BY <3>1, <3>3 DEF x
  <2>3. \/ q > 0 /\ c < 0 /\ q + c = 0 /\ closed * side = q /\ n.average = 0
        \/ q < 0 /\ c > 0 /\ q + c = 0 /\ closed * side = q /\ n.average = 0
        \/ q + c # 0 /\ closed * side = -c /\ n.average = average
        \/ q + c # 0 /\ closed * side = q /\ n.average = price
    <3>1. \/ q > 0 /\ c < 0
          \/ q < 0 /\ c > 0
      BY <1>1, <1>5
    <3>2. CASE q > 0 /\ c < 0
      <4>1. Abs(q) = q /\ Abs(c) = -c /\ side = 1 /\ closed * side = closed
        BY <1>1, <3>2 DEF Abs
      <4>2. CASE q + c = 0
        <5>1. n.average = 0
          BY <1>2, <1>5, <4>2
        <5>2. closed = q
          BY <1>1, <3>2, <4>1, <4>2
        <5>3. closed * side = q
          BY <1>1, <4>1, <5>2
        <5> QED
          BY <3>2, <4>2, <5>1, <5>3
      <4>3. CASE q + c > 0
        <5>1. ~(q * (q + c) < 0)
          BY <1>1, <3>2, <4>3
        <5> QED
          BY <1>1, <1>2, <1>5, <3>2, <4>1, <4>3, <5>1
      <4>4. CASE q + c < 0
        <5>1. q * (q + c) < 0
          BY <1>1, <3>2, <4>4
        <5> QED
          BY <1>1, <1>2, <1>5, <3>2, <4>1, <4>4, <5>1
      <4> QED
        BY <1>1, <4>2, <4>3, <4>4
    <3>3. CASE q < 0 /\ c > 0
      <4>1. Abs(q) = -q /\ Abs(c) = c /\ side = -1 /\ closed * side = -closed
        BY <1>1, <2>1, <3>3 DEF Abs
      <4>2. CASE q + c = 0
        <5>1. n.average = 0
          BY <1>2, <1>5, <4>2
        <5>2. closed = -q
          BY <1>1, <3>3, <4>1, <4>2
        <5>3. closed * side = q
          BY <1>1, <4>1, <5>2
        <5> QED
          BY <3>3, <4>2, <5>1, <5>3
      <4>3. CASE q + c < 0
        <5>1. ~(q * (q + c) < 0)
          BY <1>1, <3>3, <4>3
        <5> QED
          BY <1>1, <1>2, <1>5, <3>3, <4>1, <4>3, <5>1
      <4>4. CASE q + c > 0
        <5>1. q * (q + c) < 0
          BY <1>1, <3>3, <4>4
        <5> QED
          BY <1>1, <1>2, <1>5, <3>3, <4>1, <4>4, <5>1
      <4> QED
        BY <1>1, <4>2, <4>3, <4>4
    <3> QED
      BY <3>1, <3>2, <3>3
  <2>4. won = (price - average) * (closed * side)
    BY <1>1, <2>1
  <2> HIDE DEF closed, side, won
  <2>5. n.average * (q + c) = average * q + price * c + won + 0
    <3>1. CASE q + c = 0 /\ closed * side = q /\ n.average = 0
      <4>1. c = -q
        BY <1>1, <3>1
      <4>2. price * c = -(price * q) /\ won = price * q - average * q
        BY <1>1, <2>4, <3>1, <4>1
      <4>3. average * q \in Int /\ price * q \in Int
        BY <1>1
      <4> QED
        BY <3>1, <4>2, <4>3
    <3>2. CASE closed * side = -c /\ n.average = average
      <4>1. won = average * c - price * c /\ average * (q + c) = average * q + average * c
        BY <1>1, <2>4, <3>2
      <4>2. average * q \in Int /\ price * c \in Int /\ average * c \in Int
        BY <1>1
      <4> QED
        BY <3>2, <4>1, <4>2
    <3>3. CASE closed * side = q /\ n.average = price
      <4>1. won = price * q - average * q /\ price * (q + c) = price * q + price * c
        BY <1>1, <2>4, <3>3
      <4>2. average * q \in Int /\ price * c \in Int /\ price * q \in Int
        BY <1>1
      <4> QED
        BY <3>3, <4>1, <4>2
    <3> QED
      BY <2>3, <3>1, <3>2, <3>3
  <2>6. n.average \in Int /\ n.realized \in Int
    <3>1. won * M \in Int
      BY <2>1 DEF won
    <3> QED
      BY <1>1, <2>2, <2>3, <3>1
  <2>7. 0 <= Abs(q + c) /\ -0 <= Abs(q + c) /\ 0 \in Int
    BY <1>1, AbsTyped
  <2> QED
    BY <1>2, <1>3, <2>1, <2>2, <2>5, <2>6, <2>7 DEF n, q, c, price, average, won
<1> QED
  BY <1>4, <1>5

(***************************************************************************)
(* The ledger                                                              *)

Types == {"initial_capital", "option_entry", "futures_hedge", "close", "transaction_cost"}
Entries == [type : Types, instrument : Traded \cup {"none"}, change : Int, cash : Int, cost : Int]

LEMMA TwoAppended ==
  ASSUME NEW L \in Seq(Entries), NEW a \in Entries, NEW b \in Entries
  PROVE  /\ L \o <<a, b>> \in Seq(Entries) /\ Len(L) \in Nat
         /\ DOMAIN L = 1..Len(L) /\ DOMAIN (L \o <<a, b>>) = 1..(Len(L) + 2)
         /\ \A n \in 1..Len(L) : (L \o <<a, b>>)[n] = L[n] /\ L[n] \in Entries
         /\ (L \o <<a, b>>)[Len(L) + 1] = a /\ (L \o <<a, b>>)[Len(L) + 2] = b
         /\ Len(L \o <<a, b>>) = Len(L) + 2
<1> HIDE DEF Entries
<1>1. <<a, b>> \in Seq(Entries) /\ Len(<<a, b>>) = 2 /\ <<a, b>>[1] = a /\ <<a, b>>[2] = b
  OBVIOUS
<1>2. Len(L) \in Nat /\ DOMAIN L = 1..Len(L) /\ \A n \in 1..Len(L) : L[n] \in Entries
  BY LenProperties
<1> DEFINE M == L \o <<a, b>>
<1>3. /\ M \in Seq(Entries) /\ Len(M) = Len(L) + 2
      /\ \A n \in 1..(Len(L) + 2) : M[n] = IF n <= Len(L) THEN L[n] ELSE <<a, b>>[n - Len(L)]
  BY <1>1, ConcatProperties
<1>4. DOMAIN M = 1..(Len(L) + 2)
  BY <1>3, LenProperties
<1> HIDE DEF M
<1>5. /\ \A n \in 1..Len(L) : M[n] = L[n]
      /\ M[Len(L) + 1] = <<a, b>>[1] /\ M[Len(L) + 2] = <<a, b>>[2]
  BY <1>2, <1>3
<1> QED
  BY <1>1, <1>2, <1>3, <1>4, <1>5 DEF M

\* A sum over the entries grows by what it takes from the two of them.
Amounts(ledger, v) == Total([n \in DOMAIN ledger |-> v[ledger[n]]])

LEMMA AmountsAppended ==
  ASSUME NEW L \in Seq(Entries), NEW a \in Entries, NEW b \in Entries, NEW v \in [Entries -> Int]
  PROVE  /\ Amounts(L, v) \in Int
         /\ Amounts(L \o <<a, b>>, v) = Amounts(L, v) + v[a] + v[b]
<1> DEFINE M == L \o <<a, b>>
           N == Len(L)
           before == [n \in DOMAIN L |-> v[L[n]]]
           after == [n \in DOMAIN M |-> v[M[n]]]
<1>1. /\ N \in Nat /\ DOMAIN L = 1..N /\ DOMAIN M = 1..(N + 2)
      /\ \A n \in 1..N : M[n] = L[n] /\ L[n] \in Entries
      /\ M[N + 1] = a /\ M[N + 2] = b
  BY TwoAppended
<1> HIDE DEF M, N, Entries
<1>2. before \in [1..N -> Int]
  BY <1>1
<1>3. \A n \in 1..(N + 2) : n \in 1..N \/ n = N + 1 \/ n = N + 2
  BY <1>1
<1>4. after \in [1..(N + 2) -> Int] /\ \A n \in 1..(N + 2) : after[n] = v[M[n]]
  BY <1>1, <1>3
<1>5. N + 1 \in 1..(N + 2) /\ N + 2 \in 1..(N + 2) /\ \A n \in 1..N : n \in 1..(N + 2)
  BY <1>1
<1>6. (\A n \in 1..N : after[n] = before[n]) /\ after[N + 1] = v[a] /\ after[N + 2] = v[b]
  BY <1>1, <1>4, <1>5
<1> HIDE DEF before, after
<1>7. Total(before) \in Int /\ Total(after) = Total(before) + after[N + 1] + after[N + 2]
  BY <1>1, <1>2, <1>4, <1>6, TotalTyped, TotalOfTwoMore
<1> QED
  BY <1>6, <1>7 DEF before, after, M, Amounts

\* The cash of the fills, the fills of an instrument, and the units that its roundings
\* are counted in.
TradeCash(ledger) == Total([n \in DOMAIN ledger |-> IF ledger[n].change # 0 THEN ledger[n].cash ELSE 0])
TradesOf(ledger, i) ==
  Total([n \in DOMAIN ledger |-> IF IsTrade(ledger[n], i) THEN ledger[n].cash ELSE 0])
HeldOf(ledger, i) == Held(ledger, i, Len(ledger))
RoundingUnits(ledger, i) ==
  Total([n \in DOMAIN ledger |->
    IF IsTrade(ledger[n], i) THEN Abs(ledger[n].change) + Abs(Held(ledger, i, n)) ELSE 0])

LEMMA CashAppended ==
  ASSUME NEW L \in Seq(Entries), NEW a \in Entries, NEW b \in Entries
  PROVE  LET M == L \o <<a, b>>
         IN  /\ Cash(L) \in Int /\ TransactionCosts(L) \in Int /\ TradeCash(L) \in Int
             /\ Cash(M) = Cash(L) + a.cash + b.cash
             /\ TransactionCosts(M) = TransactionCosts(L) + a.cost + b.cost
             /\ TradeCash(M) = TradeCash(L) + (IF a.change # 0 THEN a.cash ELSE 0)
                                            + (IF b.change # 0 THEN b.cash ELSE 0)
<1> DEFINE M == L \o <<a, b>>
           cash == [e \in Entries |-> e.cash]
           cost == [e \in Entries |-> e.cost]
           trade == [e \in Entries |-> IF e.change # 0 THEN e.cash ELSE 0]
<1>1. cash \in [Entries -> Int] /\ cost \in [Entries -> Int] /\ trade \in [Entries -> Int]
  BY DEF Entries
<1>2. (\A n \in DOMAIN L : L[n] \in Entries) /\ (\A n \in DOMAIN M : M[n] \in Entries)
  <2>1. L \in Seq(Entries) /\ M \in Seq(Entries)
    BY TwoAppended
  <2> HIDE DEF M, Entries
  <2> QED
    BY <2>1, LenProperties
<1> HIDE DEF M, Entries
<1>3. /\ Cash(L) = Amounts(L, cash)
      /\ Cash(M) = Amounts(M, cash)
  <2>1. /\ [n \in DOMAIN L |-> cash[L[n]]] = [n \in DOMAIN L |-> L[n].cash]
        /\ [n \in DOMAIN M |-> cash[M[n]]] = [n \in DOMAIN M |-> M[n].cash]
    BY <1>2
  <2> QED
    BY <2>1, Zenon DEF Cash, Amounts
<1>4. /\ TransactionCosts(L) = Amounts(L, cost)
      /\ TransactionCosts(M) = Amounts(M, cost)
  <2>1. /\ [n \in DOMAIN L |-> cost[L[n]]] = [n \in DOMAIN L |-> L[n].cost]
        /\ [n \in DOMAIN M |-> cost[M[n]]] = [n \in DOMAIN M |-> M[n].cost]
    BY <1>2
  <2> QED
    BY <2>1, Zenon DEF TransactionCosts, Amounts
<1>5. /\ TradeCash(L) = Amounts(L, trade)
      /\ TradeCash(M) = Amounts(M, trade)
  <2>1. /\ [n \in DOMAIN L |-> trade[L[n]]] = [n \in DOMAIN L |-> IF L[n].change # 0 THEN L[n].cash ELSE 0]
        /\ [n \in DOMAIN M |-> trade[M[n]]] = [n \in DOMAIN M |-> IF M[n].change # 0 THEN M[n].cash ELSE 0]
    BY <1>2
  <2> QED
    BY <2>1, Zenon DEF TradeCash, Amounts
<1>6. /\ cash[a] = a.cash /\ cash[b] = b.cash /\ cost[a] = a.cost /\ cost[b] = b.cost
      /\ trade[a] = (IF a.change # 0 THEN a.cash ELSE 0)
      /\ trade[b] = (IF b.change # 0 THEN b.cash ELSE 0)
  OBVIOUS
<1> HIDE DEF cash, cost, trade
<1>7. Cash(L) \in Int /\ Cash(M) = Cash(L) + cash[a] + cash[b]
  BY <1>1, <1>3, AmountsAppended DEF M
<1>8. TransactionCosts(L) \in Int /\ TransactionCosts(M) = TransactionCosts(L) + cost[a] + cost[b]
  BY <1>1, <1>4, AmountsAppended DEF M
<1>9. TradeCash(L) \in Int /\ TradeCash(M) = TradeCash(L) + trade[a] + trade[b]
  BY <1>1, <1>5, AmountsAppended DEF M
<1> QED
  BY <1>6, <1>7, <1>8, <1>9 DEF M

LEMMA TradesAppended ==
  ASSUME NEW L \in Seq(Entries), NEW a \in Entries, NEW b \in Entries, NEW i \in Traded
  PROVE  LET M == L \o <<a, b>>
         IN  /\ TradesOf(L, i) \in Int /\ HeldOf(L, i) \in Int
             /\ TradesOf(M, i) = TradesOf(L, i) + (IF IsTrade(a, i) THEN a.cash ELSE 0)
                                                + (IF IsTrade(b, i) THEN b.cash ELSE 0)
             /\ HeldOf(M, i) = HeldOf(L, i) + (IF IsTrade(a, i) THEN a.change ELSE 0)
                                            + (IF IsTrade(b, i) THEN b.change ELSE 0)
<1> DEFINE M == L \o <<a, b>>
           cash == [e \in Entries |-> IF IsTrade(e, i) THEN e.cash ELSE 0]
           change == [e \in Entries |-> IF IsTrade(e, i) THEN e.change ELSE 0]
<1>1. cash \in [Entries -> Int] /\ change \in [Entries -> Int]
  BY DEF Entries
<1>2. (\A n \in DOMAIN L : L[n] \in Entries) /\ (\A n \in DOMAIN M : M[n] \in Entries)
      /\ DOMAIN L = 1..Len(L) /\ DOMAIN M = 1..Len(M)
  <2>1. L \in Seq(Entries) /\ M \in Seq(Entries)
    BY TwoAppended
  <2> HIDE DEF M, Entries
  <2> QED
    BY <2>1, LenProperties
<1> HIDE DEF M, Entries
<1>3. /\ TradesOf(L, i) = Amounts(L, cash)
      /\ TradesOf(M, i) = Amounts(M, cash)
  <2>1. /\ [n \in DOMAIN L |-> cash[L[n]]] = [n \in DOMAIN L |-> IF IsTrade(L[n], i) THEN L[n].cash ELSE 0]
        /\ [n \in DOMAIN M |-> cash[M[n]]] = [n \in DOMAIN M |-> IF IsTrade(M[n], i) THEN M[n].cash ELSE 0]
    BY <1>2
  <2> QED
    BY <2>1, Zenon DEF TradesOf, Amounts
<1>4. /\ HeldOf(L, i) = Amounts(L, change)
      /\ HeldOf(M, i) = Amounts(M, change)
  <2>1. /\ [n \in DOMAIN L |-> change[L[n]]] = [n \in 1..Len(L) |-> IF IsTrade(L[n], i) THEN L[n].change ELSE 0]
        /\ [n \in DOMAIN M |-> change[M[n]]] = [n \in 1..Len(M) |-> IF IsTrade(M[n], i) THEN M[n].change ELSE 0]
    BY <1>2
  <2> QED
    BY <2>1, Zenon DEF HeldOf, Held, Amounts
<1>5. /\ cash[a] = (IF IsTrade(a, i) THEN a.cash ELSE 0)
      /\ cash[b] = (IF IsTrade(b, i) THEN b.cash ELSE 0)
      /\ change[a] = (IF IsTrade(a, i) THEN a.change ELSE 0)
      /\ change[b] = (IF IsTrade(b, i) THEN b.change ELSE 0)
  OBVIOUS
<1> HIDE DEF cash, change
<1>6. TradesOf(L, i) \in Int /\ TradesOf(M, i) = TradesOf(L, i) + cash[a] + cash[b]
  BY <1>1, <1>3, AmountsAppended DEF M
<1>7. HeldOf(L, i) \in Int /\ HeldOf(M, i) = HeldOf(L, i) + change[a] + change[b]
  BY <1>1, <1>4, AmountsAppended DEF M
<1> QED
  BY <1>5, <1>6, <1>7 DEF M

\* What was held before does not change with the ledger.
LEMMA HeldBefore ==
  ASSUME NEW L \in Seq(Entries), NEW a \in Entries, NEW b \in Entries, NEW i \in Traded
  PROVE  LET M == L \o <<a, b>>
         IN  /\ \A n \in 0..Len(L) : Held(M, i, n) = Held(L, i, n) /\ Held(L, i, n) \in Int
             /\ Held(M, i, Len(L) + 1) = HeldOf(L, i) + (IF IsTrade(a, i) THEN a.change ELSE 0)
<1> DEFINE M == L \o <<a, b>>
           N == Len(L)
           of(ledger, n) == [m \in 1..n |-> IF IsTrade(ledger[m], i) THEN ledger[m].change ELSE 0]
<1>1. /\ N \in Nat /\ \A n \in 1..N : M[n] = L[n] /\ L[n] \in Entries
      /\ M[N + 1] = a
  BY TwoAppended
<1>2. \A e \in Entries : (IF IsTrade(e, i) THEN e.change ELSE 0) \in Int
  BY DEF Entries
<1> HIDE DEF M, N, Entries
<1>3. ASSUME NEW n \in 0..N
      PROVE  of(M, n) = of(L, n) /\ of(L, n) \in [1..n -> Int]
  <2>1. \A m \in 1..n : m \in 1..N
    BY <1>1
  <2> QED
    BY <1>1, <1>2, <2>1
<1>4. \A ledger, n : Held(ledger, i, n) = Total(of(ledger, n))
  BY DEF Held
<1>5. N + 1 \in Nat /\ of(M, N + 1) \in [1..(N + 1) -> Int]
      /\ (\A n \in 1..N : of(M, N + 1)[n] = of(L, N)[n])
      /\ of(M, N + 1)[N + 1] = (IF IsTrade(a, i) THEN a.change ELSE 0)
  <2>1. \A m \in 1..(N + 1) : m \in 1..N \/ m = N + 1
    BY <1>1
  <2>2. \A m \in 1..N : m \in 1..(N + 1)
    BY <1>1
  <2> QED
    BY <1>1, <1>2, <2>1, <2>2
<1>6. of(L, N) \in [1..N -> Int]
  BY <1>1, <1>3
<1> HIDE DEF of
<1>7. Total(of(M, N + 1)) = Total(of(L, N)) + of(M, N + 1)[N + 1]
  BY <1>1, <1>5, <1>6, TotalOfMore
<1>8. \A n \in 0..N : Held(M, i, n) = Held(L, i, n) /\ Held(L, i, n) \in Int
  <2> SUFFICES ASSUME NEW n \in 0..N PROVE Held(M, i, n) = Held(L, i, n) /\ Held(L, i, n) \in Int
    OBVIOUS
  <2>1. n \in Nat
    BY <1>1
  <2>2. Total(of(L, n)) \in Int
    BY <1>3, <2>1, TotalTyped
  <2> QED
    BY <1>3, <1>4, <2>2
<1> QED
  BY <1>4, <1>5, <1>7, <1>8 DEF HeldOf, M, N

LEMMA RoundingUnitsAppended ==
  ASSUME NEW L \in Seq(Entries), NEW a \in Entries, NEW b \in Entries, NEW i \in Traded,
         ~IsTrade(b, i)
  PROVE  LET M == L \o <<a, b>>
         IN  /\ RoundingUnits(L, i) \in Int
             /\ RoundingUnits(M, i) = RoundingUnits(L, i)
                  + (IF IsTrade(a, i) THEN Abs(a.change) + Abs(HeldOf(M, i)) ELSE 0)
<1> DEFINE M == L \o <<a, b>>
           N == Len(L)
           of(ledger, n) == IF IsTrade(ledger[n], i)
                            THEN Abs(ledger[n].change) + Abs(Held(ledger, i, n)) ELSE 0
           before == [n \in 1..N |-> of(L, n)]
           after == [n \in 1..(N + 2) |-> of(M, n)]
<1>1. /\ N \in Nat /\ DOMAIN L = 1..N /\ DOMAIN M = 1..(N + 2)
      /\ \A n \in 1..N : M[n] = L[n] /\ L[n] \in Entries
      /\ M[N + 1] = a /\ M[N + 2] = b
  BY TwoAppended
<1>2. /\ \A n \in 0..N : Held(M, i, n) = Held(L, i, n) /\ Held(L, i, n) \in Int
      /\ Held(M, i, N + 1) = HeldOf(L, i) + (IF IsTrade(a, i) THEN a.change ELSE 0)
  BY HeldBefore
<1>3. /\ HeldOf(L, i) \in Int
      /\ HeldOf(M, i) = HeldOf(L, i) + (IF IsTrade(a, i) THEN a.change ELSE 0)
                                     + (IF IsTrade(b, i) THEN b.change ELSE 0)
  BY TradesAppended
<1>4. \A e \in Entries : e.change \in Int
  BY DEF Entries
<1> HIDE DEF M, N, Entries
<1>5. Held(M, i, N + 1) = HeldOf(M, i) /\ HeldOf(M, i) \in Int
  BY <1>2, <1>3, <1>4
<1>6. \A n \in 1..N : of(M, n) = of(L, n) /\ of(L, n) \in Int
  <2> SUFFICES ASSUME NEW n \in 1..N PROVE of(M, n) = of(L, n) /\ of(L, n) \in Int
    OBVIOUS
  <2>1. n \in 0..N /\ M[n] = L[n] /\ L[n].change \in Int
    BY <1>1, <1>4
  <2>2. Held(M, i, n) = Held(L, i, n) /\ Held(L, i, n) \in Int
    BY <1>2, <2>1
  <2>3. Abs(L[n].change) \in Int /\ Abs(Held(L, i, n)) \in Int
    BY <2>1, <2>2, AbsTyped
  <2>4. of(L, n) \in Int
    BY <2>3
  <2> QED
    BY <2>1, <2>2, <2>4
<1>7. of(M, N + 1) = (IF IsTrade(a, i) THEN Abs(a.change) + Abs(HeldOf(M, i)) ELSE 0)
      /\ of(M, N + 1) \in Int
  <2>1. a.change \in Int /\ HeldOf(M, i) \in Int
    BY <1>4, <1>5
  <2>2. Abs(a.change) \in Int /\ Abs(HeldOf(M, i)) \in Int
    <3>1. \A n \in Int : Abs(n) \in Int
      BY AbsTyped
    <3> QED
      BY <2>1, <3>1, Zenon
  <2>3. Abs(a.change) + Abs(HeldOf(M, i)) \in Int
    BY <2>2
  <2>4. M[N + 1] = a /\ Held(M, i, N + 1) = HeldOf(M, i)
    BY <1>1, <1>5
  <2> QED
    BY <2>3, <2>4
<1>8. of(M, N + 2) = 0
  BY <1>1
<1>9. RoundingUnits(L, i) = Total(before) /\ RoundingUnits(M, i) = Total(after)
  BY <1>1, Zenon DEF RoundingUnits
<1> HIDE DEF of
<1>10. before \in [1..N -> Int]
  BY <1>6
<1>11. \A n \in 1..(N + 2) : n \in 1..N \/ n = N + 1 \/ n = N + 2
  BY <1>1
<1>12. after \in [1..(N + 2) -> Int]
  BY <1>6, <1>7, <1>8, <1>11
<1>13. N + 1 \in 1..(N + 2) /\ N + 2 \in 1..(N + 2) /\ \A n \in 1..N : n \in 1..(N + 2)
  BY <1>1
<1>14. (\A n \in 1..N : after[n] = before[n]) /\ after[N + 1] = of(M, N + 1) /\ after[N + 2] = of(M, N + 2)
  BY <1>6, <1>13
<1> HIDE DEF before, after
<1>15. Total(before) \in Int /\ Total(after) = Total(before) + after[N + 1] + after[N + 2]
  BY <1>1, <1>10, <1>12, <1>14, TotalTyped, TotalOfTwoMore
<1> QED
  BY <1>7, <1>8, <1>9, <1>14, <1>15 DEF M

(***************************************************************************)
(* The two accounts                                                        *)

Multiplier(i) == IF i \in Options THEN Contract.multiplier ELSE Contract.futuresMultiplier

\* An instrument's position is what its trades add up to, and their cash is what it
\* cost and realized, but for the roundings.
Balanced(ledger, p, i) ==
  /\ p \in Position
  /\ p.multiplier \in {0, Multiplier(i)}
  /\ p.multiplier = 0 => p.quantity = 0
  /\ p.quantity = HeldOf(ledger, i)
  /\ RoundingUnits(ledger, i) \in Nat
  /\ LET gap == TradesOf(ledger, i) + p.average * p.quantity * p.multiplier - p.realized
     IN  /\ gap <= p.multiplier * RoundingUnits(ledger, i)
         /\ -gap <= p.multiplier * RoundingUnits(ledger, i)

Accounts(ledger, held) ==
  /\ ledger \in Seq(Entries)
  /\ held = [i \in Traded |-> held[i]]
  /\ Cash(ledger) = Limits.nav + TradeCash(ledger) - TransactionCosts(ledger)
  /\ TradeCash(ledger) = TradesOf(ledger, "call") + TradesOf(ledger, "put") + TradesOf(ledger, "futures")
  /\ \A i \in Traded : Balanced(ledger, held[i], i)

\* The arithmetic of a trade: m and M are the multiplier before and after it, x and y
\* average times quantity, k and n what is traded and held, u the units before it.
IsMove(M, m, x, trades, realized, u, price, c, gross, cash, won, error, n, y) ==
  /\ M \in Nat \ {0} /\ m \in {0, M} /\ x \in Int /\ (m = 0 => x = 0)
  /\ trades \in Int /\ realized \in Int /\ u \in Nat
  /\ trades + x * m - realized <= m * u /\ -(trades + x * m - realized) <= m * u
  /\ price \in Int /\ c \in Int /\ c # 0 /\ gross \in Int
  /\ gross - price * (Abs(c) * M) <= Abs(c) * M /\ price * (Abs(c) * M) - gross <= Abs(c) * M
  /\ cash = IF c > 0 THEN -gross ELSE gross
  /\ won \in Int /\ error \in Int /\ n \in Nat /\ error <= n /\ -error <= n
  /\ y \in Int /\ y = x + price * c + won + error

LEMMA GapMoves ==
  ASSUME NEW M, NEW m, NEW x, NEW trades, NEW realized, NEW u, NEW price, NEW c, NEW gross,
         NEW cash, NEW won, NEW error, NEW n, NEW y,
         IsMove(M, m, x, trades, realized, u, price, c, gross, cash, won, error, n, y)
  PROVE  LET gap == (trades + cash) + y * M - (realized + won * M)
         IN  gap <= M * (u + (Abs(c) + n)) /\ -gap <= M * (u + (Abs(c) + n))
<1> USE DEF IsMove
<1> DEFINE k == Abs(c)
<1>1. k \in Nat /\ cash \in Int
  BY AbsTyped
<1>2. x * m = x * M /\ m * u <= M * u
  <2>1. CASE m = M
    BY <2>1
  <2>2. CASE m = 0
    <3>1. x = 0 /\ x * m = 0 /\ x * M = 0 /\ m * u = 0
      BY <2>2
    <3>2. M * u >= 0
      BY SMT
    <3> QED
      BY <3>1, <3>2
  <2> QED
    BY <2>1, <2>2
<1>3. /\ x * M \in Int /\ M * u \in Int /\ m * u \in Int /\ price * c \in Int /\ won * M \in Int
      /\ (price * c) * M \in Int /\ error * M \in Int /\ k * M \in Int /\ n * M \in Int
      /\ price * (k * M) \in Int
  BY <1>1
<1>4. y * M = x * M + (price * c) * M + won * M + error * M
  <2> DEFINE pc2 == price * c
  <2>1. pc2 \in Int /\ y = x + pc2 + won + error
    BY <1>3
  <2> HIDE DEF pc2
  <2>2. y * M = x * M + pc2 * M + won * M + error * M
    BY <2>1
  <2> QED
    BY <2>2 DEF pc2
<1>5. M * (u + (k + n)) = M * u + k * M + n * M
  <2> HIDE DEF k
  <2> QED
    BY <1>1
<1>6. error * M <= n * M /\ -(error * M) <= n * M
  <2>1. error * M <= n * M
    BY SMT
  <2>2. (-error) * M <= n * M /\ (-error) * M = -(error * M)
    BY SMT
  <2> QED
    BY <2>1, <2>2
<1>7. cash + (price * c) * M <= k * M /\ -(cash + (price * c) * M) <= k * M
  <2>1. CASE c > 0
    <3>1. k = c /\ cash = -gross
      BY <2>1 DEF Abs
    <3>2. price * (k * M) = (price * c) * M
      BY <3>1
    <3> QED
      BY <1>3, <3>1, <3>2
  <2>2. CASE ~(c > 0)
    <3>1. k = -c /\ cash = gross
      BY <2>2 DEF Abs
    <3>2. price * (k * M) = -((price * c) * M)
      BY <3>1
    <3> QED
      BY <1>3, <3>1, <3>2
  <2> QED
    BY <2>1, <2>2
<1>8. (trades + cash) + y * M - (realized + won * M)
        = (trades + x * m - realized) + (cash + (price * c) * M) + error * M
  BY <1>1, <1>2, <1>3, <1>4
<1>9. trades + x * m - realized <= M * u /\ -(trades + x * m - realized) <= M * u
  <2>1. x * m \in Int
    OBVIOUS
  <2> QED
    BY <1>2, <1>3, <2>1
<1> DEFINE g == trades + x * m - realized
           h == cash + (price * c) * M
<1>10. g \in Int /\ h \in Int
  BY <1>1, <1>2, <1>3
<1> HIDE DEF k
<1>11. g <= M * u /\ -g <= M * u /\ h <= k * M /\ -h <= k * M
  BY <1>7, <1>9
<1> HIDE DEF g, h
<1>12. /\ g + h + error * M <= M * u + k * M + n * M
       /\ -(g + h + error * M) <= M * u + k * M + n * M
  BY <1>3, <1>6, <1>10, <1>11
<1> QED
  BY <1>5, <1>8, <1>12 DEF g, h, k

\* A fill of an instrument.
IsFill(f, i) ==
  /\ f.instrument = i /\ f.change \in Int /\ f.change # 0 /\ f.multiplier = Multiplier(i)
  /\ f.price \in Int /\ f.gross \in Int /\ f.cost \in Int
  /\ f.gross - f.price * (Abs(f.change) * f.multiplier) <= Abs(f.change) * f.multiplier
  /\ f.price * (Abs(f.change) * f.multiplier) - f.gross <= Abs(f.change) * f.multiplier

\* A recorded fill keeps the accounts, whatever it does to the position.
LEMMA TradeRecorded ==
  ASSUME NEW L, NEW held, Accounts(L, held), NEW i \in Traded, NEW type \in Types,
         NEW f, IsFill(f, i)
  PROVE  Accounts(L \o Recorded(f, type), [held EXCEPT ![i] = ApplyFill(held[i], f)])
<1> USE DEF IsFill
<1> DEFINE cash == IF f.change > 0 THEN -f.gross ELSE f.gross
           a == [type |-> type, instrument |-> i, change |-> f.change, cash |-> cash, cost |-> 0]
           b == [type |-> "transaction_cost", instrument |-> i, change |-> 0,
                 cash |-> -f.cost, cost |-> f.cost]
           M == L \o <<a, b>>
           p == held[i]
           new == ApplyFill(p, f)
<1>1. Recorded(f, type) = <<a, b>> /\ a \in Entries /\ b \in Entries /\ L \in Seq(Entries)
  BY DEF Recorded, Accounts, Entries, Types
<1>2. /\ a.cash = cash /\ a.cost = 0 /\ a.change = f.change /\ b.cash = -f.cost /\ b.cost = f.cost
      /\ b.change = 0 /\ cash \in Int
      /\ \A j : (IsTrade(a, j) <=> j = i) /\ ~IsTrade(b, j)
  BY DEF IsTrade
<1>3. Multiplier(i) \in Nat \ {0}
  BY SimulationAssumption DEF Multiplier
<1> HIDE DEF a, b, cash
<1>4. M \in Seq(Entries)
  BY <1>1, TwoAppended
<1>5. Cash(M) = Limits.nav + TradeCash(M) - TransactionCosts(M)
  <2>1. /\ Cash(L) \in Int /\ TransactionCosts(L) \in Int /\ TradeCash(L) \in Int
        /\ Cash(M) = Cash(L) + cash + -f.cost
        /\ TransactionCosts(M) = TransactionCosts(L) + 0 + f.cost
        /\ TradeCash(M) = TradeCash(L) + cash + 0
    <3>1. /\ Cash(L) \in Int /\ TransactionCosts(L) \in Int /\ TradeCash(L) \in Int
          /\ Cash(M) = Cash(L) + a.cash + b.cash
          /\ TransactionCosts(M) = TransactionCosts(L) + a.cost + b.cost
          /\ TradeCash(M) = TradeCash(L) + (IF a.change # 0 THEN a.cash ELSE 0)
                                         + (IF b.change # 0 THEN b.cash ELSE 0)
      BY <1>1, CashAppended
    <3> HIDE DEF M
    <3> QED
      BY <1>2, <3>1
  <2>2. Cash(L) = Limits.nav + TradeCash(L) - TransactionCosts(L) /\ Limits.nav \in Int
    BY SimulationAssumption DEF Accounts
  <2> QED
    BY <1>2, <2>1, <2>2
<1>6. ASSUME NEW j \in Traded
      PROVE  /\ TradesOf(L, j) \in Int /\ HeldOf(L, j) \in Int
             /\ TradesOf(M, j) = TradesOf(L, j) + (IF j = i THEN cash ELSE 0)
             /\ HeldOf(M, j) = HeldOf(L, j) + (IF j = i THEN f.change ELSE 0)
             /\ RoundingUnits(M, j) = RoundingUnits(L, j)
                  + (IF j = i THEN Abs(f.change) + Abs(HeldOf(M, j)) ELSE 0)
             /\ RoundingUnits(L, j) \in Int
  <2>1. /\ TradesOf(L, j) \in Int /\ HeldOf(L, j) \in Int
        /\ TradesOf(M, j) = TradesOf(L, j) + (IF j = i THEN cash ELSE 0) + 0
        /\ HeldOf(M, j) = HeldOf(L, j) + (IF j = i THEN f.change ELSE 0) + 0
    BY <1>1, <1>2, TradesAppended
  <2>2. /\ RoundingUnits(M, j) = RoundingUnits(L, j)
             + (IF j = i THEN Abs(f.change) + Abs(HeldOf(M, j)) ELSE 0)
        /\ RoundingUnits(L, j) \in Int
    BY <1>1, <1>2, RoundingUnitsAppended
  <2> QED
    BY <1>2, <2>1, <2>2
<1>7. TradeCash(M) = TradesOf(M, "call") + TradesOf(M, "put") + TradesOf(M, "futures")
  <2>1. TradeCash(M) = TradeCash(L) + cash + 0 /\ TradeCash(L) \in Int
    BY <1>1, <1>2, CashAppended
  <2>2. TradeCash(L) = TradesOf(L, "call") + TradesOf(L, "put") + TradesOf(L, "futures")
    BY DEF Accounts
  <2>3. "call" \in Traded /\ "put" \in Traded /\ "futures" \in Traded
        /\ (i = "call" \/ i = "put" \/ i = "futures")
    BY DEF Traded, Options
  <2> HIDE DEF M
  <2> QED
    BY <1>2, <1>6, <2>1, <2>2, <2>3
<1>8. Balanced(L, p, i) /\ p \in Position
  BY DEF Accounts, Balanced
<1>9. PICK won \in Int, error \in Int :
        /\ new \in Position
        /\ new.quantity = p.quantity + f.change /\ new.multiplier = Multiplier(i)
        /\ new.realized = p.realized + won * Multiplier(i)
        /\ new.average * new.quantity = p.average * p.quantity + f.price * f.change + won + error
        /\ error <= Abs(new.quantity) /\ -error <= Abs(new.quantity)
  BY <1>3, <1>8, FillApplied
<1> HIDE DEF new, M
<1>10. Balanced(M, new, i)
  <2> DEFINE x == p.average * p.quantity
             y == new.average * new.quantity
  <2>1. /\ p.multiplier \in {0, Multiplier(i)} /\ x \in Int /\ y \in Int
        /\ p.multiplier = 0 => x = 0
        /\ p.realized \in Int /\ RoundingUnits(L, i) \in Nat
        /\ p.quantity \in Int /\ new.quantity \in Int
    <3>1. /\ p.average \in Int /\ p.quantity \in Int /\ new.average \in Int /\ new.quantity \in Int
          /\ p.realized \in Int
      BY <1>8, <1>9 DEF Position
    <3>2. p.average * p.quantity \in Int /\ new.average * new.quantity \in Int
          /\ (p.quantity = 0 => p.average * p.quantity = 0)
      BY <3>1
    <3> QED
      BY <1>8, <3>1, <3>2 DEF Balanced
  <2>2. /\ TradesOf(L, i) + x * p.multiplier - p.realized <= p.multiplier * RoundingUnits(L, i)
        /\ -(TradesOf(L, i) + x * p.multiplier - p.realized) <= p.multiplier * RoundingUnits(L, i)
    BY <1>8 DEF Balanced
  <2>3. Abs(new.quantity) \in Nat /\ Abs(f.change) \in Nat
    BY <2>1, AbsTyped
  <2>4. y = x + f.price * f.change + won + error
    BY <1>9
  <2> HIDE DEF x, y
  <2> DEFINE U == RoundingUnits(L, i) + (Abs(f.change) + Abs(new.quantity))
  <2>5. LET gap == (TradesOf(L, i) + cash) + y * Multiplier(i) - (p.realized + won * Multiplier(i))
        IN  gap <= Multiplier(i) * U /\ -gap <= Multiplier(i) * U
    <3>1. IsMove(Multiplier(i), p.multiplier, x, TradesOf(L, i), p.realized, RoundingUnits(L, i), f.price,
                 f.change, f.gross, cash, won, error, Abs(new.quantity), y)
      BY <1>3, <1>6, <1>9, <2>1, <2>2, <2>3, <2>4 DEF cash, IsMove
    <3> QED
      BY <3>1, GapMoves
  <2>6. /\ HeldOf(M, i) = new.quantity /\ RoundingUnits(M, i) = U /\ U \in Nat
        /\ TradesOf(M, i) = TradesOf(L, i) + cash
    <3>1. p.quantity = HeldOf(L, i)
      BY <1>8 DEF Balanced
    <3> QED
      BY <1>6, <1>9, <2>1, <2>3, <3>1
  <2> HIDE DEF U
  <2> QED
    BY <1>3, <1>9, <2>5, <2>6 DEF Balanced, y
<1>11. ASSUME NEW j \in Traded, j # i PROVE Balanced(M, held[j], j)
  <2>1. Balanced(L, held[j], j)
    BY DEF Accounts
  <2>2. /\ TradesOf(M, j) = TradesOf(L, j) /\ HeldOf(M, j) = HeldOf(L, j)
        /\ RoundingUnits(M, j) = RoundingUnits(L, j)
    BY <1>6, <1>11
  <2> QED
    BY <2>1, <2>2 DEF Balanced
<1> DEFINE after == [held EXCEPT ![i] = new]
<1>12. after = [j \in Traded |-> after[j]] /\ after[i] = new /\ \A j \in Traded : j # i => after[j] = held[j]
  BY DEF Accounts
<1> HIDE DEF after
<1>13. Accounts(M, after)
  BY <1>4, <1>5, <1>7, <1>10, <1>11, <1>12 DEF Accounts
<1> QED
  BY <1>1, <1>13 DEF M, after, new

LEMMA InitialEntry == InitialCapital \in Entries /\ <<InitialCapital>> \in Seq(Entries)
<1>1. InitialCapital \in Entries
  BY SimulationAssumption DEF InitialCapital, Entries, Types
<1> HIDE DEF Entries
<1> QED
  BY <1>1

LEMMA ValueTyped ==
  ASSUME NEW L, NEW held, Accounts(L, held)
  PROVE  PortfolioValue(L, held) \in Int
<1>1. Cash(L) \in Int
  BY InitialEntry, CashAppended DEF Accounts
<1>2. ASSUME NEW i \in Traded PROVE MarketValue(held[i]) \in Int
  <2>1. held[i].mark \in Int /\ held[i].quantity \in Int /\ held[i].multiplier \in Int
    BY DEF Accounts, Balanced, Position
  <2> QED
    BY <2>1 DEF MarketValue
<1>3. "call" \in Traded /\ "put" \in Traded /\ "futures" \in Traded
  BY DEF Traded, Options
<1> QED
  BY <1>1, <1>2, <1>3 DEF PortfolioValue

\* A mark is not part of what a position cost.
LEMMA MarkedKeeps ==
  ASSUME NEW L, NEW held, Accounts(L, held), NEW m \in Scenarios
  PROVE  /\ Accounts(L, Marked(held, m))
         /\ \A i \in Traded : Marked(held, m)[i].quantity = held[i].quantity
<1>1. ASSUME NEW i \in Traded
      PROVE  Balanced(L, Marked(held, m)[i], i) /\ Marked(held, m)[i].quantity = held[i].quantity
  <2>1. Balanced(L, held[i], i) /\ held[i] \in Position
    BY DEF Accounts, Balanced
  <2>2. CASE held[i].multiplier = 0
    BY <2>1, <2>2 DEF Marked
  <2>3. CASE held[i].multiplier # 0
    <3>1. m[i] \in Int
      BY SimulationAssumption DEF Traded, Options
    <3>2. Money(m[i]) \in Int
      BY <3>1, MoneyRounded
    <3> DEFINE p == [held[i] EXCEPT !.mark = Money(m[i])]
    <3>3. /\ p \in Position /\ p.quantity = held[i].quantity /\ p.multiplier = held[i].multiplier
          /\ p.average = held[i].average /\ p.realized = held[i].realized
      BY <2>1, <3>2 DEF Position
    <3>4. Marked(held, m)[i] = p
      BY <2>3 DEF Marked
    <3> HIDE DEF p
    <3> QED
      BY <2>1, <3>3, <3>4 DEF Balanced
  <2> QED
    BY <2>2, <2>3
<1>2. Marked(held, m) = [i \in Traded |-> Marked(held, m)[i]]
  BY DEF Marked
<1> QED
  BY <1>1, <1>2 DEF Accounts

\* The gap between the value of the portfolio and its results is within the roundings.
LEMMA AccountsAreClose ==
  ASSUME Accounts(journal, positions)
  PROVE  AccountsAgree
<1> DEFINE gap(i) == TradesOf(journal, i) + positions[i].average * positions[i].quantity
                       * positions[i].multiplier - positions[i].realized
<1>1. ASSUME NEW i \in Traded
      PROVE  /\ gap(i) \in Int /\ Rounding(i) \in Int /\ gap(i) <= Rounding(i) /\ -gap(i) <= Rounding(i)
             /\ TradesOf(journal, i) + MarketValue(positions[i]) = gap(i) + Result(positions[i])
             /\ MarketValue(positions[i]) \in Int /\ Result(positions[i]) \in Int
             /\ TradesOf(journal, i) \in Int
  <2> DEFINE p == positions[i]
  <2>1. Balanced(journal, p, i) /\ p \in Position
    BY DEF Accounts, Balanced
  <2>2. /\ p.average \in Int /\ p.quantity \in Int /\ p.multiplier \in Int /\ p.mark \in Int
        /\ p.realized \in Int
    BY <2>1 DEF Position
  <2>3. TradesOf(journal, i) \in Int
    BY InitialEntry, TradesAppended DEF Accounts
  <2>4. Rounding(i) = p.multiplier * RoundingUnits(journal, i)
    BY DEF Rounding, RoundingUnits
  <2>5. Rounding(i) \in Int
    BY <2>1, <2>2, <2>4 DEF Balanced
  <2>6. gap(i) <= Rounding(i) /\ -gap(i) <= Rounding(i)
    BY <2>1, <2>4 DEF Balanced
  <2>7. MarketValue(p) = p.mark * p.quantity * p.multiplier
    BY DEF MarketValue
  <2>8. Result(p) = p.realized + (p.mark - p.average) * p.quantity * p.multiplier
    BY DEF Result
  <2> DEFINE a == p.average
             q == p.quantity
             m == p.multiplier
             k == p.mark
  <2>9. a \in Int /\ q \in Int /\ m \in Int /\ k \in Int
    BY <2>2
  <2> HIDE DEF a, q, m, k
  <2>10. k * q * m \in Int /\ a * q * m \in Int /\ (k - a) * q * m = k * q * m - a * q * m
    <3>1. k * q \in Int /\ a * q \in Int /\ (k - a) * q = k * q - a * q
      BY <2>9
    <3> DEFINE x == k * q
               y == a * q
    <3>2. x \in Int /\ y \in Int
      BY <3>1
    <3> HIDE DEF x, y
    <3>3. x * m \in Int /\ y * m \in Int /\ (x - y) * m = x * m - y * m
      BY <2>9, <3>2
    <3> QED
      BY <3>1, <3>3 DEF x, y
  <2>11. p.mark * p.quantity * p.multiplier = k * q * m
         /\ p.average * p.quantity * p.multiplier = a * q * m
         /\ (p.mark - p.average) * p.quantity * p.multiplier = (k - a) * q * m
    BY DEF k, q, m, a
  <2> HIDE DEF p
  <2>12. gap(i) = TradesOf(journal, i) + a * q * m - p.realized
    BY <2>11 DEF p
  <2> HIDE DEF gap
  <2> QED
    BY <2>2, <2>3, <2>5, <2>6, <2>7, <2>8, <2>10, <2>11, <2>12 DEF p
<1>2. "call" \in Traded /\ "put" \in Traded /\ "futures" \in Traded
  BY DEF Traded, Options
<1>3. /\ Cash(journal) \in Int /\ TransactionCosts(journal) \in Int /\ TradeCash(journal) \in Int
  BY InitialEntry, CashAppended DEF Accounts
<1>4. /\ Cash(journal) = Limits.nav + TradeCash(journal) - TransactionCosts(journal)
      /\ TradeCash(journal) = TradesOf(journal, "call") + TradesOf(journal, "put") + TradesOf(journal, "futures")
      /\ Limits.nav \in Int
  BY SimulationAssumption DEF Accounts
<1> HIDE DEF gap
<1> DEFINE value == PortfolioValue(journal, positions)
           results == Result(positions["call"]) + Result(positions["put"]) + Result(positions["futures"])
           difference == value - (Limits.nav + results - TransactionCosts(journal))
<1>5. difference = gap("call") + gap("put") + gap("futures")
  BY <1>1, <1>2, <1>3, <1>4 DEF PortfolioValue
<1> HIDE DEF difference
<1>6. Abs(difference) <= Rounding("call") + Rounding("put") + Rounding("futures")
  BY <1>1, <1>2, <1>5 DEF Abs
<1> QED
  BY <1>6 DEF AccountsAgree, difference

(***************************************************************************)
(* Risk and decisions                                                      *)

Risks ==
  [reference : Int, position : Int, session_reference : Int, session : Int, previous : Int,
   hedges : Nat, total : Nat, day : Int]

\* The results are differences of marks, and a session refers to the last of them.
AddsUp(r, sum) ==
  /\ sum \in Int /\ r \in Risks /\ r.reference = Limits.nav
  /\ r.position = r.previous - r.reference
  /\ r.session = r.previous - r.session_reference
  /\ sum = r.session_reference - r.reference

LEMMA SessionTyped ==
  ASSUME clock \in Clocks, NEW n \in Nat
  PROVE  Session(n) \in Int
BY SimulationAssumption DEF Session

LEMMA InitialRiskAddsUp ==
  ASSUME clock \in Clocks, NEW value \in Int
  PROVE  /\ AddsUp(InitialRisk(value), 0) /\ InitialRisk(value).hedges = 0
         /\ InitialRisk(value).total = 0
<1>1. 0 \in Nat
  OBVIOUS
<1>2. Session(0) \in Int
  BY <1>1, SessionTyped
<1> QED
  BY <1>2, SimulationAssumption DEF InitialRisk, AddsUp, Risks

LEMMA MarkAddsUp ==
  ASSUME NEW r, NEW sum, AddsUp(r, sum), NEW value \in Int, NEW day \in Int
  PROVE  LET new == MarkRisk(r, value, day)
         IN  /\ AddsUp(new, IF day # r.day THEN sum + r.session ELSE sum)
             /\ new.day = day /\ new.total = r.total
             /\ new.hedges = IF day # r.day THEN 0 ELSE r.hedges
<1>1. /\ r \in Risks /\ r.reference \in Int /\ r.session_reference \in Int /\ r.session \in Int
      /\ r.previous \in Int /\ r.hedges \in Nat /\ r.total \in Nat /\ sum \in Int
  BY DEF AddsUp, Risks
<1>2. CASE day # r.day
  <2> DEFINE position == value - r.reference
             session == value - r.previous
             new == [r EXCEPT !.position = position, !.session_reference = r.previous,
                       !.session = session, !.previous = value, !.hedges = 0, !.day = day]
  <2>1. MarkRisk(r, value, day) = new
    BY <1>2 DEF MarkRisk
  <2>2. position \in Int /\ session \in Int
    BY <1>1
  <2> HIDE DEF position, session
  <2>3. /\ new \in Risks /\ new.reference = r.reference /\ new.position = position
        /\ new.session_reference = r.previous /\ new.session = session
        /\ new.previous = value /\ new.hedges = 0 /\ new.day = day /\ new.total = r.total
    BY <1>1, <2>2 DEF Risks
  <2> HIDE DEF new
  <2>4. AddsUp(new, sum + r.session)
    BY <1>1, <2>3 DEF AddsUp, position, session
  <2> QED
    BY <1>2, <2>1, <2>3, <2>4
<1>3. CASE ~(day # r.day)
  <2> DEFINE position == value - r.reference
             session == value - r.session_reference
             new == [r EXCEPT !.position = position, !.session = session, !.previous = value]
  <2>1. MarkRisk(r, value, day) = new
    BY <1>3 DEF MarkRisk
  <2>2. position \in Int /\ session \in Int
    BY <1>1
  <2> HIDE DEF position, session
  <2>3. /\ new \in Risks /\ new.reference = r.reference /\ new.position = position
        /\ new.session_reference = r.session_reference /\ new.session = session
        /\ new.previous = value /\ new.hedges = r.hedges /\ new.day = r.day /\ new.total = r.total
    BY <1>1, <2>2 DEF Risks
  <2> HIDE DEF new
  <2>4. AddsUp(new, sum)
    BY <1>1, <2>3 DEF AddsUp, position, session
  <2> QED
    BY <1>3, <2>1, <2>3, <2>4
<1> QED
  BY <1>2, <1>3

LEMMA HedgeAddsUp ==
  ASSUME NEW r, NEW sum, AddsUp(r, sum)
  PROVE  /\ AddsUp(RecordHedge(r), sum) /\ RecordHedge(r).day = r.day
         /\ RecordHedge(r).hedges = r.hedges + 1 /\ RecordHedge(r).total = r.total + 1
<1> DEFINE hedges == r.hedges + 1
           total == r.total + 1
           new == [r EXCEPT !.hedges = hedges, !.total = total]
<1>1. r \in Risks /\ RecordHedge(r) = new
  BY DEF AddsUp, RecordHedge
<1>2. hedges \in Nat /\ total \in Nat
  BY <1>1 DEF Risks
<1> HIDE DEF hedges, total
<1>3. /\ new \in Risks /\ new.reference = r.reference /\ new.position = r.position
      /\ new.session_reference = r.session_reference /\ new.session = r.session
      /\ new.previous = r.previous /\ new.day = r.day
      /\ new.hedges = hedges /\ new.total = total
  BY <1>1, <1>2 DEF Risks
<1> HIDE DEF new
<1> QED
  BY <1>1, <1>3 DEF AddsUp, hedges, total

\* The contracts a policy asks for, and the forced ones.
LEMMA DecisionTyped ==
  ASSUME policy \in Policies, observed \in Scenarios, NEW net \in Int
  PROVE  /\ Decided(net) \in Int
         /\ \A target \in Int : ToTarget(net, target) \in Int
<1>1. ASSUME NEW target \in Int PROVE ToTarget(net, target) \in Int
  <2>1. target - net \in Int /\ Contract.futuresDelta \in Nat \ {0}
    BY SimulationAssumption
  <2> QED
    BY <2>1, Rounded DEF ToTarget
<1>2. /\ Hedging.target \in Int /\ Hedging.lower \in Int /\ Hedging.upper \in Int
      /\ Hedging.cap \in Int /\ observed.band \in Int /\ 0 \in Int
  BY SimulationAssumption
<1>3. ASSUME NEW lower \in Int, NEW upper \in Int PROVE ToBand(net, lower, upper) \in Int
  <2>1. ToTarget(net, lower) \in Int /\ ToTarget(net, upper) \in Int
    BY <1>1
  <2> QED
    BY <2>1 DEF ToBand
<1>4. HalfWidth(observed) \in Int /\ -HalfWidth(observed) \in Int
  BY <1>2 DEF HalfWidth
<1>5. ToTarget(net, Hedging.target) \in Int
  BY <1>1, <1>2
<1>6. ToBand(net, Hedging.lower, Hedging.upper) \in Int
  BY <1>2, <1>3
<1>7. ToBand(net, -HalfWidth(observed), HalfWidth(observed)) \in Int
  BY <1>3, <1>4
<1>8. CASE policy = "no_hedge"
  BY <1>1, <1>8 DEF Decided
<1>9. CASE policy = "fixed_interval"
  BY <1>1, <1>5, <1>9 DEF Decided
<1>10. CASE policy = "delta_threshold"
  BY <1>1, <1>5, <1>10 DEF Decided
<1>11. CASE policy = "constant_band"
  BY <1>1, <1>6, <1>11 DEF Decided
<1>12. CASE policy = "whalley_wilmott"
  BY <1>1, <1>7, <1>12 DEF Decided
<1> QED
  BY <1>1, <1>8, <1>9, <1>10, <1>11, <1>12 DEF Policies

HedgesOf(ledger) == {n \in DOMAIN ledger : ledger[n].type = "futures_hedge"}

\* A hedge is one more of them in the ledger, another fill is none.
LEMMA HedgesRecorded ==
  ASSUME NEW L \in Seq(Entries), IsFiniteSet(HedgesOf(L)), NEW a \in Entries, NEW b \in Entries,
         b.type # "futures_hedge"
  PROVE  LET M == L \o <<a, b>>
         IN  /\ IsFiniteSet(HedgesOf(M))
             /\ Cardinality(HedgesOf(L)) \in Nat
             /\ Cardinality(HedgesOf(M)) =
                  Cardinality(HedgesOf(L)) + (IF a.type = "futures_hedge" THEN 1 ELSE 0)
<1> DEFINE M == L \o <<a, b>>
           N == Len(L)
<1>1. /\ N \in Nat /\ DOMAIN L = 1..N /\ DOMAIN M = 1..(N + 2)
      /\ \A n \in 1..N : M[n] = L[n]
      /\ M[N + 1] = a /\ M[N + 2] = b
  BY TwoAppended
<1> HIDE DEF M, N
<1>2. N + 1 \notin HedgesOf(L)
  BY <1>1 DEF HedgesOf
<1>3. HedgesOf(M) = HedgesOf(L) \cup (IF a.type = "futures_hedge" THEN {N + 1} ELSE {})
  <2>1. \A n : n \in 1..(N + 2) <=> n \in 1..N \/ n = N + 1 \/ n = N + 2
    BY <1>1
  <2>2. \A n \in 1..N : n # N + 1 /\ n # N + 2
    BY <1>1
  <2>3. N + 1 # N + 2
    BY <1>1
  <2> QED
    BY <1>1, <2>1, <2>2, <2>3 DEF HedgesOf
<1>4. Cardinality(HedgesOf(L)) \in Nat
  BY FS_CardinalityType
<1>5. CASE a.type = "futures_hedge"
  <2>1. HedgesOf(M) = HedgesOf(L) \cup {N + 1}
    BY <1>3, <1>5
  <2> QED
    BY <1>2, <1>4, <1>5, <2>1, FS_AddElement DEF M
<1>6. CASE a.type # "futures_hedge"
  <2>1. HedgesOf(M) = HedgesOf(L)
    BY <1>3, <1>6
  <2> QED
    BY <1>4, <1>6, <2>1 DEF M
<1> QED
  BY <1>5, <1>6

(***************************************************************************)
(* The books: the accounts and the number of hedges in the ledger          *)

Books(L, held, hedges) ==
  /\ Accounts(L, held)
  /\ IsFiniteSet(HedgesOf(L)) /\ Cardinality(HedgesOf(L)) = hedges /\ hedges \in Nat

LEMMA BooksKept ==
  ASSUME NEW L, NEW held, NEW hedges, Books(L, held, hedges), NEW i \in Traded, NEW type \in Types,
         NEW f, IsFill(f, i)
  PROVE  Books(L \o Recorded(f, type), [held EXCEPT ![i] = ApplyFill(held[i], f)],
               hedges + (IF type = "futures_hedge" THEN 1 ELSE 0))
<1> DEFINE cash == IF f.change > 0 THEN -f.gross ELSE f.gross
           a == [type |-> type, instrument |-> i, change |-> f.change, cash |-> cash, cost |-> 0]
           b == [type |-> "transaction_cost", instrument |-> i, change |-> 0,
                 cash |-> -f.cost, cost |-> f.cost]
           M == L \o Recorded(f, type)
<1>1. Recorded(f, type) = <<a, b>> /\ a \in Entries /\ b \in Entries /\ L \in Seq(Entries)
  BY DEF Recorded, Books, Accounts, Entries, Types, IsFill
<1>2. a.type = type /\ b.type # "futures_hedge"
  OBVIOUS
<1> HIDE DEF a, b
<1>3. /\ IsFiniteSet(HedgesOf(M)) /\ Cardinality(HedgesOf(L)) \in Nat
      /\ Cardinality(HedgesOf(M)) =
           Cardinality(HedgesOf(L)) + (IF type = "futures_hedge" THEN 1 ELSE 0)
  BY <1>1, <1>2, HedgesRecorded DEF Books
<1>4. Accounts(M, [held EXCEPT ![i] = ApplyFill(held[i], f)])
  BY TradeRecorded DEF Books
<1> HIDE DEF M
<1> QED
  BY <1>3, <1>4 DEF Books, M

\* What simulate_fill makes of an order.
LEMMA FillIsFill ==
  ASSUME NEW m \in Scenarios, NEW change \in Int, change # 0
  PROVE  /\ \A i \in Options : IsFill(OptionFill(i, change, m), i) /\ OptionFill(i, change, m).change = change
         /\ IsFill(FuturesFill(change, m), "futures") /\ FuturesFill(change, m).change = change
<1>1. /\ Contract.multiplier \in Nat \ {0} /\ Contract.futuresMultiplier \in Nat \ {0}
      /\ m.call \in Nat /\ m.put \in Nat /\ m.futures \in Nat
      /\ Costs.option \in {Costs.option, Costs.futures} /\ Costs.futures \in {Costs.option, Costs.futures}
  BY SimulationAssumption
<1>2. ASSUME NEW i \in Options
      PROVE  IsFill(OptionFill(i, change, m), i) /\ OptionFill(i, change, m).change = change
  <2>1. m[i] \in Nat /\ Multiplier(i) = Contract.multiplier
    BY <1>1 DEF Options, Multiplier
  <2> DEFINE f == Fill(i, change, Contract.multiplier, m[i], Costs.option)
  <2>2. OptionFill(i, change, m) = f
    BY DEF OptionFill
  <2>3. /\ f.instrument = i /\ f.change = change /\ f.multiplier = Contract.multiplier
        /\ f.price \in Int /\ f.gross \in Int /\ f.cost \in Int
        /\ f.gross - f.price * (Abs(change) * Contract.multiplier) <= Abs(change) * Contract.multiplier
        /\ f.price * (Abs(change) * Contract.multiplier) - f.gross <= Abs(change) * Contract.multiplier
    BY <1>1, <2>1, FillRounded
  <2> HIDE DEF f
  <2> QED
    BY <2>1, <2>2, <2>3 DEF IsFill
<1>3. IsFill(FuturesFill(change, m), "futures") /\ FuturesFill(change, m).change = change
  <2>1. Multiplier("futures") = Contract.futuresMultiplier
    BY DEF Options, Multiplier
  <2> DEFINE f == Fill("futures", change, Contract.futuresMultiplier, m.futures, Costs.futures)
  <2>2. FuturesFill(change, m) = f
    BY DEF FuturesFill
  <2>3. /\ f.instrument = "futures" /\ f.change = change /\ f.multiplier = Contract.futuresMultiplier
        /\ f.price \in Int /\ f.gross \in Int /\ f.cost \in Int
        /\ f.gross - f.price * (Abs(change) * Contract.futuresMultiplier) <= Abs(change) * Contract.futuresMultiplier
        /\ f.price * (Abs(change) * Contract.futuresMultiplier) - f.gross <= Abs(change) * Contract.futuresMultiplier
    BY <1>1, FillRounded
  <2> HIDE DEF f
  <2> QED
    BY <2>1, <2>2, <2>3 DEF IsFill
<1> QED
  BY <1>2, <1>3

\* A position that is closed keeps the books, and nothing of it is left.
LEMMA BooksClosed ==
  ASSUME NEW L, NEW held, NEW hedges, Books(L, held, hedges), NEW i \in Traded, NEW f,
         held[i].quantity # 0 => IsFill(f, i) /\ f.change = -held[i].quantity
  PROVE  LET none == held[i].quantity = 0
             after == [held EXCEPT ![i] = IF none THEN held[i] ELSE ApplyFill(held[i], f)]
         IN  /\ Books(L \o (IF none THEN <<>> ELSE Recorded(f, "close")), after, hedges)
             /\ DOMAIN after = Traded /\ after[i].quantity = 0
             /\ after[i] = IF none THEN held[i] ELSE ApplyFill(held[i], f)
             /\ \A j \in Traded : j # i => after[j] = held[j]
<1>1. DOMAIN held = Traded /\ L \in Seq(Entries) /\ held[i] \in Position /\ hedges \in Nat
  BY DEF Books, Accounts, Balanced
<1>2. CASE held[i].quantity = 0
  <2>1. L \o <<>> = L
    BY <1>1, ConcatEmptySeq
  <2>2. [held EXCEPT ![i] = held[i]] = held
    <3>1. held = [j \in Traded |-> held[j]]
      BY DEF Books, Accounts
    <3> QED
      BY <3>1
  <2> QED
    BY <1>1, <1>2, <2>1, <2>2
<1>3. CASE held[i].quantity # 0
  <2> DEFINE new == ApplyFill(held[i], f)
  <2>1. Books(L \o Recorded(f, "close"), [held EXCEPT ![i] = new], hedges + 0)
    <3>1. "close" \in Types /\ "close" # "futures_hedge"
      BY DEF Types
    <3> QED
      BY <1>3, <3>1, BooksKept
  <2>2. new.quantity = 0
    <3> DEFINE p == held[i]
    <3>1. p \in Position /\ Multiplier(i) \in Nat \ {0}
      BY <1>1, SimulationAssumption DEF Multiplier
    <3>2. f.change \in Int /\ f.change # 0 /\ f.price \in Int /\ f.multiplier = Multiplier(i)
          /\ f.change = -p.quantity
      BY <1>3 DEF IsFill
    <3> HIDE DEF p
    <3>3. ApplyFill(p, f).quantity = p.quantity + f.change /\ p.quantity \in Int
      BY <3>1, <3>2, FillApplied DEF Position
    <3> QED
      BY <3>2, <3>3 DEF p
  <2>3. hedges + 0 = hedges
    BY <1>1
  <2> HIDE DEF new
  <2> QED
    BY <1>1, <1>3, <2>1, <2>2, <2>3 DEF new
<1> QED
  BY <1>2, <1>3

(***************************************************************************)
(* The run                                                                 *)

RunTyped ==
  /\ pc \in {"entry", "state", "decide", "next", "exit", "done", "raised"}
  /\ policy \in Policies /\ clock \in Clocks /\ step \in Nat /\ observed \in Scenarios
  /\ pc = "entry" => positions = [i \in Traded |-> NoPosition] /\ risk.total = 0 /\ earlier = 0

\* What is decided is decided in the session of the last mark, with a hedge left.
RiskInv ==
  /\ AddsUp(risk, earlier)
  /\ risk.hedges <= Limits.hedges
  /\ pc = "decide" => risk.day = Session(step) /\ risk.hedges < Limits.hedges

ExposureInv ==
  /\ pc = "next" => Within(NetDelta(observed, positions))
  /\ pc = "done" => \A i \in Traded : positions[i].quantity = 0
  /\ outcome # "reconciliation_failure"

SimulationInv == RunTyped /\ Books(journal, positions, risk.total) /\ RiskInv /\ ExposureInv

\* A ledger of the capital alone.
LEMMA TotalOfOne ==
  ASSUME NEW w \in [1..1 -> Int]
  PROVE  Total(w) = w[1]
<1> DEFINE v == [n \in 1..0 |-> 0]
<1>1. v \in [1..0 -> Int] /\ 0 \in Nat /\ w \in [1..(0 + 1) -> Int] /\ (\A n \in 1..0 : w[n] = v[n])
      /\ w[1] \in Int /\ 0 + 1 = 1
  OBVIOUS
<1> HIDE DEF v
<1>2. Total(v) = 0 /\ Total(w) = Total(v) + w[0 + 1]
  BY <1>1, TotalOfNone, TotalOfMore
<1> QED
  BY <1>1, <1>2

LEMMA CapitalAccounts ==
  ASSUME clock \in Clocks
  PROVE  Books(<<InitialCapital>>, [i \in Traded |-> NoPosition], 0)
<1> DEFINE L == <<InitialCapital>>
           held == [i \in Traded |-> NoPosition]
<1>1. /\ L \in Seq(Entries) /\ DOMAIN L = 1..1 /\ Len(L) = 1 /\ L[1] = InitialCapital
  BY InitialEntry
<1>2. /\ InitialCapital.cash = Limits.nav /\ InitialCapital.cost = 0 /\ InitialCapital.change = 0
      /\ InitialCapital.type # "futures_hedge" /\ Limits.nav \in Int
      /\ \A i : ~IsTrade(InitialCapital, i)
  BY SimulationAssumption DEF InitialCapital, IsTrade
<1> HIDE DEF L
<1>3. Cash(L) = Limits.nav
  <2> DEFINE w == [n \in 1..1 |-> L[n].cash]
  <2>1. w \in [1..1 -> Int] /\ w[1] = Limits.nav /\ Cash(L) = Total(w)
    BY <1>1, <1>2 DEF Cash
  <2> HIDE DEF w
  <2> QED
    BY <2>1, TotalOfOne
<1>4. TransactionCosts(L) = 0
  <2> DEFINE w == [n \in 1..1 |-> L[n].cost]
  <2>1. w \in [1..1 -> Int] /\ w[1] = 0 /\ TransactionCosts(L) = Total(w)
    BY <1>1, <1>2 DEF TransactionCosts
  <2> HIDE DEF w
  <2> QED
    BY <2>1, TotalOfOne
<1>5. TradeCash(L) = 0
  <2> DEFINE w == [n \in 1..1 |-> IF L[n].change # 0 THEN L[n].cash ELSE 0]
  <2>1. w \in [1..1 -> Int] /\ w[1] = 0 /\ TradeCash(L) = Total(w)
    BY <1>1, <1>2 DEF TradeCash
  <2> HIDE DEF w
  <2> QED
    BY <2>1, TotalOfOne
<1>6. ASSUME NEW i \in Traded
      PROVE  TradesOf(L, i) = 0 /\ HeldOf(L, i) = 0 /\ RoundingUnits(L, i) = 0
  <2> DEFINE w == [n \in 1..1 |-> IF IsTrade(L[n], i) THEN L[n].cash ELSE 0]
             x == [n \in 1..1 |-> IF IsTrade(L[n], i) THEN L[n].change ELSE 0]
             y == [n \in 1..1 |-> IF IsTrade(L[n], i) THEN Abs(L[n].change) + Abs(Held(L, i, n)) ELSE 0]
  <2>1. w \in [1..1 -> Int] /\ w[1] = 0 /\ x \in [1..1 -> Int] /\ x[1] = 0
        /\ y \in [1..1 -> Int] /\ y[1] = 0
    BY <1>1, <1>2
  <2>2. TradesOf(L, i) = Total(w) /\ HeldOf(L, i) = Total(x) /\ RoundingUnits(L, i) = Total(y)
    BY <1>1 DEF TradesOf, HeldOf, Held, RoundingUnits
  <2> HIDE DEF w, x, y
  <2> QED
    BY <2>1, <2>2, TotalOfOne
<1>7. HedgesOf(L) = {}
  BY <1>1, <1>2 DEF HedgesOf
<1>8. ASSUME NEW i \in Traded PROVE Balanced(L, held[i], i)
  <2>1. /\ held[i] \in Position /\ held[i].multiplier = 0 /\ held[i].quantity = 0
        /\ held[i].average = 0 /\ held[i].realized = 0
    BY DEF NoPosition, Position
  <2> HIDE DEF held
  <2>2. held[i].average * held[i].quantity * held[i].multiplier = 0
    BY <2>1
  <2>3. held[i].multiplier * RoundingUnits(L, i) = 0 /\ RoundingUnits(L, i) \in Nat
    BY <1>6, <2>1
  <2> QED
    BY <1>6, <2>1, <2>2, <2>3 DEF Balanced
<1>9. held = [i \in Traded |-> held[i]]
  OBVIOUS
<1> HIDE DEF held
<1>10. "call" \in Traded /\ "put" \in Traded /\ "futures" \in Traded
  BY DEF Traded, Options
<1>11. Accounts(L, held)
  <2>1. Cash(L) = Limits.nav + TradeCash(L) - TransactionCosts(L)
    BY <1>2, <1>3, <1>4, <1>5
  <2>2. TradeCash(L) = TradesOf(L, "call") + TradesOf(L, "put") + TradesOf(L, "futures")
    BY <1>5, <1>6, <1>10
  <2> QED
    BY <1>1, <1>8, <1>9, <2>1, <2>2 DEF Accounts
<1> QED
  BY <1>7, <1>11, FS_EmptySet DEF Books, L, held

LEMMA SimulationStarts == SimulationInit => SimulationInv
<1> SUFFICES ASSUME SimulationInit PROVE SimulationInv
  OBVIOUS
<1>1. Limits.nav \in Int /\ Limits.hedges \in Nat /\ clock \in Clocks
  BY SimulationAssumption DEF SimulationInit
<1>2. AddsUp(risk, earlier) /\ risk.hedges = 0 /\ risk.total = 0
  BY <1>1, InitialRiskAddsUp DEF SimulationInit
<1>3. Books(journal, positions, risk.total)
  BY <1>1, <1>2, CapitalAccounts DEF SimulationInit
<1>4. RunTyped /\ ExposureInv
  BY <1>2 DEF SimulationInit, RunTyped, ExposureInv
<1>5. RiskInv
  BY <1>1, <1>2 DEF SimulationInit, RiskInv
<1> QED
  BY <1>3, <1>4, <1>5 DEF SimulationInv

LEMMA EnterKeeps ==
  ASSUME SimulationInv, NEW theta \in Thetas, NEW quality \in BOOLEAN, Enter(theta, quality)
  PROVE  SimulationInv'
<1> DEFINE fills == [i \in Options |-> OptionFill(i, Contract.units, observed)]
<1>1. /\ pc = "entry" /\ observed \in Scenarios /\ clock \in Clocks /\ step \in Nat
      /\ positions = [i \in Traded |-> NoPosition] /\ risk.total = 0 /\ earlier = 0
      /\ UNCHANGED <<policy, clock, step, observed, earlier>>
  BY DEF Enter, SimulationInv, RunTyped
<1>2. CASE ~EntryApproved(fills, theta, quality)
  BY <1>1, <1>2 DEF Enter, SimulationInv, RunTyped, RiskInv, ExposureInv
<1>3. CASE EntryApproved(fills, theta, quality)
  <2>1. /\ pc' = "state" /\ UNCHANGED outcome
        /\ journal' = journal \o Recorded(fills["call"], "option_entry")
                              \o Recorded(fills["put"], "option_entry")
        /\ positions' = [i \in Traded |->
             IF i \in Options THEN ApplyFill(NoPosition, fills[i]) ELSE NoPosition]
        /\ risk' = InitialRisk(PortfolioValue(journal', positions'))
    BY <1>3 DEF Enter
  <2>2. IsFill(fills["call"], "call") /\ IsFill(fills["put"], "put")
    <3>1. Contract.units \in Int /\ Contract.units # 0
      BY SimulationAssumption
    <3> QED
      BY <1>1, <3>1, FillIsFill DEF Options
  <2>3. "call" \in Traded /\ "put" \in Traded /\ "option_entry" \in Types
        /\ "option_entry" # "futures_hedge"
    BY DEF Traded, Options, Types
  <2> HIDE DEF fills
  <2> DEFINE one == [positions EXCEPT !["call"] = ApplyFill(positions["call"], fills["call"])]
             two == [one EXCEPT !["put"] = ApplyFill(one["put"], fills["put"])]
  <2>4. Books(journal, positions, risk.total)
    BY DEF SimulationInv
  <2>5. risk.total \in Nat
    BY <2>4 DEF Books
  <2>6. Books(journal \o Recorded(fills["call"], "option_entry"), one, risk.total + 0)
    BY <2>2, <2>3, <2>4, BooksKept
  <2>7. Books(journal', two, risk.total + 0 + 0)
    <3> HIDE DEF one
    <3> QED
      BY <2>1, <2>2, <2>3, <2>6, BooksKept
  <2>8. two = positions'
    BY <1>1, <2>1 DEF Traded, Options
  <2>9. risk.total + 0 + 0 = risk.total
    BY <2>5
  <2> HIDE DEF two
  <2>10. Books(journal', positions', risk.total)
    BY <2>7, <2>8, <2>9
  <2>11. PortfolioValue(journal', positions') \in Int
    BY <2>10, ValueTyped DEF Books
  <2>12. AddsUp(risk', earlier') /\ risk'.hedges = 0 /\ risk'.total = 0
    BY <1>1, <2>1, <2>11, InitialRiskAddsUp
  <2>13. Limits.hedges \in Nat
    BY SimulationAssumption
  <2>14. RunTyped' /\ ExposureInv'
    BY <1>1, <2>1 DEF SimulationInv, RunTyped, ExposureInv
  <2>15. RiskInv'
    BY <2>1, <2>12, <2>13 DEF RiskInv
  <2> QED
    BY <1>1, <2>10, <2>12, <2>14, <2>15 DEF SimulationInv
<1> QED
  BY <1>2, <1>3

LEMMA AtStateKeeps ==
  ASSUME SimulationInv, AtState
  PROVE  SimulationInv'
<1> DEFINE value == PortfolioValue(journal, positions')
           day == Session(step)
<1>1. /\ pc = "state" /\ observed \in Scenarios /\ clock \in Clocks /\ step \in Nat
      /\ policy \in Policies /\ AddsUp(risk, earlier) /\ risk.hedges <= Limits.hedges
      /\ UNCHANGED <<policy, kill, clock, step, observed, journal>>
      /\ positions' = Marked(positions, observed)
      /\ risk' = MarkRisk(risk, value, day)
      /\ earlier' = IF day # risk.day THEN earlier + risk.session ELSE earlier
      /\ Books(journal, positions, risk.total) /\ outcome # "reconciliation_failure"
  BY DEF AtState, SimulationInv, RunTyped, RiskInv, ExposureInv
<1>2. /\ \/ pc' = "exit"
         \/ pc' = "decide" /\ ExitReasons(risk', step) = {}
      /\ outcome' # "reconciliation_failure"
  <2>1. CASE ExitReasons(risk', step) # {}
    <3>1. pc' = "exit" /\ outcome' \in ToSet(Precedence)
      BY <2>1 DEF AtState
    <3>2. "reconciliation_failure" \notin ToSet(Precedence)
      BY DEF ToSet, Precedence
    <3> QED
      BY <3>1, <3>2
  <2>2. CASE ExitReasons(risk', step) = {}
    BY <1>1, <2>2 DEF AtState
  <2> QED
    BY <2>1, <2>2
<1>3. Accounts(journal, positions')
  BY <1>1, MarkedKeeps DEF Books
<1>4. value \in Int /\ day \in Int
  BY <1>1, <1>3, ValueTyped, SessionTyped
<1> HIDE DEF value, day
<1>5. /\ AddsUp(risk', earlier') /\ risk'.day = day /\ risk'.total = risk.total
      /\ risk'.hedges = IF day # risk.day THEN 0 ELSE risk.hedges
  BY <1>1, <1>4, MarkAddsUp
<1>6. Limits.hedges \in Nat
  BY SimulationAssumption
<1>7. risk'.hedges <= Limits.hedges /\ risk'.hedges \in Nat
  <2>1. risk'.hedges \in Nat
    BY <1>5 DEF AddsUp, Risks
  <2> QED
    BY <1>1, <1>5, <1>6, <2>1
<1>8. ExitReasons(risk', step) = {} => risk'.hedges < Limits.hedges
  <2>1. risk'.hedges >= Limits.hedges => "maximum_hedge_count" \in ExitReasons(risk', step)
    BY DEF ExitReasons, Breached
  <2> QED
    BY <1>6, <1>7, <2>1
<1>9. RiskInv'
  <2>1. pc' = "decide" => risk'.day = Session(step)' /\ risk'.hedges < Limits.hedges
    BY <1>1, <1>2, <1>5, <1>8 DEF day, Session
  <2> QED
    BY <1>5, <1>7, <2>1 DEF RiskInv
<1>10. RunTyped' /\ ExposureInv'
  BY <1>1, <1>2 DEF RunTyped, ExposureInv
<1>11. Books(journal', positions', risk'.total)
  BY <1>1, <1>3, <1>5 DEF Books
<1> QED
  BY <1>9, <1>10, <1>11 DEF SimulationInv

LEMMA DecideKeeps ==
  ASSUME SimulationInv, Decide
  PROVE  SimulationInv'
<1> DEFINE net == NetDelta(observed, positions)
           wanted == Decided(net)
           forced == ToTarget(net, 0)
           requested == IF Within(After(net, wanted)) THEN wanted ELSE forced
           day == Session(step)
<1>1. /\ pc = "decide" /\ observed \in Scenarios /\ clock \in Clocks /\ step \in Nat
      /\ policy \in Policies /\ AddsUp(risk, earlier)
      /\ risk.hedges < Limits.hedges /\ risk.day = day
      /\ UNCHANGED <<policy, kill, clock, step, observed, earlier>>
      /\ Books(journal, positions, risk.total) /\ outcome # "reconciliation_failure"
  BY DEF Decide, SimulationInv, RunTyped, RiskInv, ExposureInv
<1>2. CASE ~(Within(After(net, wanted)) \/ ~Unhedgeable(net))
  <2>1. pc' = "exit" /\ outcome' = "absolute_delta_unhedgeable" /\ UNCHANGED <<journal, positions, risk>>
    BY <1>2 DEF Decide
  <2> QED
    BY <1>1, <2>1 DEF SimulationInv, RunTyped, RiskInv, ExposureInv
<1>3. CASE Within(After(net, wanted)) \/ ~Unhedgeable(net)
  <2>1. pc' = "next" /\ UNCHANGED outcome /\ Hedge(requested)
    BY <1>3 DEF Decide
  <2>2. Within(After(net, requested))
    BY <1>3 DEF Unhedgeable
  <2> DEFINE p == positions["futures"]
             f == FuturesFill(requested, observed)
  <2>3. "futures" \in Traded /\ p \in Position /\ p.quantity \in Int
        /\ positions = [i \in Traded |-> positions[i]]
    BY <1>1 DEF Books, Accounts, Balanced, Traded, Options, Position
  <2>4. net \in Int /\ net = observed.delta + p.quantity * Contract.futuresDelta
        /\ Contract.futuresDelta \in Int /\ observed.delta \in Int
    <3>1. Contract.futuresDelta \in Int /\ observed.delta \in Int
      BY <1>1, SimulationAssumption
    <3>2. p.quantity * Contract.futuresDelta \in Int
      BY <2>3, <3>1
    <3>3. net = observed.delta + p.quantity * Contract.futuresDelta
      BY DEF NetDelta, HedgeDelta
    <3> QED
      BY <3>1, <3>2, <3>3
  <2> HIDE DEF net
  <2>5. requested \in Int
    <3>1. wanted \in Int /\ forced \in Int
      BY <1>1, <2>4, DecisionTyped
    <3> QED
      BY <3>1
  <2> HIDE DEF requested
  <2>6. /\ Books(journal', positions', risk.total + (IF requested = 0 THEN 0 ELSE 1))
        /\ positions'["futures"].quantity = p.quantity + requested
    <3>1. CASE requested = 0
      <4>1. UNCHANGED <<journal, positions>> /\ risk.total + 0 = risk.total
        BY <1>1, <2>1, <3>1 DEF Hedge, Books
      <4> QED
        BY <1>1, <2>3, <3>1, <4>1
    <3>2. CASE requested # 0
      <4>1. /\ journal' = journal \o Recorded(f, "futures_hedge")
            /\ positions' = [positions EXCEPT !["futures"] = ApplyFill(positions["futures"], f)]
        BY <2>1, <3>2 DEF Hedge
      <4>2. IsFill(f, "futures") /\ f.change = requested /\ "futures_hedge" \in Types
        BY <1>1, <2>5, <3>2, FillIsFill DEF Types
      <4> HIDE DEF f
      <4>3. Books(journal', positions', risk.total + 1)
        BY <1>1, <2>3, <4>1, <4>2, BooksKept
      <4>4. ApplyFill(p, f).quantity = p.quantity + f.change
        <5>1. Multiplier("futures") \in Nat \ {0}
          BY SimulationAssumption DEF Multiplier
        <5> HIDE DEF p
        <5> QED
          BY <2>3, <4>2, <5>1, FillApplied DEF IsFill
      <4>5. positions'["futures"] = ApplyFill(p, f)
        BY <2>3, <4>1
      <4> QED
        BY <3>2, <4>2, <4>3, <4>4, <4>5
    <3> QED
      BY <3>1, <3>2
  <2>7. NetDelta(observed, positions') = After(net, requested)
    <3>1. NetDelta(observed, positions') = observed.delta + (p.quantity + requested) * Contract.futuresDelta
      BY <2>6 DEF NetDelta, HedgeDelta
    <3>2. After(net, requested) = net + requested * Contract.futuresDelta
      BY DEF After
    <3> DEFINE q == p.quantity
               d == Contract.futuresDelta
    <3>3. q \in Int /\ d \in Int
      BY <2>3, <2>4
    <3> HIDE DEF q, d
    <3>4. /\ (q + requested) * d = q * d + requested * d
          /\ q * d \in Int /\ requested * d \in Int
      BY <2>5, <3>3
    <3>5. NetDelta(observed, positions') = observed.delta + (q + requested) * d
          /\ net = observed.delta + q * d /\ After(net, requested) = net + requested * d
      BY <2>4, <3>1, <3>2 DEF q, d
    <3> QED
      BY <2>4, <3>4, <3>5
  <2> DEFINE r == IF requested = 0 THEN risk ELSE RecordHedge(risk)
             value == PortfolioValue(journal', positions')
  <2>8. /\ AddsUp(r, earlier) /\ r.day = risk.day
        /\ r.hedges = risk.hedges + (IF requested = 0 THEN 0 ELSE 1)
        /\ r.total = risk.total + (IF requested = 0 THEN 0 ELSE 1)
    <3>1. risk.hedges + 0 = risk.hedges /\ risk.total + 0 = risk.total
      BY <1>1 DEF AddsUp, Risks
    <3> QED
      BY <1>1, <3>1, HedgeAddsUp
  <2>9. risk' = MarkRisk(r, value, day)
    BY <2>1 DEF Hedge
  <2>10. value \in Int /\ day \in Int
    BY <1>1, <2>6, ValueTyped, SessionTyped DEF Books
  <2> HIDE DEF r, value, day
  <2>11. AddsUp(risk', earlier') /\ risk'.hedges = r.hedges /\ risk'.total = r.total
    BY <1>1, <2>8, <2>9, <2>10, MarkAddsUp
  <2>12. risk'.hedges <= Limits.hedges
    <3>1. Limits.hedges \in Nat /\ risk.hedges \in Nat
      BY <1>1, SimulationAssumption DEF AddsUp, Risks
    <3> QED
      BY <1>1, <2>8, <2>11, <3>1
  <2>13. RiskInv'
    BY <2>1, <2>11, <2>12 DEF RiskInv
  <2>14. RunTyped'
    BY <1>1, <2>1 DEF RunTyped
  <2>15. ExposureInv'
    <3>1. NetDelta(observed, positions)' = NetDelta(observed, positions')
      BY <1>1 DEF NetDelta, HedgeDelta
    <3>2. Within(NetDelta(observed, positions))'
      BY <2>2, <2>7, <3>1 DEF Within, Abs
    <3> QED
      BY <1>1, <2>1, <3>2 DEF ExposureInv
  <2> QED
    BY <2>6, <2>8, <2>11, <2>13, <2>14, <2>15 DEF SimulationInv
<1> QED
  BY <1>2, <1>3

LEMMA AdvanceKeeps ==
  ASSUME SimulationInv, NEW m \in Scenarios, Advance(m)
  PROVE  SimulationInv'
<1>1. /\ step' = step + 1 /\ observed' = m /\ pc' = "state"
      /\ UNCHANGED <<policy, kill, clock, journal, positions, risk, earlier, outcome>>
  BY DEF Advance
<1> QED
  BY <1>1 DEF SimulationInv, RunTyped, RiskInv, ExposureInv

\* A portfolio that holds nothing has no residual: its value is its cash.
LEMMA NothingRemains ==
  ASSUME NEW L, NEW held, Accounts(L, held), \A i \in Traded : held[i].quantity = 0
  PROVE  Residual(L, held) = 0
<1>1. ASSUME NEW i \in Traded PROVE MarketValue(held[i]) = 0
  <2>1. held[i].mark \in Int /\ held[i].multiplier \in Int /\ held[i].quantity = 0
    BY DEF Accounts, Balanced, Position
  <2>2. held[i].mark * held[i].quantity = 0
    BY <2>1
  <2> QED
    BY <2>1, <2>2 DEF MarketValue
<1>2. "call" \in Traded /\ "put" \in Traded /\ "futures" \in Traded
  BY DEF Traded, Options
<1>3. /\ Cash(L) \in Int /\ TransactionCosts(L) \in Int /\ TradeCash(L) \in Int
      /\ Cash(L) = Limits.nav + TradeCash(L) - TransactionCosts(L) /\ Limits.nav \in Int
  <2>1. Cash(L) \in Int /\ TransactionCosts(L) \in Int /\ TradeCash(L) \in Int
    BY InitialEntry, CashAppended DEF Accounts
  <2> QED
    BY <2>1, SimulationAssumption DEF Accounts
<1>4. PortfolioValue(L, held) = Cash(L)
  BY <1>1, <1>2, <1>3 DEF PortfolioValue
<1>5. Residual(L, held) = PortfolioValue(L, held) - Limits.nav - (TradeCash(L) - TransactionCosts(L))
  BY DEF Residual, TradeCash
<1> QED
  BY <1>3, <1>4, <1>5

LEMMA ExitKeeps ==
  ASSUME SimulationInv, Exit
  PROVE  SimulationInv'
<1> DEFINE fills == [i \in Traded |->
             IF i \in Options THEN OptionFill(i, -positions[i].quantity, observed)
             ELSE FuturesFill(-positions[i].quantity, observed)]
           none(i) == positions[i].quantity = 0
           closed(i) == IF none(i) THEN <<>> ELSE Recorded(fills[i], "close")
           new(i) == IF none(i) THEN positions[i] ELSE ApplyFill(positions[i], fills[i])
<1>1. /\ pc = "exit" /\ observed \in Scenarios /\ clock \in Clocks /\ step \in Nat /\ policy \in Policies
      /\ Books(journal, positions, risk.total) /\ AddsUp(risk, earlier)
      /\ risk.hedges <= Limits.hedges /\ outcome # "reconciliation_failure"
      /\ UNCHANGED <<policy, kill, clock, step, observed, risk, earlier>> /\ pc' = "done"
      /\ outcome' = IF Residual(journal', positions') = 0 THEN outcome ELSE "reconciliation_failure"
  BY DEF Exit, SimulationInv, RunTyped, RiskInv, ExposureInv
<1>2. /\ positions' = [i \in Traded |-> new(i)]
      /\ journal' = journal \o closed("call") \o closed("put") \o closed("futures")
  BY DEF Exit
<1>3. /\ "call" \in Traded /\ "put" \in Traded /\ "futures" \in Traded
      /\ \A i \in Traded : i = "call" \/ i = "put" \/ i = "futures"
      /\ "call" # "put" /\ "put" # "futures" /\ "call" # "futures"
  BY DEF Traded, Options
<1>4. ASSUME NEW i \in Traded, positions[i].quantity # 0
      PROVE  IsFill(fills[i], i) /\ fills[i].change = -positions[i].quantity
  <2>1. -positions[i].quantity \in Int /\ -positions[i].quantity # 0
    <3>1. positions[i].quantity \in Int
      BY <1>1 DEF Books, Accounts, Balanced, Position
    <3> QED
      BY <1>4, <3>1
  <2>2. CASE i \in Options
    BY <1>1, <2>1, <2>2, FillIsFill
  <2>3. CASE i \notin Options
    <3>1. i = "futures"
      BY <2>3 DEF Traded
    <3>2. fills[i] = FuturesFill(-positions[i].quantity, observed)
      BY <2>3
    <3> HIDE DEF fills
    <3> QED
      BY <1>1, <2>1, <3>1, <3>2, FillIsFill
  <2> QED
    BY <2>2, <2>3
<1> HIDE DEF fills
<1> DEFINE one == [positions EXCEPT !["call"] =
                    IF positions["call"].quantity = 0 THEN positions["call"]
                    ELSE ApplyFill(positions["call"], fills["call"])]
           two == [one EXCEPT !["put"] =
                    IF one["put"].quantity = 0 THEN one["put"] ELSE ApplyFill(one["put"], fills["put"])]
           three == [two EXCEPT !["futures"] =
                      IF two["futures"].quantity = 0 THEN two["futures"]
                      ELSE ApplyFill(two["futures"], fills["futures"])]
<1>5. /\ Books(journal \o closed("call"), one, risk.total)
      /\ DOMAIN one = Traded /\ one["call"].quantity = 0 /\ one["call"] = new("call")
      /\ one["put"] = positions["put"] /\ one["futures"] = positions["futures"]
  BY <1>1, <1>3, <1>4, BooksClosed
<1> HIDE DEF one
<1>6. /\ Books(journal \o closed("call") \o closed("put"), two, risk.total)
      /\ DOMAIN two = Traded /\ two["put"].quantity = 0 /\ two["put"] = new("put")
      /\ two["call"] = one["call"] /\ two["futures"] = one["futures"]
  <2>1. one["put"].quantity # 0 => IsFill(fills["put"], "put") /\ fills["put"].change = -one["put"].quantity
    BY <1>3, <1>4, <1>5
  <2>2. /\ closed("put") = IF one["put"].quantity = 0 THEN <<>> ELSE Recorded(fills["put"], "close")
        /\ new("put") = IF one["put"].quantity = 0 THEN one["put"] ELSE ApplyFill(one["put"], fills["put"])
    BY <1>5
  <2> DEFINE L == journal \o closed("call")
  <2>3. Books(L, one, risk.total)
    BY <1>5
  <2> HIDE DEF L
  <2>4. /\ Books(L \o (IF one["put"].quantity = 0 THEN <<>> ELSE Recorded(fills["put"], "close")), two, risk.total)
        /\ DOMAIN two = Traded /\ two["put"].quantity = 0
        /\ two["put"] = IF one["put"].quantity = 0 THEN one["put"] ELSE ApplyFill(one["put"], fills["put"])
        /\ \A j \in Traded : j # "put" => two[j] = one[j]
    BY <1>3, <2>1, <2>3, BooksClosed
  <2> HIDE DEF two, closed, new
  <2> QED
    BY <1>3, <2>2, <2>4 DEF L
<1> HIDE DEF two
<1>7. /\ Books(journal', three, risk.total)
      /\ DOMAIN three = Traded /\ three["futures"].quantity = 0 /\ three["futures"] = new("futures")
      /\ three["call"] = two["call"] /\ three["put"] = two["put"]
  <2>1. two["futures"].quantity # 0 =>
          IsFill(fills["futures"], "futures") /\ fills["futures"].change = -two["futures"].quantity
    BY <1>3, <1>4, <1>5, <1>6
  <2>2. /\ closed("futures") = IF two["futures"].quantity = 0 THEN <<>> ELSE Recorded(fills["futures"], "close")
        /\ new("futures") = IF two["futures"].quantity = 0 THEN two["futures"]
                             ELSE ApplyFill(two["futures"], fills["futures"])
    BY <1>5, <1>6
  <2> DEFINE L == journal \o closed("call") \o closed("put")
  <2>3. Books(L, two, risk.total) /\ journal' = L \o closed("futures")
    BY <1>2, <1>6
  <2> HIDE DEF L
  <2>4. /\ Books(L \o (IF two["futures"].quantity = 0 THEN <<>> ELSE Recorded(fills["futures"], "close")),
                 three, risk.total)
        /\ DOMAIN three = Traded /\ three["futures"].quantity = 0
        /\ three["futures"] = IF two["futures"].quantity = 0 THEN two["futures"]
                               ELSE ApplyFill(two["futures"], fills["futures"])
        /\ \A j \in Traded : j # "futures" => three[j] = two[j]
    BY <1>3, <2>1, <2>3, BooksClosed
  <2> HIDE DEF three, closed, new
  <2> QED
    BY <1>3, <2>2, <2>3, <2>4
<1> HIDE DEF three
<1>8. three = positions'
  <2>1. three = [i \in Traded |-> three[i]]
    BY <1>7 DEF Books, Accounts
  <2>2. ASSUME NEW i \in Traded PROVE three[i] = new(i)
    BY <1>3, <1>5, <1>6, <1>7
  <2> HIDE DEF new
  <2> QED
    BY <1>2, <2>1, <2>2
<1>9. Books(journal', positions', risk.total) /\ \A i \in Traded : positions'[i].quantity = 0
  BY <1>3, <1>5, <1>6, <1>7, <1>8
<1>10. Residual(journal', positions') = 0
  BY <1>9, NothingRemains DEF Books
<1>11. RunTyped' /\ RiskInv'
  BY <1>1 DEF RunTyped, RiskInv
<1>12. ExposureInv'
  BY <1>1, <1>9, <1>10 DEF ExposureInv
<1> QED
  BY <1>1, <1>9, <1>11, <1>12 DEF SimulationInv

LEMMA SimulationStep ==
  ASSUME SimulationInv, [SimulationNext]_simulationVars
  PROVE  SimulationInv'
<1>1. CASE SimulationNext
  BY <1>1, EnterKeeps, AtStateKeeps, DecideKeeps, ExitKeeps, AdvanceKeeps DEF SimulationNext
<1>2. CASE UNCHANGED simulationVars
  <2>1. /\ SimulationInv
        /\ UNCHANGED <<pc, policy, kill, clock, step, observed, journal, positions, risk, earlier, outcome>>
    BY <1>2 DEF simulationVars
  <2>2. RunTyped' /\ RiskInv'
    BY <2>1 DEF SimulationInv, RunTyped, RiskInv, Session
  <2>3. Books(journal', positions', risk'.total)
    BY <2>1 DEF SimulationInv
  <2>4. ExposureInv'
    BY <2>1 DEF SimulationInv, ExposureInv, NetDelta, HedgeDelta
  <2> QED
    BY <2>2, <2>3, <2>4 DEF SimulationInv
<1> QED
  BY <1>1, <1>2

LEMMA SimulationHolds == SimulationSpec => []SimulationInv
BY SimulationStarts, SimulationStep, PTL DEF SimulationSpec

\* The results of the sessions add up to the result of the position at every state,
\* through every session that ends with a gap (mark_risk_state).
THEOREM SessionsAlwaysAddUp == SimulationSpec => []SessionsAddUp
<1>1. SimulationInv => SessionsAddUp
  <2> SUFFICES ASSUME SimulationInv PROVE earlier + risk.session = risk.position
    BY DEF SessionsAddUp
  <2>1. /\ AddsUp(risk, earlier)
        /\ risk.previous \in Int /\ risk.reference \in Int /\ risk.session_reference \in Int
    BY DEF SimulationInv, RiskInv, AddsUp, Risks
  <2> QED
    BY <2>1 DEF AddsUp
<1> QED
  BY <1>1, SimulationHolds, PTL

\* A decision never leaves more delta than the limit; no session has more hedges than
\* the limit, and all of them are in the ledger; nothing is held after a run, and its
\* result has no residual (run_simulation, state_risk_decisions, reconcile).
THEOREM ExposureIsControlled == SimulationSpec => []ExposureControlled
<1>1. SimulationInv => ExposureControlled
  BY DEF SimulationInv, ExposureInv, RiskInv, Books, HedgesOf, ExposureControlled
<1> QED
  BY <1>1, SimulationHolds, PTL

\* The value of the portfolio is the capital and what its positions have won, less the
\* costs, but for a paisa for each unit traded and held at each trade (record_fill,
\* apply_fill, mark).
THEOREM AccountsAlwaysAgree == SimulationSpec => []AccountsAgree
<1>1. SimulationInv => AccountsAgree
  BY AccountsAreClose DEF SimulationInv, Books
<1> QED
  BY <1>1, SimulationHolds, PTL

(***************************************************************************)
(* The store of its run                                                    *)

Fresh == {"idle", "checking", "clearing", "making", "starting"}
Places == Ended \cup Fresh \cup {"writing", "publishing", "failing", "removing", "replacing"}

Directories ==
  [there : BOOLEAN, manifest : {"none", "running", "complete", "failed"}, artifacts : 0..ArtifactCount]

StoresTyped ==
  /\ store \in {"simulation", "rv"}
  /\ at \in [Processes -> Places]
  /\ written \in [Processes -> 0..ArtifactCount]
  /\ temporary \in Directories /\ final \in Directories
  /\ overlapped \in BOOLEAN

\* A process that has not written yet has written nothing.
FreshWroteNothing == \A p \in Processes : at[p] \in Fresh => written[p] = 0

\* Unless two were in create_run at once, one process at a time is.
OneAtATime ==
  ~overlapped => \A p, q \in Processes : at[p] \notin Ended /\ at[q] \notin Ended => p = q

\* What a process finds in the temporary directory when no other one was there.
OwnTemporary ==
  ~overlapped => \A p \in Processes :
    /\ at[p] = "starting" => temporary = NewDirectory
    /\ at[p] = "writing" => temporary.artifacts = written[p]
    /\ at[p] = "publishing" => temporary.manifest = "complete" /\ temporary.artifacts = ArtifactCount
    /\ at[p] \in {"removing", "replacing"} => temporary.manifest = "failed"

OnlyResearchRemoves == \A p \in Processes : at[p] = "removing" => store = "rv"

\* The id of a research run has one process, and its directory appears at its end.
OneResearchRun ==
  store = "rv" =>
    /\ \A p, q \in Processes : at[p] # "idle" /\ at[q] # "idle" => p = q
    /\ final.there => \E p \in Processes : at[p] \in {"completed", "failed"}

RunsInv == StoresTyped /\ OnlyResearchRemoves /\ FreshWroteNothing /\ OneAtATime /\ OwnTemporary /\ OneResearchRun

LEMMA SomeDirectories ==
  /\ NoDirectory \in Directories /\ NewDirectory \in Directories
  /\ NoDirectory.there = FALSE
  /\ NewDirectory.manifest = "none" /\ NewDirectory.artifacts = 0
<1>1. 0 \in 0..ArtifactCount
  BY ArtifactAssumption
<1>2. NoDirectory \in Directories
  BY <1>1 DEF NoDirectory, Directories
<1>3. NewDirectory \in Directories
  BY <1>2 DEF NewDirectory, Directories
<1>4. NewDirectory.manifest = "none" /\ NewDirectory.artifacts = 0
  BY DEF NewDirectory, NoDirectory
<1>5. NoDirectory.there = FALSE
  BY DEF NoDirectory
<1> QED
  BY <1>2, <1>3, <1>4, <1>5

LEMMA RunsInit == StoresInit => RunsInv
<1> SUFFICES ASSUME StoresInit PROVE RunsInv
  OBVIOUS
<1>1. StoresTyped
  <2>1. 0 \in 0..ArtifactCount /\ "idle" \in Places
    BY ArtifactAssumption DEF Places, Fresh
  <2> QED
    BY <2>1, SomeDirectories DEF StoresInit, StoresTyped
<1>2. OnlyResearchRemoves /\ FreshWroteNothing /\ OneAtATime /\ OwnTemporary /\ OneResearchRun
  BY SomeDirectories
  DEF StoresInit, OnlyResearchRemoves, FreshWroteNothing, OneAtATime, OwnTemporary, OneResearchRun, Ended
<1> QED
  BY <1>1, <1>2 DEF RunsInv

LEMMA RunsStep == RunsInv /\ [StoresNext]_storeVars => RunsInv'
<1> SUFFICES ASSUME RunsInv, [StoresNext]_storeVars PROVE RunsInv'
  OBVIOUS
<1> USE ArtifactAssumption
    DEF RunsInv, StoresTyped, OnlyResearchRemoves, FreshWroteNothing, OneAtATime, OwnTemporary, OneResearchRun,
        Places, Fresh, Ended, GoTo, Directories
<1>1. CASE UNCHANGED storeVars
  BY <1>1 DEF storeVars
<1>2. ASSUME NEW p \in Processes, Begin(p) PROVE RunsInv'
  <2>1. StoresTyped' /\ OnlyResearchRemoves' /\ FreshWroteNothing' /\ OneResearchRun'
    BY <1>2 DEF Begin
  <2>2. OneAtATime'
    BY <1>2 DEF Begin
  <2>3. OwnTemporary'
    BY <1>2 DEF Begin
  <2> QED
    BY <2>1, <2>2, <2>3
<1>3. ASSUME NEW p \in Processes, CheckFinal(p) PROVE RunsInv'
  BY <1>3 DEF CheckFinal
<1>4. ASSUME NEW p \in Processes, ClearTemporary(p) PROVE RunsInv'
  BY <1>4 DEF ClearTemporary, NoDirectory
<1>5. ASSUME NEW p \in Processes, MakeTemporary(p) PROVE RunsInv'
  BY <1>5, SomeDirectories DEF MakeTemporary
<1>6. ASSUME NEW p \in Processes, WriteRunning(p) PROVE RunsInv'
  BY <1>6 DEF WriteRunning, WriteOr, NewDirectory, NoDirectory
<1>7. ASSUME NEW p \in Processes, WriteArtifact(p) PROVE RunsInv'
  BY <1>7 DEF WriteArtifact, WriteOr
<1>8. ASSUME NEW p \in Processes, ArtifactsFail(p) PROVE RunsInv'
  BY <1>8 DEF ArtifactsFail
<1>9. ASSUME NEW p \in Processes, WriteComplete(p) PROVE RunsInv'
  BY <1>9 DEF WriteComplete, WriteOr
<1>10. ASSUME NEW p \in Processes, PublishComplete(p) PROVE RunsInv'
  <2>1. StoresTyped' /\ OnlyResearchRemoves' /\ FreshWroteNothing'
    BY <1>10, SomeDirectories DEF PublishComplete, Replace
  <2>2. OneAtATime' /\ OwnTemporary'
    BY <1>10 DEF PublishComplete, Replace
  <2>3. OneResearchRun'
    BY <1>10 DEF PublishComplete, Replace
  <2> QED
    BY <2>1, <2>2, <2>3
<1>11. ASSUME NEW p \in Processes, WriteFailed(p) PROVE RunsInv'
  BY <1>11 DEF WriteFailed, WriteOr
<1>12. ASSUME NEW p \in Processes, RemoveFinal(p) PROVE RunsInv'
  BY <1>12 DEF RemoveFinal, NoDirectory
<1>13. ASSUME NEW p \in Processes, PublishFailed(p) PROVE RunsInv'
  <2>1. StoresTyped' /\ OnlyResearchRemoves' /\ FreshWroteNothing'
    BY <1>13, SomeDirectories DEF PublishFailed, Replace
  <2>2. OneAtATime' /\ OwnTemporary'
    BY <1>13 DEF PublishFailed, Replace
  <2>3. OneResearchRun'
    BY <1>13 DEF PublishFailed, Replace
  <2> QED
    BY <2>1, <2>2, <2>3
<1>14. ASSUME NEW p \in Processes, Kill(p) PROVE RunsInv'
  BY <1>14 DEF Kill
<1>15. ASSUME NEW p \in Processes, RunAgain(p) PROVE RunsInv'
  BY <1>15 DEF RunAgain
<1> QED
  BY <1>1, <1>2, <1>3, <1>4, <1>5, <1>6, <1>7, <1>8, <1>9, <1>10, <1>11, <1>12, <1>13, <1>14, <1>15
     DEF StoresNext

LEMMA RunsHold == StoresSpec => []RunsInv
BY RunsInit, RunsStep, PTL DEF StoresSpec

\* A run that is there is replaced by nothing.
LEMMA FinalStands ==
  ASSUME RunsInv, [StoresNext]_storeVars, final.there, final # NewDirectory
  PROVE  final' = final
<1>1. CASE UNCHANGED storeVars
  BY <1>1 DEF storeVars
<1>2. ASSUME NEW p \in Processes, PublishComplete(p) \/ PublishFailed(p) PROVE final' = final
  BY <1>2, SomeDirectories DEF PublishComplete, PublishFailed, CanReplace
<1>3. ASSUME NEW p \in Processes, RemoveFinal(p) PROVE FALSE
  <2>1. store = "rv"
    BY <1>3 DEF RemoveFinal, RunsInv, OnlyResearchRemoves
  <2> QED
    BY <1>3, <2>1 DEF RemoveFinal, RunsInv, OneResearchRun
<1> QED
  BY <1>1, <1>2, <1>3
  DEF StoresNext, Begin, CheckFinal, ClearTemporary, MakeTemporary, WriteRunning, WriteArtifact,
      ArtifactsFail, WriteComplete, WriteFailed, Kill, RunAgain

\* A process alone in the directories publishes a failed run or all the artifacts.
LEMMA WholeRunAppears ==
  ASSUME RunsInv, [StoresNext]_storeVars, ~final.there, final'.there, ~overlapped'
  PROVE  \/ final'.manifest = "failed"
         \/ final'.manifest = "complete" /\ final'.artifacts = ArtifactCount
<1>1. CASE UNCHANGED storeVars
  BY <1>1 DEF storeVars
<1>2. ASSUME NEW p \in Processes, PublishComplete(p)
      PROVE  final'.manifest = "complete" /\ final'.artifacts = ArtifactCount
  BY <1>2 DEF PublishComplete, Replace, RunsInv, OwnTemporary
<1>3. ASSUME NEW p \in Processes, PublishFailed(p) PROVE final'.manifest = "failed"
  BY <1>3 DEF PublishFailed, Replace, RunsInv, OwnTemporary
<1>4. ASSUME NEW p \in Processes, RemoveFinal(p) PROVE FALSE
  BY <1>4, SomeDirectories DEF RemoveFinal
<1> QED
  BY <1>1, <1>2, <1>3, <1>4
  DEF StoresNext, Begin, CheckFinal, ClearTemporary, MakeTemporary, WriteRunning, WriteArtifact,
      ArtifactsFail, WriteComplete, WriteFailed, Kill, RunAgain

\* The promise of create_run: a published run is immutable, and whole unless another
\* process was in create_run with it, wherever processes are killed.
THEOREM PublishedRunsStay == StoresSpec => PublishedRunsStand
<1>1. RunsInv /\ [StoresNext]_storeVars =>
        [/\ final.there /\ final # NewDirectory => final' = final
         /\ ~final.there /\ final'.there /\ ~overlapped' =>
              \/ final'.manifest = "failed"
              \/ final'.manifest = "complete" /\ final'.artifacts = ArtifactCount]_storeVars
  BY FinalStands, WholeRunAppears
<1> QED
  BY <1>1, RunsHold, PTL DEF StoresSpec, PublishedRunsStand
=============================================================================
