---------------------------- MODULE SproutLemmas ----------------------------
(***************************************************************************)
(* What the proofs about Sprout rest on: sums of bytes, the draining of    *)
(* the estimate, the inductive invariants, and what the operators of the   *)
(* client and the receiver return in states that satisfy them.             *)
(***************************************************************************)
EXTENDS Sprout, FiniteSetTheorems, WellFoundedInduction, TLAPS

-----------------------------------------------------------------------------
(* Sums.  A sum of natural numbers is the number of elements of a set with *)
(* f[x] elements for each x: facts on cardinality are facts on sums.       *)

LEMMA LeastMember ==
    ASSUME NEW T, T \subseteq Nat, T # {}
    PROVE  \E m \in T : \A k \in T : m <= k
<1> DEFINE R == {ss \in Nat \X Nat : ss[1] < ss[2]}
<1>1. IsWellFoundedOn(R, Nat)
  BY NatLessThanWellFounded DEF OpToRel
<1> HIDE DEF R
<1>2. PICK m \in T : \A k \in T : ~ (<<k, m>> \in R)
  BY <1>1, WFMin, Zenon
<1>3. \A k \in T : ~ (k < m)
  BY <1>2, Zenon DEF R
<1> QED BY <1>3

Units(f, s) == UNION {{x} \X (1..f[x]) : x \in s}

Choice(s) == CHOOSE x \in s : TRUE

SumStep(f, S, h) ==
    [s \in SUBSET S |-> IF s = {} THEN 0 ELSE f[Choice(s)] + h[s \ {Choice(s)}]]

\* The fold behind SumFunction.
LEMMA SumIsFold ==
    ASSUME NEW f
    PROVE  SumFunction(f) = (CHOOSE h : h = SumStep(f, DOMAIN f, h))[DOMAIN f]
BY DEF SumFunction, SumFunctionOnSet, FoldFunctionOnSet, MapThenFoldSet, SumStep, Choice

LEMMA UnitsOfOne ==
    ASSUME NEW x, NEW n \in Nat
    PROVE  IsFiniteSet({x} \X (1..n)) /\ Cardinality({x} \X (1..n)) = n
<1>1. IsFiniteSet({x}) /\ Cardinality({x}) = 1
  BY FS_Singleton
<1>2. IsFiniteSet(1..n) /\ Cardinality(1..n) = n
  BY FS_Interval
<1>3. /\ IsFiniteSet({x} \X (1..n))
      /\ Cardinality({x} \X (1..n)) = Cardinality({x}) * Cardinality(1..n)
  BY <1>1, <1>2, FS_Product, Zenon
<1> QED BY <1>1, <1>2, <1>3

LEMMA UnitsFinite ==
    ASSUME NEW f, NEW s, IsFiniteSet(s), \A x \in s : f[x] \in Nat
    PROVE  IsFiniteSet(Units(f, s)) /\ Cardinality(Units(f, s)) \in Nat
<1> DEFINE T == {{x} \X (1..f[x]) : x \in s}
           g == [x \in s |-> {x} \X (1..f[x])]
<1>1. g \in Surjection(s, T)
  BY Zenon DEF Surjection
<1>2. IsFiniteSet(T)
  BY <1>1, FS_Surjection
<1>3. \A t \in T : IsFiniteSet(t)
  <2>1. \A x \in s : IsFiniteSet({x} \X (1..f[x]))
    BY UnitsOfOne, Zenon
  <2> QED BY <2>1
<1>4. IsFiniteSet(UNION T)
  <2> HIDE DEF T
  <2> QED BY <1>2, <1>3, FS_UNION
<1>5. IsFiniteSet(Units(f, s))
  BY <1>4 DEF Units
<1> QED BY <1>5, FS_CardinalityType

LEMMA UnitsSplit ==
    ASSUME NEW f, NEW s, IsFiniteSet(s), \A x \in s : f[x] \in Nat, NEW x \in s
    PROVE  Cardinality(Units(f, s)) = f[x] + Cardinality(Units(f, s \ {x}))
<1> DEFINE A == {x} \X (1..f[x])
           B == Units(f, s \ {x})
<1>1. Units(f, s) = A \cup B
  BY DEF Units
<1>2. A \cap B = {}
  BY DEF Units
<1>3. IsFiniteSet(A) /\ Cardinality(A) = f[x]
  BY UnitsOfOne, Zenon
<1>4. IsFiniteSet(s \ {x})
  BY FS_RemoveElement
<1>5. IsFiniteSet(B) /\ Cardinality(B) \in Nat
  BY <1>4, UnitsFinite
<1> HIDE DEF A, B
<1>6. Cardinality(A \cup B) = Cardinality(A) + Cardinality(B) - Cardinality(A \cap B)
  BY <1>3, <1>5, FS_Union
<1>7. Cardinality(A \cap B) = 0
  BY <1>2, FS_EmptySet
<1>8. f[x] \in Nat
  OBVIOUS
<1>9. Cardinality(A \cup B) = f[x] + Cardinality(B)
  BY <1>3, <1>5, <1>6, <1>7, <1>8
<1> QED BY <1>1, <1>9 DEF B

\* A sum counts units.
LEMMA SumIsCount ==
    ASSUME NEW f, IsFiniteSet(DOMAIN f), \A x \in DOMAIN f : f[x] \in Nat
    PROVE  /\ SumFunction(f) = Cardinality(Units(f, DOMAIN f))
           /\ IsFiniteSet(Units(f, DOMAIN f))
           /\ SumFunction(f) \in Nat
<1> DEFINE S == DOMAIN f
           g == [s \in SUBSET S |-> Cardinality(Units(f, s))]
<1>1. \A s \in SUBSET S : IsFiniteSet(s) /\ \A x \in s : f[x] \in Nat
  BY FS_Subset
<1>2. \A s \in SUBSET S : s # {} =>
         /\ Choice(s) \in s /\ s \ {Choice(s)} \in SUBSET S
         /\ g[s] = f[Choice(s)] + g[s \ {Choice(s)}]
  <2> SUFFICES ASSUME NEW s \in SUBSET S, s # {}
               PROVE  /\ Choice(s) \in s /\ s \ {Choice(s)} \in SUBSET S
                      /\ g[s] = f[Choice(s)] + g[s \ {Choice(s)}]
    BY Zenon
  <2>1. Choice(s) \in s
    BY DEF Choice
  <2>2. Cardinality(Units(f, s)) = f[Choice(s)] + Cardinality(Units(f, s \ {Choice(s)}))
    BY <1>1, <2>1, UnitsSplit
  <2>3. s \ {Choice(s)} \in SUBSET S
    OBVIOUS
  <2> QED BY <2>1, <2>2, <2>3
<1>3. g[{}] = 0
  <2>1. Units(f, {}) = {}
    BY DEF Units
  <2> QED BY <2>1, FS_EmptySet
<1>4. g \in [SUBSET S -> Nat]
  BY <1>1, UnitsFinite
<1> HIDE DEF g
<1>5. g = SumStep(f, S, g)
  BY <1>2, <1>3, <1>4, Zenon DEF SumStep
<1>6. ASSUME NEW h, h = SumStep(f, S, h)
      PROVE  h = g
  <2> DEFINE Bad == {s \in SUBSET S : h[s] # g[s]}
             T == {Cardinality(s) : s \in Bad}
  <2>1. \A s \in SUBSET S : h[s] = IF s = {} THEN 0
                                   ELSE f[Choice(s)] + h[s \ {Choice(s)}]
    BY <1>6, Zenon DEF SumStep
  <2>2. CASE Bad # {}
    <3>1. T \subseteq Nat /\ T # {}
      BY <1>1, <2>2, FS_CardinalityType
    <3>2. PICK m \in T : \A k \in T : m <= k
      BY <3>1, LeastMember, Zenon
    <3>3. PICK s \in Bad : m = Cardinality(s)
      BY <3>2
    <3>4. s # {}
      BY <1>3, <2>1, Zenon
    <3> DEFINE t == s \ {Choice(s)}
    <3>5. Choice(s) \in s /\ t \in SUBSET S /\ g[s] = f[Choice(s)] + g[t]
      BY <1>2, <3>4, Zenon
    <3>6. Cardinality(t) = Cardinality(s) - 1 /\ Cardinality(s) \in Nat
      BY <1>1, <3>5, FS_RemoveElement, FS_CardinalityType, Zenon
    <3>7. h[s] = f[Choice(s)] + h[t]
      BY <2>1, <3>4
    <3>8. t \in Bad
      BY <3>5, <3>7
    <3>9. m <= Cardinality(t)
      BY <3>2, <3>8
    <3> QED BY <3>3, <3>6, <3>9
  <2>3. CASE Bad = {}
    <3>1. h = [s \in SUBSET S |-> h[s]] /\ g = [s \in SUBSET S |-> g[s]]
      BY <1>4, <1>6 DEF SumStep
    <3>2. \A s \in SUBSET S : h[s] = g[s]
      BY <2>3
    <3> QED BY <3>1, <3>2, Zenon
  <2> QED BY <2>2, <2>3
<1>7. (CHOOSE h : h = SumStep(f, S, h)) = g
  BY <1>5, <1>6
<1>8. SumFunction(f) = g[S]
  BY <1>7, SumIsFold
<1>9. SumFunction(f) = Cardinality(Units(f, S))
  BY <1>8 DEF g
<1> QED BY <1>9, UnitsFinite

LEMMA SumOfTwo ==
    ASSUME NEW f, IsFiniteSet(DOMAIN f), \A x \in DOMAIN f : f[x] \in Nat,
           NEW g, IsFiniteSet(DOMAIN g), \A x \in DOMAIN g : g[x] \in Nat,
           DOMAIN f \cap DOMAIN g = {},
           NEW h, DOMAIN h = DOMAIN f \cup DOMAIN g,
           \A x \in DOMAIN f : h[x] = f[x],
           \A x \in DOMAIN g : h[x] = g[x]
    PROVE  SumFunction(h) = SumFunction(f) + SumFunction(g)
<1> DEFINE A == Units(f, DOMAIN f)
           B == Units(g, DOMAIN g)
           C == Units(h, DOMAIN h)
<1>1. IsFiniteSet(A) /\ SumFunction(f) = Cardinality(A) /\ Cardinality(A) \in Nat
  BY SumIsCount
<1>2. IsFiniteSet(B) /\ SumFunction(g) = Cardinality(B) /\ Cardinality(B) \in Nat
  BY SumIsCount
<1>3. IsFiniteSet(DOMAIN h)
  BY FS_Union, Zenon
<1>4. \A x \in DOMAIN h : h[x] \in Nat
  OBVIOUS
<1>5. SumFunction(h) = Cardinality(C)
  BY <1>3, <1>4, SumIsCount
<1>6. C = A \cup B
  <2>1. Units(h, DOMAIN f) = A /\ Units(h, DOMAIN g) = B
    BY DEF Units
  <2>2. C = Units(h, DOMAIN f) \cup Units(h, DOMAIN g)
    BY DEF Units
  <2> QED BY <2>1, <2>2, Zenon
<1>7. A \cap B = {}
  BY DEF Units
<1> HIDE DEF A, B, C
<1>8. Cardinality(A \cup B) = Cardinality(A) + Cardinality(B) - Cardinality(A \cap B)
  BY <1>1, <1>2, FS_Union
<1>9. Cardinality(A \cap B) = 0
  BY <1>7, FS_EmptySet
<1>10. Cardinality(C) = Cardinality(A) + Cardinality(B)
  BY <1>1, <1>2, <1>6, <1>8, <1>9
<1> QED BY <1>1, <1>2, <1>5, <1>10

LEMMA SumMonotone ==
    ASSUME NEW f, NEW g, IsFiniteSet(DOMAIN g), \A x \in DOMAIN g : g[x] \in Nat,
           DOMAIN f \subseteq DOMAIN g,
           \A x \in DOMAIN f : f[x] = g[x]
    PROVE  SumFunction(f) <= SumFunction(g)
<1>1. IsFiniteSet(DOMAIN f) /\ \A x \in DOMAIN f : f[x] \in Nat
  BY FS_Subset
<1>2. SumFunction(f) = Cardinality(Units(f, DOMAIN f))
  BY <1>1, SumIsCount
<1>3. /\ SumFunction(g) = Cardinality(Units(g, DOMAIN g))
      /\ IsFiniteSet(Units(g, DOMAIN g))
  BY SumIsCount
<1>4. Units(f, DOMAIN f) \subseteq Units(g, DOMAIN g)
  BY DEF Units
<1>5. Cardinality(Units(f, DOMAIN f)) <= Cardinality(Units(g, DOMAIN g))
  BY <1>3, <1>4, FS_Subset
<1> QED BY <1>2, <1>3, <1>5

\* Intervals that do not overlap, within a..b, are together no longer than b - a.
LEMMA Packing ==
    ASSUME NEW f, IsFiniteSet(DOMAIN f), \A x \in DOMAIN f : f[x] \in Nat,
           NEW at, \A x \in DOMAIN f : at[x] \in Nat,
           NEW a \in Nat, NEW b \in Nat, a <= b,
           \A x \in DOMAIN f : a <= at[x] /\ at[x] + f[x] <= b,
           \A x, y \in DOMAIN f :
              x # y => at[x] + f[x] <= at[y] \/ at[y] + f[y] <= at[x]
    PROVE  SumFunction(f) <= b - a
<1> DEFINE U == Units(f, DOMAIN f)
           T == (a + 1)..b
           place == [u \in U |-> at[u[1]] + u[2]]
<1>1. \A u \in U : /\ u[1] \in DOMAIN f /\ u[2] \in 1..f[u[1]]
                   /\ u = <<u[1], u[2]>>
  BY DEF Units
<1>2. place \in [U -> T]
  <2> SUFFICES ASSUME NEW u \in U PROVE at[u[1]] + u[2] \in T
    OBVIOUS
  <2> DEFINE x == u[1] 
             i == u[2]
  <2>1. x \in DOMAIN f /\ i \in 1..f[x]
    BY <1>1
  <2>2. at[x] \in Nat /\ f[x] \in Nat /\ a <= at[x] /\ at[x] + f[x] <= b
    BY <2>1
  <2> HIDE DEF x, i
  <2>3. at[x] + i \in T
    BY <2>1, <2>2
  <2> QED BY <2>3 DEF x, i
<1>3. ASSUME NEW u \in U, NEW v \in U, place[u] = place[v]
      PROVE  u = v
  <2> DEFINE x == u[1]
             i == u[2]
             y == v[1]
             j == v[2]
  <2>1. /\ x \in DOMAIN f /\ i \in 1..f[x] /\ y \in DOMAIN f /\ j \in 1..f[y]
        /\ u = <<x, i>> /\ v = <<y, j>>
    BY <1>1
  <2>2. at[x] + i = at[y] + j
    BY <1>3
  <2> HIDE DEF x, y, i, j
  <2>3. at[x] \in Nat /\ f[x] \in Nat /\ at[y] \in Nat /\ f[y] \in Nat
    BY <2>1
  <2>4. x = y
    <3> SUFFICES ASSUME x # y PROVE FALSE
      OBVIOUS
    <3>1. at[x] + f[x] <= at[y] \/ at[y] + f[y] <= at[x]
      BY <2>1
    <3> QED BY <2>1, <2>2, <2>3, <3>1
  <2>5. i = j
    <3>1. at[x] + i = at[x] + j
      BY <2>2, <2>4
    <3> QED BY <2>1, <2>3, <2>4, <3>1
  <2> QED BY <2>1, <2>4, <2>5
<1>4. IsFiniteSet(T) /\ Cardinality(T) = b - a
  <2>1. a + 1 \in Int /\ b \in Int
    OBVIOUS
  <2>2. /\ IsFiniteSet((a + 1)..b)
        /\ Cardinality((a + 1)..b) = IF a + 1 > b THEN 0 ELSE b - (a + 1) + 1
    BY <2>1, FS_Interval
  <2> QED BY <2>2
<1>5. place \in Injection(U, T)
  <2> HIDE DEF U, T
  <2> QED BY <1>2, <1>3 DEF Injection, IsInjective
<1>6. Cardinality(U) <= Cardinality(T)
  <2> HIDE DEF U, T, place
  <2> QED BY <1>4, <1>5, FS_Injection
<1>7. SumFunction(f) = Cardinality(U)
  BY SumIsCount
<1> QED BY <1>4, <1>6, <1>7

-----------------------------------------------------------------------------
(* The queue estimate drains by what the forecast says, never below 0.     *)

DrainStep(e, f, from, to, h) ==
    [i \in from..to |-> IF i = from THEN e ELSE Most(0, h[i - 1] - Quantum * f.counts[i])]

LEMMA DrainedIsStep ==
    ASSUME NEW e, NEW f, NEW from, NEW to, from < to
    PROVE  Drained(e, f, from, to) = (CHOOSE h : h = DrainStep(e, f, from, to, h))[to]
BY DEF Drained, DrainStep

LEMMA DrainExists ==
    ASSUME NEW e, NEW f, NEW from \in Nat, NEW to \in Nat, from <= to
    PROVE  \E h : h = DrainStep(e, f, from, to, h)
<1> DEFINE Has(n) == \E h : h = DrainStep(e, f, from, n, h)
           Bad == {n \in from..to : ~Has(n)}
<1> SUFFICES ASSUME Bad # {} PROVE FALSE
  OBVIOUS
<1>1. PICK n \in Bad : \A k \in Bad : n <= k
  <2>1. Bad \subseteq Nat
    OBVIOUS
  <2> HIDE DEF Bad
  <2> QED BY <2>1, LeastMember, Zenon
<1>2. n \in from..to /\ ~Has(n)
  OBVIOUS
<1>3. CASE n = from
  <2> DEFINE h == [i \in from..n |-> e]
  <2>1. h = DrainStep(e, f, from, n, h)
    BY <1>3 DEF DrainStep
  <2> HIDE DEF h
  <2> QED BY <1>2, <2>1
<1>4. CASE n # from
  <2>1. n - 1 \in from..to /\ n - 1 \notin Bad
    <3>1. n - 1 \in from..to /\ ~ (n <= n - 1)
      BY <1>2, <1>4
    <3> QED BY <1>1, <3>1
  <2>2. PICK h : h = DrainStep(e, f, from, n - 1, h)
    BY <2>1
  <2> DEFINE x == Most(0, h[n - 1] - Quantum * f.counts[n])
             g == [i \in from..n |-> IF i = n THEN x ELSE h[i]]
  <2>3. \A i \in from..n : g[i] = DrainStep(e, f, from, n, g)[i]
    <3> SUFFICES ASSUME NEW i \in from..n
                 PROVE  g[i] = IF i = from THEN e
                               ELSE Most(0, g[i - 1] - Quantum * f.counts[i])
      BY DEF DrainStep
    <3>1. CASE i = n
      <4>1. g[i] = x /\ g[n - 1] = h[n - 1] /\ i # from
        BY <1>2, <1>4, <3>1
      <4> QED BY <3>1, <4>1
    <3>2. CASE i # n
      <4>1. i \in from..(n - 1) /\ g[i] = h[i]
        BY <1>2, <3>2
      <4>2. h[i] = IF i = from THEN e ELSE Most(0, h[i - 1] - Quantum * f.counts[i])
        BY <2>2, <4>1 DEF DrainStep
      <4>3. CASE i = from
        BY <4>1, <4>2, <4>3
      <4>4. CASE i # from
        <5>1. i - 1 \in from..n /\ i - 1 # n
          BY <1>2, <4>1, <4>4
        <5>2. g[i - 1] = h[i - 1]
          BY <5>1
        <5> HIDE DEF g
        <5> QED BY <4>1, <4>2, <4>4, <5>2
      <4> QED BY <4>3, <4>4
    <3> QED BY <3>1, <3>2
  <2>4. g = DrainStep(e, f, from, n, g)
    <3>1. g = [i \in from..n |-> g[i]]
      OBVIOUS
    <3>2. DrainStep(e, f, from, n, g) = [i \in from..n |-> DrainStep(e, f, from, n, g)[i]]
      BY DEF DrainStep
    <3> HIDE DEF g
    <3> QED BY <2>3, <3>1, <3>2
  <2> HIDE DEF g
  <2> QED BY <1>2, <2>4
<1> QED BY <1>3, <1>4

LEMMA DrainedFacts ==
    ASSUME NEW e \in Int, NEW f, NEW from \in Nat, NEW to \in Int,
           \A i \in (from + 1)..to : Quantum * f.counts[i] \in Nat
    PROVE  /\ Drained(e, f, from, to) \in Int
           /\ e >= 0 => Drained(e, f, from, to) >= 0
<1>1. CASE ~(from < to)
  BY <1>1 DEF Drained
<1>2. CASE from < to
  <2> DEFINE d == CHOOSE h : h = DrainStep(e, f, from, to, h)
  <2>0. to \in Nat /\ from <= to
    BY <1>2
  <2>1. d = DrainStep(e, f, from, to, d)
    BY <2>0, DrainExists, Zenon
  <2>2. Drained(e, f, from, to) = d[to]
    BY <1>2, DrainedIsStep
  <2> HIDE DEF d
  <2> DEFINE Good(n) == d[n] \in Int /\ (e >= 0 => d[n] >= 0)
             Bad == {n \in from..to : ~Good(n)}
  <2>3. \A i \in from..to :
           d[i] = IF i = from THEN e ELSE Most(0, d[i - 1] - Quantum * f.counts[i])
    BY <2>1 DEF DrainStep
  <2>4. CASE Bad # {}
    <3>1. PICK n \in Bad : \A k \in Bad : n <= k
      <4>1. Bad \subseteq Nat
        OBVIOUS
      <4> HIDE DEF Bad
      <4> QED BY <2>4, <4>1, LeastMember, Zenon
    <3>2. n \in from..to /\ ~Good(n)
      OBVIOUS
    <3>3. n # from
      BY <2>3, <3>2
    <3>4. n - 1 \in from..to /\ ~ (n <= n - 1) /\ n \in (from + 1)..to
      BY <3>2, <3>3
    <3>5. d[n - 1] \in Int
      BY <3>1, <3>4
    <3>6. d[n] = Most(0, d[n - 1] - Quantum * f.counts[n]) /\ Quantum * f.counts[n] \in Nat
      BY <2>3, <3>2, <3>3, <3>4
    <3> HIDE DEF Bad
    <3>7. Good(n)
      BY <3>5, <3>6 DEF Most
    <3> QED BY <3>2, <3>7
  <2>5. CASE Bad = {}
    <3>1. to \in from..to
      BY <2>0
    <3>2. Good(to)
      BY <2>5, <3>1
    <3> QED BY <2>2, <3>2
  <2> QED BY <2>4, <2>5
<1> QED BY <1>1, <1>2

-----------------------------------------------------------------------------
(* The inductive invariants.                                               *)

\* Where the sequence numbers of a packet end, and packets that do not overlap.
End(p) == p.seq + p.len + Overhead
Clear(p, q) == End(p) <= q.seq \/ End(q) <= p.seq

Packet == [seq: Nat, len: Nat, sent: Nat, copies: Nat, throwaway: Nat]
Key == [seq: Nat, len: Nat]
Prediction == [count: Nat, counts: Forecasts]

\* The client's numbers.
ClientInv ==
    /\ now \in Nat /\ next_seq \in Nat /\ bytes_to_send \in Nat /\ estimate \in Int
    /\ client \in {"loop", "burst", "wait"}
    /\ forecast \in Prediction
    /\ forecast_time \in Int /\ forecast_time <= now
    /\ forecast_tick \in 0..(Ticks(forecast) - 1)
    /\ answers \subseteq Prediction

\* The queue of packets sent is in order.
QueueInv ==
    /\ sent_packets \in Seq([seq: Nat, time: Nat])
    /\ \A i \in 1..Len(sent_packets) :
          sent_packets[i].time <= now /\ sent_packets[i].seq <= next_seq
    /\ \A i, j \in 1..Len(sent_packets) :
          i <= j => sent_packets[i].seq <= sent_packets[j].seq

\* Packets on their way and lost.
PacketInv ==
    /\ IsFiniteSet(data) /\ data \cup lost \subseteq Packet
    /\ \A p \in data \cup lost :
          /\ p.sent <= now /\ End(p) <= next_seq
          /\ p.throwaway <= p.seq /\ p.throwaway <= WindowCap
    /\ newest \in Nat /\ newest <= now

\* The server's numbers.
ServerInv ==
    /\ server \in {"attach", "loop", "wait"}
    /\ throwaway_before \in Nat /\ throwaway_before <= next_seq
    /\ IsFiniteSet(DOMAIN received) /\ DOMAIN received \subseteq Key
    /\ \A k \in DOMAIN received : received[k] \in Nat
    /\ cached.count \in Nat /\ cached.counts \in Forecasts

\* What was sent longer than the limit before a packet lies below its throwaway
\* window, so that it is counted once a later packet has come.
LossInv ==
    /\ \A q \in data \cup lost, i \in 1..Len(sent_packets) :
          q.sent < sent_packets[i].time => End(q) <= sent_packets[i].seq
    /\ \A p \in data, q \in data \cup lost :
          q.sent < p.sent - ReorderLimit => End(q) <= p.seq - p.throwaway
    /\ \A q \in data \cup lost :
          q.sent < newest - ReorderLimit => End(q) <= throwaway_before

IInv == ClientInv /\ QueueInv /\ PacketInv /\ ServerInv /\ LossInv

\* Without repetitions: every packet comes once, and no two overlap.
OnceInv ==
    /\ \A p \in data : p.copies = 0
    /\ \A k \in DOMAIN received : received[k] = 1 /\ End(k) <= next_seq
    /\ \A p, q \in data : p = q \/ Clear(p, q)
    /\ \A k, l \in DOMAIN received : k = l \/ Clear(k, l)
    /\ \A p \in data, k \in DOMAIN received : Clear(p, k)

\* No count exceeds the bytes sent.
CountInv ==
    /\ cached.count <= next_seq
    /\ \A f \in answers : f.count <= next_seq
    /\ estimate >= 0

\* The throwaway window of a packet covers what was sent shortly before it.
WindowInv ==
    /\ \A q \in data : q.sent >= now - ReorderLimit =>
          \E i \in 1..Len(sent_packets) : sent_packets[i].seq = q.seq
                                          /\ sent_packets[i].time = q.sent
    /\ \A p, q \in data : q.seq <= p.seq /\ q.sent >= p.sent - ReorderLimit
                             => q.seq >= p.seq - p.throwaway
    /\ overtaken \in BOOLEAN
    /\ ~overtaken => \A q \in data : q.seq >= throwaway_before

\* No window ends inside a packet: what the server throws away, and what the
\* client forgets, are whole packets.
AlignInv ==
    /\ \A k \in data \cup DOMAIN received, i \in 1..Len(sent_packets) :
          k.seq >= sent_packets[i].seq \/ End(k) <= sent_packets[i].seq
    /\ \A p \in data, k \in data \cup DOMAIN received :
          k.seq >= p.seq - p.throwaway \/ End(k) <= p.seq - p.throwaway

-----------------------------------------------------------------------------
(* Facts about the operators, in states that satisfy the invariants.       *)

LEMMA Constants ==
    /\ TargetTicks \in Nat /\ Quantum \in Nat /\ Header \in Nat /\ Overhead \in Nat
    /\ ReorderLimit \in Nat /\ TickLength \in Nat /\ WindowCap \in Nat
    /\ TargetTicks > 0 /\ Overhead > 0 /\ ReorderLimit > 0 /\ TickLength > 0
BY SproutAssumption

LEMMA Products == \A i, j \in Nat : i * j \in Nat
OBVIOUS

LEMMA ForecastFacts ==
    ASSUME NEW f \in Forecasts
    PROVE  f \in Seq(Nat) /\ Len(f) \in Nat /\ Len(f) > 0
BY SproutAssumption

LEMMA KeptFacts ==
    ASSUME ServerInv
    PROVE  LET w == [p \in DOMAIN Kept |-> p.len * Kept[p]]
           IN  /\ DOMAIN Kept = {q \in DOMAIN received : q.seq >= throwaway_before}
               /\ DOMAIN w = DOMAIN Kept /\ IsFiniteSet(DOMAIN w) /\ DOMAIN w \subseteq Key
               /\ \A p \in DOMAIN w : w[p] = p.len * received[p] /\ w[p] \in Nat
               /\ SumFunction(w) \in Nat /\ PacketCount = throwaway_before + SumFunction(w)
<1> DEFINE w == [p \in DOMAIN Kept |-> p.len * Kept[p]]
<1>1. /\ DOMAIN Kept = {q \in DOMAIN received : q.seq >= throwaway_before}
      /\ \A p \in DOMAIN Kept : Kept[p] = received[p]
  BY DEF Kept
<1>2. IsFiniteSet(DOMAIN Kept) /\ DOMAIN Kept \subseteq Key
  BY <1>1, FS_Subset DEF ServerInv
<1>3. \A p \in DOMAIN Kept : w[p] = p.len * received[p] /\ w[p] \in Nat
  <2> SUFFICES ASSUME NEW p \in DOMAIN Kept
               PROVE  w[p] = p.len * received[p] /\ w[p] \in Nat
    OBVIOUS
  <2>1. p.len \in Nat /\ received[p] \in Nat
    BY <1>1, <1>2 DEF Key, ServerInv
  <2>2. w[p] = p.len * received[p]
    BY <1>1
  <2> QED BY <2>1, <2>2, Products
<1>4. DOMAIN w = DOMAIN Kept
  OBVIOUS
<1>5. PacketCount = throwaway_before + SumFunction(w)
  BY DEF PacketCount
<1> HIDE DEF w
<1>6. SumFunction(w) \in Nat
  BY <1>2, <1>3, <1>4, SumIsCount
<1>7. /\ DOMAIN w = DOMAIN Kept /\ IsFiniteSet(DOMAIN w) /\ DOMAIN w \subseteq Key
      /\ \A p \in DOMAIN w : w[p] = p.len * received[p] /\ w[p] \in Nat
  BY <1>2, <1>3, <1>4
<1> QED BY <1>1, <1>5, <1>6, <1>7, Zenon DEF w

\* The count is a number, and at least all that was thrown away.
LEMMA CountFacts ==
    ASSUME ServerInv
    PROVE  PacketCount \in Nat /\ PacketCount >= throwaway_before
<1> DEFINE w == [p \in DOMAIN Kept |-> p.len * Kept[p]]
<1>1. SumFunction(w) \in Nat /\ PacketCount = throwaway_before + SumFunction(w)
  BY KeptFacts
<1>2. throwaway_before \in Nat
  BY DEF ServerInv
<1> HIDE DEF w
<1> QED BY <1>1, <1>2

\* Packets that come once are counted once: the count stays below what was sent.
LEMMA CountBound ==
    ASSUME IInv, OnceInv
    PROVE  PacketCount <= next_seq
<1> DEFINE w == [p \in DOMAIN Kept |-> p.len * Kept[p]]
           at == [p \in DOMAIN Kept |-> p.seq]
<1>1. /\ DOMAIN Kept = {q \in DOMAIN received : q.seq >= throwaway_before}
      /\ DOMAIN w = DOMAIN Kept /\ IsFiniteSet(DOMAIN w) /\ DOMAIN w \subseteq Key
      /\ \A p \in DOMAIN w : w[p] = p.len * received[p] /\ w[p] \in Nat
      /\ SumFunction(w) \in Nat /\ PacketCount = throwaway_before + SumFunction(w)
  BY KeptFacts DEF IInv
<1>2. /\ throwaway_before \in Nat /\ next_seq \in Nat /\ throwaway_before <= next_seq
  BY DEF IInv, ClientInv, ServerInv
<1>3. \A p \in DOMAIN w : at[p] = p.seq
  BY <1>1
<1> HIDE DEF w, at
<1>4. ASSUME NEW p \in DOMAIN w
      PROVE  /\ p.seq \in Nat /\ p.len \in Nat /\ w[p] = p.len
             /\ throwaway_before <= p.seq /\ End(p) <= next_seq
  <2>1. p \in Key /\ p \in DOMAIN received /\ p.seq >= throwaway_before
    BY <1>1
  <2>2. p.seq \in Nat /\ p.len \in Nat
    BY <2>1 DEF Key
  <2>3. received[p] = 1 /\ End(p) <= next_seq
    BY <2>1 DEF OnceInv
  <2>4. w[p] = p.len
    BY <1>1, <2>2, <2>3
  <2> QED BY <1>2, <2>1, <2>2, <2>3, <2>4
<1>5. \A p \in DOMAIN w : at[p] \in Nat /\ throwaway_before <= at[p] /\ at[p] + w[p] <= next_seq
  <2> SUFFICES ASSUME NEW p \in DOMAIN w
               PROVE  p.seq \in Nat /\ throwaway_before <= p.seq /\ p.seq + p.len <= next_seq
    BY <1>3, <1>4
  <2>1. p.seq + p.len + Overhead <= next_seq
    BY <1>4 DEF End
  <2> QED BY <1>2, <1>4, <2>1, Constants
<1>6. \A p, q \in DOMAIN w : p # q => at[p] + w[p] <= at[q] \/ at[q] + w[q] <= at[p]
  <2> SUFFICES ASSUME NEW p \in DOMAIN w, NEW q \in DOMAIN w, p # q
               PROVE  p.seq + p.len <= q.seq \/ q.seq + q.len <= p.seq
    BY <1>3, <1>4
  <2>1. p \in DOMAIN received /\ q \in DOMAIN received
    BY <1>1
  <2>2. Clear(p, q)
    BY <2>1 DEF OnceInv
  <2>3. p.seq + p.len + Overhead <= q.seq \/ q.seq + q.len + Overhead <= p.seq
    BY <2>2 DEF Clear, End
  <2>4. p.seq \in Nat /\ p.len \in Nat /\ q.seq \in Nat /\ q.len \in Nat
    BY <1>4
  <2> QED BY <2>3, <2>4, Constants
<1>7. SumFunction(w) <= next_seq - throwaway_before
  BY <1>1, <1>2, <1>5, <1>6, Packing, Zenon
<1> QED BY <1>1, <1>2, <1>7

\* Packets counted and packets in flight do not overlap.
LEMMA CountedAndFlying ==
    ASSUME IInv, OnceInv, WindowInv, ~overtaken
    PROVE  PacketCount + InFlight <= next_seq
<1> DEFINE w == [p \in DOMAIN Kept |-> p.len * Kept[p]]
           air == {q \in data : q.copies = 0}
           v == [p \in air |-> p.len + Overhead]
           all == DOMAIN w \cup air
           h == [p \in all |-> IF p \in air THEN p.len + Overhead ELSE w[p]]
           at == [p \in all |-> p.seq]
<1>1. /\ DOMAIN w = {q \in DOMAIN received : q.seq >= throwaway_before}
      /\ IsFiniteSet(DOMAIN w) /\ DOMAIN w \subseteq Key
      /\ \A p \in DOMAIN w : w[p] = p.len * received[p] /\ w[p] \in Nat
      /\ SumFunction(w) \in Nat /\ PacketCount = throwaway_before + SumFunction(w)
  BY KeptFacts DEF IInv
<1> HIDE DEF w
<1>2. /\ throwaway_before \in Nat /\ next_seq \in Nat /\ throwaway_before <= next_seq
  BY DEF IInv, ClientInv, ServerInv
<1>3. InFlight = SumFunction(v)
  BY DEF InFlight
<1>4. air \subseteq data /\ IsFiniteSet(air)
  BY FS_Subset DEF IInv, PacketInv
<1>5. \A p \in air : /\ p.seq \in Nat /\ p.len \in Nat /\ End(p) <= next_seq
                     /\ throwaway_before <= p.seq
  BY <1>2, <1>4 DEF IInv, PacketInv, Packet, WindowInv
<1>6. \A k \in DOMAIN w : /\ k.seq \in Nat /\ k.len \in Nat /\ End(k) <= next_seq
                          /\ throwaway_before <= k.seq /\ received[k] = 1 /\ w[k] = k.len
  <2> SUFFICES ASSUME NEW k \in DOMAIN w
               PROVE  /\ k.seq \in Nat /\ k.len \in Nat /\ End(k) <= next_seq
                      /\ throwaway_before <= k.seq /\ received[k] = 1 /\ w[k] = k.len
    OBVIOUS
  <2>1. k \in Key /\ k \in DOMAIN received /\ k.seq >= throwaway_before
    BY <1>1
  <2>2. k.seq \in Nat /\ k.len \in Nat
    BY <2>1 DEF Key
  <2>3. received[k] = 1 /\ End(k) <= next_seq
    BY <2>1 DEF OnceInv
  <2>4. w[k] = k.len
    BY <1>1, <2>2, <2>3
  <2> QED BY <1>2, <2>1, <2>2, <2>3, <2>4
<1>7. \A k \in DOMAIN w, p \in air : Clear(p, k) /\ Clear(k, p)
  BY <1>1, <1>4 DEF OnceInv, Clear
<1>8. DOMAIN w \cap air = {}
  <2> SUFFICES ASSUME NEW k \in DOMAIN w, k \in air PROVE FALSE
    OBVIOUS
  <2>1. Clear(k, k)
    BY <1>7
  <2> QED BY <1>6, <2>1, Constants DEF Clear, End
<1>9. DOMAIN v = air /\ \A p \in air : v[p] = p.len + Overhead /\ v[p] \in Nat
  BY <1>5, Constants
<1>10. /\ DOMAIN h = DOMAIN w \cup DOMAIN v
       /\ \A p \in DOMAIN w : h[p] = w[p]
       /\ \A p \in DOMAIN v : h[p] = v[p]
  BY <1>8
<1>11. DOMAIN at = DOMAIN h /\ \A p \in DOMAIN h : at[p] = p.seq
  OBVIOUS
<1> HIDE DEF air, v, h, at
<1>12. SumFunction(h) = SumFunction(w) + SumFunction(v)
  BY <1>1, <1>4, <1>8, <1>9, <1>10, SumOfTwo, Zenon
<1>13. \A p \in DOMAIN h : /\ p.seq \in Nat /\ h[p] \in Nat /\ p.seq + h[p] <= End(p)
                           /\ End(p) <= next_seq /\ throwaway_before <= p.seq
                           /\ p \in DOMAIN w \cup air /\ End(p) \in Nat
  BY <1>5, <1>6, <1>9, <1>10, Constants DEF End
<1>14. \A p, q \in DOMAIN h : p # q => Clear(p, q)
  <2> SUFFICES ASSUME NEW p \in DOMAIN h, NEW q \in DOMAIN h, p # q PROVE Clear(p, q)
    OBVIOUS
  <2>1. CASE p \in air /\ q \in air
    BY <1>4, <2>1 DEF OnceInv
  <2>2. CASE p \in DOMAIN w /\ q \in DOMAIN w
    BY <1>1, <2>2 DEF OnceInv
  <2>3. CASE (p \in air /\ q \in DOMAIN w) \/ (p \in DOMAIN w /\ q \in air)
    BY <1>7, <2>3
  <2> QED BY <1>13, <2>1, <2>2, <2>3
<1>15. \A p \in DOMAIN h : at[p] \in Nat /\ throwaway_before <= at[p] /\ at[p] + h[p] <= next_seq
  <2> SUFFICES ASSUME NEW p \in DOMAIN h
               PROVE  p.seq \in Nat /\ throwaway_before <= p.seq /\ p.seq + h[p] <= next_seq
    BY <1>11
  <2> QED BY <1>2, <1>13
<1>16. \A p, q \in DOMAIN h : p # q => at[p] + h[p] <= at[q] \/ at[q] + h[q] <= at[p]
  <2> SUFFICES ASSUME NEW p \in DOMAIN h, NEW q \in DOMAIN h, p # q
               PROVE  p.seq + h[p] <= q.seq \/ q.seq + h[q] <= p.seq
    BY <1>11
  <2>1. End(p) <= q.seq \/ End(q) <= p.seq
    BY <1>14 DEF Clear
  <2> QED BY <1>13, <2>1
<1>17. IsFiniteSet(DOMAIN h) /\ \A p \in DOMAIN h : h[p] \in Nat
  <2>1. IsFiniteSet(DOMAIN w \cup air)
    BY <1>1, <1>4, FS_Union, Zenon
  <2> QED BY <1>9, <1>10, <1>13, <2>1
<1>18. SumFunction(h) <= next_seq - throwaway_before
  BY <1>2, <1>15, <1>16, <1>17, Packing
<1>19. SumFunction(v) \in Nat
  BY <1>4, <1>9, SumIsCount
<1> QED BY <1>1, <1>2, <1>3, <1>12, <1>18, <1>19

LEMMA UpdateFacts ==
    ASSUME ClientInv, NEW e \in Int, NEW f \in Prediction, NEW t \in Int,
           NEW tick \in 0..(Ticks(f) - 1), UpdateQueueEstimate(e, f, t, tick)
    PROVE  /\ forecast_tick' \in 0..(Ticks(f) - 1)
           /\ estimate' \in Int
           /\ e >= 0 => estimate' >= 0
<1> DEFINE n == NewTick(f, t)
<1>1. f.counts \in Seq(Nat) /\ Ticks(f) \in Nat /\ Ticks(f) = Len(f.counts)
  BY ForecastFacts DEF Prediction, Ticks
<1>2. (now - t) \div TickLength \in Int
  BY Constants DEF ClientInv
<1>3. n \in Int /\ n <= Ticks(f) - 1
  BY <1>1, <1>2 DEF NewTick, Least
<1> HIDE DEF n
<1>4. forecast_tick' = Most(tick, n) /\ estimate' = Drained(e, f, tick, n)
  BY DEF UpdateQueueEstimate, n
<1>5. \A i \in (tick + 1)..n : Quantum * f.counts[i] \in Nat
  <2> SUFFICES ASSUME NEW i \in (tick + 1)..n PROVE Quantum * f.counts[i] \in Nat
    OBVIOUS
  <2>1. i \in 1..Len(f.counts)
    BY <1>1, <1>3
  <2>2. f.counts[i] \in Nat
    BY <1>1, <2>1
  <2> QED BY <2>2, Constants, Products
<1>6. estimate' \in Int /\ (e >= 0 => estimate' >= 0)
  <2>1. tick \in Nat
    OBVIOUS
  <2> QED BY <1>3, <1>4, <1>5, <2>1, DrainedFacts, Zenon
<1>7. forecast_tick' \in 0..(Ticks(f) - 1)
  BY <1>1, <1>3, <1>4 DEF Most
<1> QED BY <1>6, <1>7

LEMMA WindowFacts ==
    ASSUME forecast \in Prediction, NEW e \in Int, NEW tick \in 0..(Ticks(forecast) - 1)
    PROVE  Window(e, tick) \in Nat
<1> DEFINE c == forecast.counts
           ahead == Least(tick + TargetTicks, Ticks(forecast) - 1)
<1>1. c \in Seq(Nat) /\ Len(c) \in Nat /\ Ticks(forecast) = Len(c)
  BY ForecastFacts DEF Prediction, Ticks
<1>2. ahead + 1 \in 1..Len(c) /\ tick + 1 \in 1..Len(c)
  BY <1>1, Constants DEF Least
<1> HIDE DEF ahead
<1>3. c[ahead + 1] \in Nat /\ c[tick + 1] \in Nat
  BY <1>1, <1>2
<1>4. Quantum * (c[ahead + 1] - c[tick + 1]) \in Int
  BY <1>3, Constants
<1>5. Most(0, Quantum * (c[ahead + 1] - c[tick + 1]) - e) \in Nat
  BY <1>4 DEF Most
<1> QED BY <1>5 DEF Window, ahead

\* What SendQueue::add leaves in the queue.
LEMMA RecentFacts ==
    ASSUME ClientInv, QueueInv
    PROVE  LET x == [seq |-> next_seq, time |-> now]
               q == Append(sent_packets, x)
               r == Recent(q)
           IN  /\ r \in Seq([seq: Nat, time: Nat]) /\ Len(r) \in Nat /\ Len(r) > 0
               /\ r[Len(r)] = x
               /\ r[1].time >= now - ReorderLimit
               /\ \A i, j \in 1..Len(r) : i <= j => r[i].seq <= r[j].seq
               /\ \A i \in 1..Len(r) :
                     \/ r[i] = x
                     \/ \E j \in 1..Len(sent_packets) : r[i] = sent_packets[j]
               /\ \A j \in 1..Len(sent_packets) :
                     sent_packets[j].time >= now - ReorderLimit =>
                        \E i \in 1..Len(r) : r[i] = sent_packets[j]
<1> DEFINE R == [seq: Nat, time: Nat]
           x == [seq |-> next_seq, time |-> now]
           s == sent_packets
           q == Append(s, x)
           limit == now - ReorderLimit
           Front(i) == q[i].time >= limit /\ \A j \in 1..(i - 1) : q[j].time < limit
           k == CHOOSE i \in 1..Len(q) : Front(i)
           r == SubSeq(q, k, Len(q))
<1>1. x \in R /\ s \in Seq(R) /\ limit \in Int /\ x.time = now /\ x.time >= limit
  BY Constants DEF ClientInv, QueueInv
<1>2. /\ q \in Seq(R) /\ Len(q) = Len(s) + 1 /\ Len(s) \in Nat /\ q[Len(q)] = x
      /\ \A i \in 1..Len(s) : q[i] = s[i]
  BY <1>1
<1>3. \A i \in 1..Len(q) : q[i] \in R /\ q[i].time \in Nat /\ q[i].seq \in Nat
  <2> HIDE DEF q
  <2>1. \A i \in 1..Len(q) : q[i] \in R
    <3>1. q \in Seq(R)
      BY <1>2
    <3> HIDE DEF R
    <3> QED BY <3>1
  <2> QED BY <2>1
<1>4. \A i, j \in 1..Len(q) : i <= j => q[i].seq <= q[j].seq
  <2> SUFFICES ASSUME NEW i \in 1..Len(q), NEW j \in 1..Len(q), i <= j
               PROVE  q[i].seq <= q[j].seq
    OBVIOUS
  <2> HIDE DEF q
  <2>1. CASE j = Len(q)
    <3>1. i \in 1..Len(s) \/ i = Len(q)
      BY <1>2
    <3>2. q[j].seq = next_seq /\ next_seq \in Nat
      BY <1>2, <2>1 DEF ClientInv
    <3>3. CASE i \in 1..Len(s)
      BY <1>2, <3>2, <3>3, Zenon DEF QueueInv
    <3>4. CASE i = Len(q)
      BY <2>1, <3>2, <3>4
    <3> QED BY <3>1, <3>3, <3>4
  <2>2. CASE j # Len(q)
    <3>1. i \in 1..Len(s) /\ j \in 1..Len(s)
      BY <1>2, <2>2
    <3> QED BY <1>2, <3>1, Zenon DEF QueueInv
  <2> QED BY <2>1, <2>2
<1>5. \E i \in 1..Len(q) : Front(i)
  <2> DEFINE T == {i \in 1..Len(q) : q[i].time >= limit}
  <2>1. Len(q) \in T /\ T \subseteq Nat
    BY <1>1, <1>2
  <2>2. PICK m \in T : \A i \in T : m <= i
    <3> HIDE DEF T
    <3> QED BY <2>1, LeastMember, Zenon
  <2>3. m \in 1..Len(q) /\ q[m].time >= limit
    OBVIOUS
  <2>4. ASSUME NEW j \in 1..(m - 1) PROVE q[j].time < limit
    <3>0. Len(q) \in Nat
      BY <1>2
    <3> HIDE DEF q, T
    <3>1. j \in 1..Len(q) /\ ~ (m <= j)
      BY <2>3, <3>0
    <3>2. j \notin T
      BY <2>2, <3>1
    <3>3. q[j].time \in Nat
      BY <1>3, <3>1
    <3>4. ~ (q[j].time >= limit)
      BY <3>1, <3>2 DEF T
    <3> QED BY <1>1, <3>3, <3>4
  <2> HIDE DEF q, limit
  <2> QED BY <2>3, <2>4
<1>6. k \in 1..Len(q) /\ Front(k)
  BY <1>5, Zenon
<1>7. Recent(q) = r
  BY DEF Recent
<1> HIDE DEF k, q
<1>8. /\ r \in Seq(R) /\ Len(r) = Len(q) - k + 1
      /\ \A i \in 1..Len(r) : r[i] = q[i + k - 1] /\ i + k - 1 \in 1..Len(q)
  <2>0. Len(q) \in Nat
    BY <1>2
  <2>1. \A i \in k..Len(q) : q[i] \in R
    BY <1>3, <1>6
  <2>2. r \in Seq(R) /\ Len(r) = Len(q) - k + 1
    BY <1>2, <1>6, <2>0, <2>1
  <2>3. \A i \in 1..(Len(q) - k + 1) : r[i] = q[k + i - 1]
    BY <1>2, <1>6, <2>0
  <2> HIDE DEF r
  <2>4. \A i \in 1..Len(r) : k + i - 1 = i + k - 1 /\ i + k - 1 \in 1..Len(q)
    BY <1>6, <2>0, <2>2
  <2> QED BY <2>2, <2>3, <2>4
<1>9. Len(r) \in Nat /\ Len(r) > 0
  BY <1>2, <1>6, <1>8
<1>10. r[Len(r)] = x
  <2>1. Len(r) \in 1..Len(r) /\ Len(r) + k - 1 = Len(q)
    BY <1>2, <1>6, <1>8, <1>9
  <2>2. r[Len(r)] = q[Len(r) + k - 1]
    BY <1>8, <2>1
  <2> QED BY <1>2, <2>1, <2>2, Zenon
<1>11. r[1].time >= limit
  <2>1. 1 \in 1..Len(r) /\ 1 + k - 1 = k
    BY <1>6, <1>9
  <2>2. r[1] = q[1 + k - 1]
    BY <1>8, <2>1
  <2>3. r[1] = q[k]
    BY <2>1, <2>2
  <2> QED BY <1>6, <2>3
<1> HIDE DEF r
<1>12. \A i, j \in 1..Len(r) : i <= j => r[i].seq <= r[j].seq
  <2> SUFFICES ASSUME NEW i \in 1..Len(r), NEW j \in 1..Len(r), i <= j
               PROVE  r[i].seq <= r[j].seq
    OBVIOUS
  <2>1. i + k - 1 \in 1..Len(q) /\ j + k - 1 \in 1..Len(q) /\ i + k - 1 <= j + k - 1
    BY <1>6, <1>8
  <2> QED BY <1>4, <1>8, <2>1, Zenon
<1>13. ASSUME NEW i \in 1..Len(r)
       PROVE  r[i] = x \/ \E j \in 1..Len(s) : r[i] = s[j]
  <2>1. r[i] = q[i + k - 1] /\ i + k - 1 \in 1..Len(q)
    BY <1>8
  <2>2. i + k - 1 \in 1..Len(s) \/ i + k - 1 = Len(q)
    BY <1>2, <2>1
  <2> QED BY <1>2, <2>1, <2>2
<1>14. ASSUME NEW j \in 1..Len(s), s[j].time >= limit
       PROVE  \E i \in 1..Len(r) : r[i] = s[j]
  <2>1. j \in 1..Len(q) /\ q[j] = s[j] /\ q[j].time \in Nat
    BY <1>2, <1>3
  <2>2. ~ (j \in 1..(k - 1))
    <3>1. ~ (q[j].time < limit)
      BY <1>1, <1>14, <2>1
    <3> QED BY <1>6, <3>1
  <2>3. j - k + 1 \in 1..Len(r) /\ (j - k + 1) + k - 1 = j
    <3>1. Len(q) \in Nat /\ k \in 1..Len(q) /\ Len(r) = Len(q) - k + 1
      BY <1>2, <1>6, <1>8
    <3> QED BY <2>1, <2>2, <3>1
  <2>4. r[j - k + 1] = q[(j - k + 1) + k - 1]
    BY <1>8, <2>3
  <2>5. r[j - k + 1] = s[j]
    BY <2>1, <2>3, <2>4
  <2> QED BY <2>3, <2>5
<1>15. r = Recent(Append(sent_packets, [seq |-> next_seq, time |-> now]))
  BY <1>7 DEF q
<1> QED BY <1>8, <1>9, <1>10, <1>11, <1>12, <1>13, <1>14, <1>15, Zenon
=============================================================================
