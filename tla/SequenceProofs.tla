----------------------------- MODULE SequenceProofs -----------------------------
(***************************************************************************)
(* What the recursive functions the models share compute: Sift, the rows a  *)
(* query is left with, and Pair, the spreads the pages of a book are dealt  *)
(* into.                                                                    *)
(*                                                                         *)
(* That such a function has a value, and what the value is, is shown by a   *)
(* least counterexample, over the elements gone through or over the pages   *)
(* left to deal.                                                            *)
(***************************************************************************)
EXTENDS Paging, Sift, NaturalsInduction, WellFoundedInduction, SequenceTheorems, TLAPS

LEMMA LeastNat ==
    ASSUME NEW S \in SUBSET Nat, S # {}
    PROVE  \E x \in S : \A y \in S : x <= y
<1>1. PICK x \in S : \A y \in S : ~(<<y, x>> \in OpToRel(<, Nat))
  BY NatLessThanWellFounded, WFMin, Zenon
<1>2. ASSUME NEW y \in Nat, NEW z \in Nat, y < z
      PROVE  <<y, z>> \in OpToRel(<, Nat)
  BY <1>2 DEF OpToRel
<1>3. \A y \in S : ~(y < x)
  BY <1>1, <1>2, Zenon
<1> QED
  BY <1>3

-------------------------------------------------------------------------------
(* What is left of a sequence                                                *)

\* One step of Sift's recursion.
SiftStep(s, kept, f, i) ==
    IF i = 0 THEN <<>>
    ELSE IF s[i] \in kept THEN Append(f[i - 1], s[i])
    ELSE f[i - 1]

SiftsTo(f, s, kept, n) == f = [i \in 0 .. n |-> SiftStep(s, kept, f, i)]

\* at says where each of r was in the first n of s.
ComesFrom(r, s, kept, n, at) ==
    /\ at \in [1 .. Len(r) -> 1 .. n]
    /\ \A i \in 1 .. Len(r) : r[i] = s[at[i]] /\ s[at[i]] \in kept
    /\ \A i, j \in 1 .. Len(r) : i < j => at[i] < at[j]
    /\ \A k \in 1 .. n : s[k] \in kept => \E i \in 1 .. Len(r) : at[i] = k

LeftOf(r, s, kept, n) == \E at : ComesFrom(r, s, kept, n, at)

LEMMA SiftOne ==
    ASSUME NEW T, NEW s \in Seq(T), NEW kept, NEW n \in Nat, n < Len(s),
           NEW r \in Seq(T), LeftOf(r, s, kept, n)
    PROVE  /\ s[n + 1] \notin kept => LeftOf(r, s, kept, n + 1)
           /\ s[n + 1] \in kept => /\ Append(r, s[n + 1]) \in Seq(T)
                                   /\ LeftOf(Append(r, s[n + 1]), s, kept, n + 1)
<1>1. PICK at : ComesFrom(r, s, kept, n, at)
  BY DEF LeftOf
<1>2. Len(r) \in Nat /\ s[n + 1] \in T
  OBVIOUS
<1>3. \A k \in 1 .. n + 1 : k \in 1 .. n \/ k = n + 1
  OBVIOUS
<1>4. ASSUME s[n + 1] \notin kept PROVE LeftOf(r, s, kept, n + 1)
  <2>1. ComesFrom(r, s, kept, n + 1, at)
    BY <1>1, <1>2, <1>3, <1>4 DEF ComesFrom
  <2> QED
    BY <2>1 DEF LeftOf
<1>5. ASSUME s[n + 1] \in kept
      PROVE  /\ Append(r, s[n + 1]) \in Seq(T)
             /\ LeftOf(Append(r, s[n + 1]), s, kept, n + 1)
  <2>1. PICK more : more = Append(r, s[n + 1])
    OBVIOUS
  <2>2. /\ more \in Seq(T) /\ Len(more) = Len(r) + 1
        /\ \A i \in 1 .. Len(r) : more[i] = r[i]
        /\ more[Len(r) + 1] = s[n + 1]
    BY <1>2, <2>1
  <2>3. PICK there : there = [i \in 1 .. Len(more) |-> IF i = Len(more) THEN n + 1 ELSE at[i]]
    OBVIOUS
  <2>4. \A i \in 1 .. Len(more) : i \in 1 .. Len(r) \/ i = Len(r) + 1
    BY <1>2, <2>2
  <2>5. \A i \in 1 .. Len(r) : there[i] = at[i] /\ at[i] \in 1 .. n
    <3>1. \A i \in 1 .. Len(r) : i \in 1 .. Len(more) /\ i # Len(more)
      BY <1>2, <2>2
    <3>2. \A i \in 1 .. Len(r) : there[i] = at[i]
      BY <2>3, <3>1
    <3>3. \A i \in 1 .. Len(r) : at[i] \in 1 .. n
      BY <1>1 DEF ComesFrom
    <3> QED
      BY <3>2, <3>3
  <2>6. there[Len(r) + 1] = n + 1 /\ Len(r) + 1 \in 1 .. Len(more)
    BY <1>2, <2>2, <2>3
  <2>7. there \in [1 .. Len(more) -> 1 .. n + 1]
    <3>1. \A i \in 1 .. Len(r) : there[i] \in 1 .. n + 1
      BY <2>5
    <3>2. \A i \in 1 .. Len(more) : there[i] \in 1 .. n + 1
      BY <2>4, <2>6, <3>1
    <3>3. there = [i \in 1 .. Len(more) |-> there[i]]
      BY <2>3
    <3> QED
      BY <3>2, <3>3
  <2>8. \A i \in 1 .. Len(more) : more[i] = s[there[i]] /\ s[there[i]] \in kept
    BY <1>1, <1>5, <2>2, <2>4, <2>5, <2>6 DEF ComesFrom
  <2>9. \A i, j \in 1 .. Len(more) : i < j => there[i] < there[j]
    <3>1. SUFFICES ASSUME NEW i \in 1 .. Len(more), NEW j \in 1 .. Len(more), i < j
                   PROVE  there[i] < there[j]
      OBVIOUS
    <3>2. i \in 1 .. Len(r) /\ there[i] = at[i] /\ at[i] \in 1 .. n
      BY <1>2, <2>2, <2>4, <2>5, <3>1
    <3>3. CASE j \in 1 .. Len(r)
      BY <1>1, <2>5, <3>1, <3>2, <3>3 DEF ComesFrom
    <3>4. CASE j = Len(r) + 1
      BY <2>6, <3>2, <3>4
    <3> QED
      BY <2>4, <3>3, <3>4
  <2>10. \A k \in 1 .. n + 1 : s[k] \in kept => \E i \in 1 .. Len(more) : there[i] = k
    <3>1. ASSUME NEW k \in 1 .. n, s[k] \in kept
          PROVE  \E i \in 1 .. Len(more) : there[i] = k
      <4>1. PICK i \in 1 .. Len(r) : at[i] = k
        BY <1>1, <3>1 DEF ComesFrom
      <4>2. i \in 1 .. Len(more)
        BY <1>2, <2>2
      <4> QED
        BY <2>5, <4>1, <4>2
    <3> QED
      BY <1>3, <2>6, <3>1
  <2>11. ComesFrom(more, s, kept, n + 1, there)
    BY <2>7, <2>8, <2>9, <2>10 DEF ComesFrom
  <2> QED
    BY <2>1, <2>2, <2>11 DEF LeftOf
<1> QED
  BY <1>4, <1>5

LEMMA SiftGoesOn ==
    ASSUME NEW T, NEW s \in Seq(T), NEW kept
    PROVE  \A n \in 0 .. Len(s) :
              \E f : SiftsTo(f, s, kept, n) /\ f[n] \in Seq(T) /\ LeftOf(f[n], s, kept, n)
<1> DEFINE Goes(n) == \E f : SiftsTo(f, s, kept, n) /\ f[n] \in Seq(T) /\ LeftOf(f[n], s, kept, n)
           bad == {n \in 0 .. Len(s) : ~Goes(n)}
<1>1. Goes(0)
  <2> DEFINE f == [i \in 0 .. 0 |-> <<>>]
             at == [i \in 1 .. 0 |-> 1]
  <2>1. \A i \in 0 .. 0 : SiftStep(s, kept, f, i) = <<>>
    BY DEF SiftStep
  <2>2. SiftsTo(f, s, kept, 0)
    BY <2>1 DEF SiftsTo
  <2>3. f[0] = <<>> /\ Len(<<>>) = 0
    OBVIOUS
  <2>4. ComesFrom(<<>>, s, kept, 0, at)
    BY <2>3 DEF ComesFrom
  <2>5. f[0] \in Seq(T) /\ LeftOf(f[0], s, kept, 0)
    BY <2>3, <2>4 DEF LeftOf
  <2> HIDE DEF f
  <2> QED
    BY <2>2, <2>5
<1>2. ASSUME NEW n \in Nat, n < Len(s), Goes(n)
      PROVE  Goes(n + 1)
  <2>1. PICK f : SiftsTo(f, s, kept, n) /\ f[n] \in Seq(T) /\ LeftOf(f[n], s, kept, n)
    BY <1>2
  <2> DEFINE last == SiftStep(s, kept, f, n + 1)
             g == [i \in 0 .. n + 1 |-> IF i = n + 1 THEN last ELSE f[i]]
  <2>2. last = IF s[n + 1] \in kept THEN Append(f[n], s[n + 1]) ELSE f[n]
    BY DEF SiftStep
  <2>3. last \in Seq(T) /\ LeftOf(last, s, kept, n + 1)
    BY <1>2, <2>1, <2>2, SiftOne
  <2> HIDE DEF last
  <2>4. \A i \in 0 .. n : f[i] = SiftStep(s, kept, f, i)
    BY <2>1 DEF SiftsTo
  <2>5. \A i \in 0 .. n : g[i] = f[i]
    OBVIOUS
  <2>6. \A i \in 0 .. n + 1 : SiftStep(s, kept, g, i) = SiftStep(s, kept, f, i)
    <3>1. \A i \in 0 .. n + 1 : i # 0 => i - 1 \in 0 .. n
      OBVIOUS
    <3> HIDE DEF g
    <3> QED
      BY <2>5, <3>1 DEF SiftStep
  <2>7. \A i \in 0 .. n + 1 : g[i] = SiftStep(s, kept, g, i)
    <3>1. g[n + 1] = SiftStep(s, kept, f, n + 1)
      BY DEF last
    <3>2. \A i \in 0 .. n + 1 : i \in 0 .. n \/ i = n + 1
      OBVIOUS
    <3> HIDE DEF g
    <3> QED
      BY <2>4, <2>5, <2>6, <3>1, <3>2
  <2>8. SiftsTo(g, s, kept, n + 1)
    <3>1. g = [i \in 0 .. n + 1 |-> g[i]]
      OBVIOUS
    <3> HIDE DEF g
    <3> QED
      BY <2>7, <3>1 DEF SiftsTo
  <2>9. g[n + 1] = last
    OBVIOUS
  <2> HIDE DEF g
  <2> QED
    BY <2>3, <2>8, <2>9
<1>3. bad = {}
  <2>1. SUFFICES ASSUME bad # {} PROVE FALSE
    OBVIOUS
  <2>2. PICK n \in bad : \A m \in bad : n <= m
    <3>1. bad \in SUBSET Nat
      OBVIOUS
    <3> HIDE DEF bad
    <3> QED
      BY <2>1, <3>1, LeastNat
  <2> HIDE DEF Goes
  <2>3. n \in 0 .. Len(s) /\ ~Goes(n) /\ n # 0
    BY <1>1
  <2>4. n - 1 \in Nat /\ n - 1 < Len(s) /\ (n - 1) + 1 = n /\ n - 1 \in 0 .. Len(s)
    BY <2>3
  <2>5. Goes(n - 1)
    BY <2>2, <2>4
  <2> QED
    BY <1>2, <2>3, <2>4, <2>5
<1> HIDE DEF Goes
<1>4. \A n \in 0 .. Len(s) : Goes(n)
  BY <1>3
<1> QED
  BY <1>4 DEF Goes

\* Sift keeps the elements that are in the set, all of them, in their order.
LEMMA SiftKeeps ==
    ASSUME NEW T, NEW s \in Seq(T), NEW kept
    PROVE  Sift(s, kept) \in Seq(T) /\ LeftOf(Sift(s, kept), s, kept, Len(s))
<1> DEFINE upTo == CHOOSE f : SiftsTo(f, s, kept, Len(s))
<1>1. Sift(s, kept) = upTo[Len(s)]
  BY DEF Sift, SiftsTo, SiftStep
<1>2. Len(s) \in 0 .. Len(s)
  OBVIOUS
<1>3. PICK f : /\ SiftsTo(f, s, kept, Len(s))
               /\ f[Len(s)] \in Seq(T) /\ LeftOf(f[Len(s)], s, kept, Len(s))
  BY <1>2, SiftGoesOn
<1>4. SiftsTo(upTo, s, kept, Len(s))
  BY <1>3
<1> HIDE DEF upTo
<1>5. \A n \in 0 .. Len(s) : upTo[n] = f[n]
  <2> DEFINE bad == {n \in 0 .. Len(s) : upTo[n] # f[n]}
  <2>1. SUFFICES ASSUME bad # {} PROVE FALSE
    OBVIOUS
  <2>2. PICK n \in bad : \A m \in bad : n <= m
    <3>1. bad \in SUBSET Nat
      OBVIOUS
    <3> HIDE DEF bad
    <3> QED
      BY <2>1, <3>1, LeastNat
  <2>3. n \in 0 .. Len(s) /\ upTo[n] # f[n]
    OBVIOUS
  <2>4. upTo[n] = SiftStep(s, kept, upTo, n) /\ f[n] = SiftStep(s, kept, f, n)
    BY <1>3, <1>4, <2>3 DEF SiftsTo
  <2>5. n # 0 => upTo[n - 1] = f[n - 1]
    <3>1. n # 0 => n - 1 \in 0 .. Len(s) /\ ~(n <= n - 1)
      BY <2>3
    <3> QED
      BY <2>2, <3>1
  <2>6. SiftStep(s, kept, upTo, n) = SiftStep(s, kept, f, n)
    BY <2>5 DEF SiftStep
  <2> QED
    BY <2>3, <2>4, <2>6
<1> QED
  BY <1>1, <1>2, <1>3, <1>5

Once(s) == \A i, j \in 1 .. Len(s) : s[i] = s[j] => i = j

\* The first of what is left is the earliest in the sequence.
LEMMA SiftHead ==
    ASSUME NEW T, NEW s \in Seq(T), NEW kept, NEW r, r = Sift(s, kept)
    PROVE  /\ r = <<>> => \A k \in 1 .. Len(s) : s[k] \notin kept
           /\ r # <<>> => \E k \in 1 .. Len(s) :
                             /\ Head(r) = s[k] /\ s[k] \in kept
                             /\ \A j \in 1 .. Len(s) : s[j] \in kept => k <= j
<1>1. r \in Seq(T) /\ LeftOf(r, s, kept, Len(s)) /\ Len(s) \in Nat
  BY SiftKeeps
<1>2. PICK at : ComesFrom(r, s, kept, Len(s), at)
  BY <1>1 DEF LeftOf
<1>3. CASE r = <<>>
  BY <1>2, <1>3 DEF ComesFrom
<1>4. CASE r # <<>>
  <2>1. Len(r) \in Nat /\ 1 \in 1 .. Len(r) /\ Head(r) = r[1]
    BY <1>1, <1>4
  <2>2. at[1] \in 1 .. Len(s) /\ r[1] = s[at[1]] /\ s[at[1]] \in kept
    BY <1>2, <2>1 DEF ComesFrom
  <2>3. ASSUME NEW j \in 1 .. Len(s), s[j] \in kept PROVE at[1] <= j
    <3>1. PICK i \in 1 .. Len(r) : at[i] = j
      BY <1>2, <2>3 DEF ComesFrom
    <3>2. i = 1 \/ 1 < i
      BY <2>1
    <3>3. 1 < i => at[1] < at[i]
      BY <1>2, <2>1 DEF ComesFrom
    <3> QED
      BY <2>2, <3>1, <3>2, <3>3
  <2> QED
    BY <1>4, <2>1, <2>2, <2>3
<1> QED
  BY <1>3, <1>4

\* What is left of a sequence without repetitions has none.
LEMMA SiftOnce ==
    ASSUME NEW T, NEW s \in Seq(T), NEW kept, NEW r, r = Sift(s, kept), Once(s)
    PROVE  /\ r \in Seq(T) /\ Once(r)
           /\ \A i \in 1 .. Len(r) : r[i] \in kept
           /\ \A k \in 1 .. Len(s) : s[k] \in kept => \E i \in 1 .. Len(r) : r[i] = s[k]
           /\ \A i, j \in 1 .. Len(r), k, l \in 1 .. Len(s) :
                 r[i] = s[k] /\ r[j] = s[l] => (i < j <=> k < l)
<1>1. r \in Seq(T) /\ LeftOf(r, s, kept, Len(s)) /\ Len(s) \in Nat /\ Len(r) \in Nat
  BY SiftKeeps
<1>2. PICK at : ComesFrom(r, s, kept, Len(s), at)
  BY <1>1 DEF LeftOf
<1>3. \A i \in 1 .. Len(r) : at[i] \in 1 .. Len(s) /\ r[i] = s[at[i]] /\ r[i] \in kept
  BY <1>2 DEF ComesFrom
<1>4. \A i, j \in 1 .. Len(r) : i < j => at[i] < at[j]
  BY <1>2 DEF ComesFrom
<1>5. \A i \in 1 .. Len(r), k \in 1 .. Len(s) : r[i] = s[k] => at[i] = k
  BY <1>3 DEF Once
<1>6. \A i, j \in 1 .. Len(r) : (i < j <=> at[i] < at[j]) /\ (at[i] = at[j] => i = j)
  <2>1. ASSUME NEW i \in 1 .. Len(r), NEW j \in 1 .. Len(r)
        PROVE  (i < j <=> at[i] < at[j]) /\ (at[i] = at[j] => i = j)
    <3>1. at[i] \in Nat /\ at[j] \in Nat
      BY <1>3
    <3>2. i < j \/ i = j \/ j < i
      OBVIOUS
    <3> QED
      BY <1>4, <3>1, <3>2
  <2> QED
    BY <2>1
<1>7. Once(r)
  BY <1>3, <1>5, <1>6 DEF Once
<1>8. \A k \in 1 .. Len(s) : s[k] \in kept => \E i \in 1 .. Len(r) : r[i] = s[k]
  BY <1>2, <1>3 DEF ComesFrom
<1>9. \A i, j \in 1 .. Len(r), k, l \in 1 .. Len(s) :
         r[i] = s[k] /\ r[j] = s[l] => (i < j <=> k < l)
  BY <1>5, <1>6
<1> QED
  BY <1>1, <1>3, <1>7, <1>8, <1>9

-------------------------------------------------------------------------------
(* How the pages of a book are dealt into spreads                            *)

\* Pair's reasons for a page to stand alone.
Alone(count, mode, firstPageSingle, unpairable, p) ==
    \/ mode # "double"
    \/ p \in unpairable
    \/ p = 1 /\ firstPageSingle
    \/ p = count
    \/ p + 1 \in unpairable

\* One step of Pair's recursion: the spreads of the pages from p on.
Dealt(count, mode, firstPageSingle, unpairable, rest, p) ==
    IF p > count THEN <<>>
    ELSE IF Alone(count, mode, firstPageSingle, unpairable, p) THEN <<<<p>>>> \o rest[p + 1]
    ELSE <<<<p, p + 1>>>> \o rest[p + 2]

\* f gives every page the spreads from it on: what Pair's from is chosen to be.
Deals(f, count, mode, firstPageSingle, unpairable) ==
    f = [p \in 1 .. count + 2 |-> Dealt(count, mode, firstPageSingle, unpairable, f, p)]

\* What a layout of the pages from p to count is.
LaysOut(spreads, p, count) ==
    /\ spreads \in Seq(Seq(p .. count))
    /\ \A i \in DOMAIN spreads : spreads[i] # <<>> /\ Once(spreads[i])
    /\ \A i, j \in DOMAIN spreads : i < j =>
          \A x \in PagesOf(spreads[i]), y \in PagesOf(spreads[j]) : x < y
    /\ \A page \in p .. count : \E i \in DOMAIN spreads : page \in PagesOf(spreads[i])

LEMMA FirstIsThere ==
    ASSUME NEW T, NEW s \in Seq(T), s # <<>>
    PROVE  1 \in DOMAIN s /\ s[1] \in T
<1>1. Len(s) \in Nat /\ DOMAIN s = 1 .. Len(s) /\ Len(s) # 0
  BY EmptySeq
<1>2. 1 \in DOMAIN s
  BY <1>1
<1> QED
  BY <1>2

LEMMA OneMoreSpread ==
    ASSUME NEW count \in Nat, NEW p \in Nat, NEW q \in Nat, p < q, q <= count + 1,
           NEW spread \in Seq(p .. count), PagesOf(spread) = p .. q - 1, Once(spread),
           NEW rest, LaysOut(rest, q, count)
    PROVE  LaysOut(<<spread>> \o rest, p, count)
<1> DEFINE all == <<spread>> \o rest
<1>1. rest \in Seq(Seq(q .. count)) /\ Seq(q .. count) \subseteq Seq(p .. count)
  <2>1. q .. count \subseteq p .. count
    OBVIOUS
  <2>2. Seq(q .. count) \subseteq Seq(p .. count)
    BY <2>1
  <2> QED
    BY <2>2 DEF LaysOut
<1>2. rest \in Seq(Seq(p .. count)) /\ <<spread>> \in Seq(Seq(p .. count))
  BY <1>1
<1>3. /\ all \in Seq(Seq(p .. count))
      /\ Len(rest) \in Nat /\ DOMAIN rest = 1 .. Len(rest)
      /\ DOMAIN all = 1 .. Len(rest) + 1
      /\ all[1] = spread
      /\ \A i \in 2 .. Len(rest) + 1 : all[i] = rest[i - 1]
  BY <1>2
<1> HIDE DEF all
<1>a. ASSUME NEW i \in DOMAIN all, i # 1
      PROVE  all[i] = rest[i - 1] /\ i - 1 \in DOMAIN rest /\ i \in Nat
  <2>1. i \in 2 .. Len(rest) + 1 /\ i - 1 \in 1 .. Len(rest)
    BY <1>3, <1>a
  <2> QED
    BY <1>3, <2>1
<1>b. ASSUME NEW i \in DOMAIN rest
      PROVE  all[i + 1] = rest[i] /\ i + 1 \in DOMAIN all
  <2>1. i \in 1 .. Len(rest) /\ i + 1 \in 2 .. Len(rest) + 1 /\ (i + 1) - 1 = i
    BY <1>3
  <2> QED
    BY <1>3, <2>1
<1>4. \A i \in DOMAIN rest : PagesOf(rest[i]) \subseteq q .. count
  BY <1>1 DEF PagesOf
<1>5. spread # <<>>
  <2>1. PagesOf(<<>>) = {}
    BY DEF PagesOf
  <2>2. p \in p .. q - 1
    OBVIOUS
  <2> QED
    BY <2>1, <2>2
<1>6. ASSUME NEW i \in DOMAIN all
      PROVE  all[i] # <<>> /\ Once(all[i])
  <2>1. CASE i = 1
    BY <1>3, <1>5, <2>1
  <2>2. CASE i # 1
    <3>1. all[i] = rest[i - 1] /\ i - 1 \in DOMAIN rest
      BY <1>a, <2>2
    <3> QED
      BY <3>1 DEF LaysOut
  <2> QED
    BY <2>1, <2>2
<1>7. ASSUME NEW i \in DOMAIN all, NEW j \in DOMAIN all, i < j,
             NEW x \in PagesOf(all[i]), NEW y \in PagesOf(all[j])
      PROVE  x < y
  <2>1. j # 1 /\ all[j] = rest[j - 1] /\ j - 1 \in DOMAIN rest
    BY <1>3, <1>7, <1>a
  <2>2. CASE i = 1
    <3>1. x \in p .. q - 1 /\ y \in q .. count
      BY <1>3, <1>4, <1>7, <2>1, <2>2
    <3> QED
      BY <3>1
  <2>3. CASE i # 1
    <3>1. all[i] = rest[i - 1] /\ i - 1 \in DOMAIN rest /\ i - 1 < j - 1
      BY <1>3, <1>7, <1>a, <2>3
    <3> QED
      BY <1>7, <2>1, <3>1 DEF LaysOut
  <2> QED
    BY <2>2, <2>3
<1>8. ASSUME NEW page \in p .. count
      PROVE  \E i \in DOMAIN all : page \in PagesOf(all[i])
  <2>1. CASE page < q
    <3>1. page \in p .. q - 1
      BY <2>1
    <3>2. 1 \in DOMAIN all
      BY <1>3
    <3> QED
      BY <1>3, <3>1, <3>2
  <2>2. CASE page >= q
    <3>1. PICK i \in DOMAIN rest : page \in PagesOf(rest[i])
      BY <2>2 DEF LaysOut
    <3>2. i + 1 \in DOMAIN all /\ all[i + 1] = rest[i]
      BY <1>b
    <3> QED
      BY <3>1, <3>2
  <2> QED
    BY <2>1, <2>2
<1> QED
  <2>1. LaysOut(all, p, count)
    BY <1>3, <1>6, <1>7, <1>8 DEF LaysOut
  <2> QED
    BY <2>1 DEF all

LEMMA DealtLaysOut ==
    ASSUME NEW count \in Nat, NEW mode, NEW firstPageSingle, NEW unpairable,
           NEW rest, NEW p \in Nat \ {0}, p <= count + 2,
           p <= count => LaysOut(rest[p + 1], p + 1, count),
           p < count => LaysOut(rest[p + 2], p + 2, count)
    PROVE  LaysOut(Dealt(count, mode, firstPageSingle, unpairable, rest, p), p, count)
<1>1. CASE p > count
  BY <1>1 DEF Dealt, LaysOut
<1>2. CASE p <= count /\ Alone(count, mode, firstPageSingle, unpairable, p)
  <2>1. Dealt(count, mode, firstPageSingle, unpairable, rest, p) = <<<<p>>>> \o rest[p + 1]
    BY <1>2 DEF Dealt
  <2>2. PagesOf(<<p>>) = p .. (p + 1) - 1 /\ Once(<<p>>)
    BY DEF PagesOf, Once
  <2>3. <<p>> \in Seq(p .. count) /\ p < p + 1 /\ p + 1 <= count + 1 /\ p \in Nat /\ p + 1 \in Nat
    BY <1>2
  <2> QED
    BY <1>2, <2>1, <2>2, <2>3, OneMoreSpread
<1>3. CASE p <= count /\ ~Alone(count, mode, firstPageSingle, unpairable, p)
  <2>1. p < count /\ Dealt(count, mode, firstPageSingle, unpairable, rest, p) = <<<<p, p + 1>>>> \o rest[p + 2]
    BY <1>3 DEF Dealt, Alone
  <2>2. PagesOf(<<p, p + 1>>) = p .. (p + 2) - 1 /\ Once(<<p, p + 1>>)
    BY DEF PagesOf, Once
  <2>3. /\ <<p, p + 1>> \in Seq(p .. count)
        /\ p < p + 2 /\ p + 2 <= count + 1 /\ p \in Nat /\ p + 2 \in Nat
    BY <2>1
  <2> QED
    BY <2>1, <2>2, <2>3, OneMoreSpread
<1> QED
  BY <1>1, <1>2, <1>3

LEMMA DealingEnds ==
    ASSUME NEW count \in Nat, NEW mode, NEW firstPageSingle, NEW unpairable
    PROVE  \E f : Deals(f, count, mode, firstPageSingle, unpairable)
<1> DEFINE D(f, p) == Dealt(count, mode, firstPageSingle, unpairable, f, p)
           From(n) == \E f : f = [p \in count + 2 - n .. count + 2 |-> D(f, p)]
           bad == {n \in 0 .. count + 1 : ~From(n)}
<1>0. ASSUME NEW p \in Nat, NEW f, NEW g, p <= count => f[p + 1] = g[p + 1] /\ f[p + 2] = g[p + 2]
      PROVE  D(f, p) = D(g, p)
  BY <1>0 DEF Dealt
<1>1. From(0)
  <2> DEFINE f == [p \in count + 2 .. count + 2 |-> <<>>]
  <2>1. \A p \in count + 2 .. count + 2 : D(f, p) = <<>>
    BY DEF Dealt
  <2>2. f = [p \in count + 2 - 0 .. count + 2 |-> D(f, p)]
    BY <2>1
  <2> QED
    BY <2>2
<1>2. ASSUME NEW n \in 0 .. count, From(n)
      PROVE  From(n + 1)
  <2>1. PICK f : f = [p \in count + 2 - n .. count + 2 |-> D(f, p)]
    BY <1>2
  <2> DEFINE k == count + 2 - (n + 1)
             g == [p \in k .. count + 2 |-> IF p = k THEN D(f, p) ELSE f[p]]
  <2>2. \A p \in k + 1 .. count + 2 : f[p] = D(f, p)
    BY <2>1
  <2>3. \A p \in k .. count + 2 : g[p] = D(f, p)
    BY <2>2
  <2>4. ASSUME NEW p \in k .. count + 2
        PROVE  D(g, p) = D(f, p)
    <3>1. p <= count => g[p + 1] = f[p + 1] /\ g[p + 2] = f[p + 2]
      OBVIOUS
    <3> QED
      BY <3>1, <1>0
  <2>5. g = [p \in k .. count + 2 |-> D(g, p)]
    <3>1. \A p \in k .. count + 2 : g[p] = D(g, p)
      BY <2>3, <2>4
    <3> HIDE DEF D
    <3> QED
      BY <3>1
  <2> QED
    BY <2>5
<1>3. bad = {}
  <2>1. SUFFICES ASSUME bad # {} PROVE FALSE
    OBVIOUS
  <2>2. PICK n \in bad : \A m \in bad : n <= m
    <3>1. bad \in SUBSET Nat
      OBVIOUS
    <3> HIDE DEF bad
    <3> QED
      BY <2>1, <3>1, LeastNat
  <2>3. n # 0 /\ n \in 0 .. count + 1 /\ ~From(n)
    <3> HIDE DEF From
    <3> QED
      BY <1>1
  <2>4. From(n - 1)
    <3> HIDE DEF From
    <3> QED
      BY <2>2, <2>3
  <2>5. From((n - 1) + 1)
    <3> HIDE DEF From
    <3> QED
      BY <2>3, <2>4, <1>2
  <2>6. (n - 1) + 1 = n
    BY <2>3
  <2> HIDE DEF From
  <2> QED
    BY <2>3, <2>5, <2>6
<1>4. From(count + 1)
  <2> HIDE DEF From
  <2> QED
    BY <1>3
<1>5. count + 2 - (count + 1) = 1
  OBVIOUS
<1> QED
  BY <1>4, <1>5 DEF Deals

LEMMA PairLaysOut ==
    ASSUME NEW count \in Nat, NEW mode, NEW firstPageSingle, NEW unpairable
    PROVE  LaysOut(Pair(count, mode, firstPageSingle, unpairable), 1, count)
<1> DEFINE D(f, p) == Dealt(count, mode, firstPageSingle, unpairable, f, p)
           dealt == CHOOSE f : Deals(f, count, mode, firstPageSingle, unpairable)
<1>1. Pair(count, mode, firstPageSingle, unpairable) = dealt[1]
  BY DEF Pair, Deals, Dealt, Alone
<1>2. Deals(dealt, count, mode, firstPageSingle, unpairable)
  BY DealingEnds
<1>3. \A p \in 1 .. count + 2 : dealt[p] = D(dealt, p)
  <2> HIDE DEF dealt
  <2> QED
    BY <1>2 DEF Deals
<1> HIDE DEF dealt
<1> DEFINE bad == {n \in 0 .. count + 1 : ~LaysOut(dealt[count + 2 - n], count + 2 - n, count)}
<1>4. bad = {}
  <2>1. SUFFICES ASSUME bad # {} PROVE FALSE
    OBVIOUS
  <2>2. PICK n \in bad : \A m \in bad : n <= m
    <3>1. bad \in SUBSET Nat
      OBVIOUS
    <3> HIDE DEF bad
    <3> QED
      BY <2>1, <3>1, LeastNat
  <2> DEFINE p == count + 2 - n
  <2>3. /\ n \in 0 .. count + 1 /\ ~LaysOut(dealt[p], p, count)
        /\ p \in 1 .. count + 2
    OBVIOUS
  <2>4. ASSUME NEW m \in 0 .. count + 1, m < n
        PROVE  LaysOut(dealt[count + 2 - m], count + 2 - m, count)
    BY <2>2, <2>4
  <2>5. p <= count => LaysOut(dealt[p + 1], p + 1, count)
    <3>1. SUFFICES ASSUME p <= count PROVE LaysOut(dealt[p + 1], p + 1, count)
      OBVIOUS
    <3>2. n - 1 \in 0 .. count + 1 /\ n - 1 < n /\ count + 2 - (n - 1) = p + 1
      BY <2>3, <3>1
    <3> QED
      BY <3>2, <2>4
  <2>6. p < count => LaysOut(dealt[p + 2], p + 2, count)
    <3>1. SUFFICES ASSUME p < count PROVE LaysOut(dealt[p + 2], p + 2, count)
      OBVIOUS
    <3>2. n - 2 \in 0 .. count + 1 /\ n - 2 < n /\ count + 2 - (n - 2) = p + 2
      BY <2>3, <3>1
    <3> QED
      BY <3>2, <2>4
  <2> HIDE DEF p
  <2>7. LaysOut(D(dealt, p), p, count)
    BY <2>3, <2>5, <2>6, DealtLaysOut
  <2> QED
    BY <2>3, <2>7, <1>3
<1>5. LaysOut(dealt[1], 1, count)
  <2>1. count + 1 \in 0 .. count + 1 /\ count + 2 - (count + 1) = 1
    OBVIOUS
  <2> QED
    BY <1>4, <2>1
<1> QED
  BY <1>1, <1>5

\* Pages are dealt once: whatever the layout, the cover rule and the pages that
\* stand alone, every page of a book is in exactly one spread, no spread is
\* empty, and the spreads follow the order of the pages (pair).
THEOREM PagesAreDealtOnce ==
    ASSUME NEW count \in Nat, NEW mode, NEW firstPageSingle, NEW unpairable
    PROVE  LET spreads == Pair(count, mode, firstPageSingle, unpairable)
           IN  /\ \A i \in DOMAIN spreads : PagesOf(spreads[i]) # {}
               /\ \A i, j \in DOMAIN spreads : i < j =>
                     \A x \in PagesOf(spreads[i]), y \in PagesOf(spreads[j]) : x < y
               /\ UNION {PagesOf(spreads[i]) : i \in DOMAIN spreads} = 1 .. count
<1>1. PICK spreads : spreads = Pair(count, mode, firstPageSingle, unpairable)
  OBVIOUS
<1>2. LaysOut(spreads, 1, count)
  BY <1>1, PairLaysOut
<1>3. ASSUME NEW i \in DOMAIN spreads
      PROVE  PagesOf(spreads[i]) # {} /\ PagesOf(spreads[i]) \subseteq 1 .. count
  <2>1. spreads[i] \in Seq(1 .. count) /\ spreads[i] # <<>>
    BY <1>2 DEF LaysOut
  <2>2. 1 \in DOMAIN spreads[i]
    BY <2>1, FirstIsThere
  <2> QED
    BY <2>1, <2>2 DEF PagesOf
<1>4. UNION {PagesOf(spreads[i]) : i \in DOMAIN spreads} = 1 .. count
  BY <1>2, <1>3 DEF LaysOut
<1> QED
  BY <1>1, <1>2, <1>3, <1>4 DEF LaysOut
===============================================================================
