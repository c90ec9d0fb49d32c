-------------------------- MODULE SourceFetchProofs --------------------------
(***************************************************************************)
(* Theorems about SourceFetch, for any limits, pages and answers.  What the *)
(* recursive operators compute is proved by induction on the length of a    *)
(* sequence: if a claim failed, it would for a least length.                *)
(***************************************************************************)
EXTENDS SourceFetch, SequenceTheorems, FiniteSetTheorems, WellFoundedInduction, TLAPS

Less == {p \in Nat \X Nat : p[1] < p[2]}

LEMMA LeastNumber ==
  ASSUME NEW T, T \subseteq Nat, T # {}
  PROVE  \E x \in T : \A y \in T : x <= y
<1>1. IsWellFoundedOn(Less, Nat)
  BY NatLessThanWellFounded DEF OpToRel, Less
<1>2. PICK x \in T : \A y \in T : <<y, x>> \notin Less
  BY <1>1, WFMin
<1>3. \A y \in T : x <= y
  <2> SUFFICES ASSUME NEW y \in T PROVE x <= y
    OBVIOUS
  <2>1. x \in Nat /\ y \in Nat /\ <<y, x>> \in Nat \X Nat
    OBVIOUS
  <2>2. ~(y < x)
    BY <1>2, <2>1 DEF Less
  <2> QED
    BY <2>1, <2>2
<1> QED
  BY <1>3

\* A set of numbers that contains 0, and with a number its successor up to n,
\* contains all of them.
LEMMA UpToN ==
  ASSUME NEW n \in Nat, NEW T, 0 \in T,
         \A j \in 1..n : j - 1 \in T => j \in T
  PROVE  0..n \subseteq T
<1> DEFINE Wrong == {j \in 0..n : j \notin T}
<1>1. ASSUME Wrong # {} PROVE FALSE
  <2>0. Wrong \subseteq Nat
    OBVIOUS
  <2> HIDE DEF Wrong
  <2>1. PICK j \in Wrong : \A k \in Wrong : j <= k
    BY <1>1, <2>0, LeastNumber
  <2> USE DEF Wrong
  <2>2. j \in 1..n /\ j - 1 \in 0..n /\ j - 1 \notin Wrong
    BY <2>1
  <2> QED
    BY <2>1, <2>2
<1> QED
  BY <1>1

----------------------------------------------------------------------------
\* What UsableIn finds.

Entry == {"usable", "blank", "invalid"}
Real == {"real"} \X Nat

Scanned(page, f, j) ==
  IF j = 0 THEN <<>>
  ELSE IF page[j] = "usable" THEN Append(f[j - 1], <<"real", j>>) ELSE f[j - 1]
Scan(page, f) == f = [j \in 0..Len(page) |-> Scanned(page, f, j)]

LEMMA ScanExists ==
  ASSUME NEW page, Len(page) \in Nat
  PROVE  \E f : Scan(page, f)
<1> DEFINE Upto(n, f) == f = [j \in 0..n |-> Scanned(page, f, j)]
           T == {n \in Nat : \E f : Upto(n, f)}
<1>1. 0 \in T
  <2> DEFINE f == [j \in 0..0 |-> <<>>]
  <2>1. Upto(0, f)
    BY DEF Scanned
  <2> QED
    BY <2>1
<1>2. ASSUME NEW n \in 1..Len(page), n - 1 \in T PROVE n \in T
  <2>1. PICK f : Upto(n - 1, f)
    BY <1>2
  <2> DEFINE g == [j \in 0..n |-> Scanned(page, f, j)]
  <2>2. \A j \in 0..(n - 1) : g[j] = f[j]
    BY <2>1
  <2>3. ASSUME NEW j \in 0..n PROVE Scanned(page, g, j) = Scanned(page, f, j)
    <3>1. j # 0 => j - 1 \in 0..(n - 1)
      OBVIOUS
    <3>2. j # 0 => g[j - 1] = f[j - 1]
      BY <2>2, <3>1
    <3> QED
      BY <3>2 DEF Scanned
  <2>4. Upto(n, g)
    BY <2>3
  <2> HIDE DEF g
  <2> QED
    BY <2>4
<1> HIDE DEF T
<1>3. 0..Len(page) \subseteq T
  BY <1>1, <1>2, UpToN
<1>4. Len(page) \in T
  BY <1>3
<1> QED
  BY <1>4 DEF Scan, T

LEMMA ScanUnique ==
  ASSUME NEW page, Len(page) \in Nat, NEW f, NEW g, Scan(page, f), Scan(page, g)
  PROVE  f = g
<1> DEFINE T == {j \in 0..Len(page) : f[j] = g[j]}
<1>1. 0 \in T
  BY DEF Scan, Scanned
<1>2. ASSUME NEW j \in 1..Len(page), j - 1 \in T PROVE j \in T
  <2>1. j \in 0..Len(page) /\ f[j - 1] = g[j - 1]
    BY <1>2
  <2>2. f[j] = Scanned(page, f, j) /\ g[j] = Scanned(page, g, j)
    BY <2>1 DEF Scan
  <2> QED
    BY <2>1, <2>2 DEF Scanned
<1> HIDE DEF T
<1>3. 0..Len(page) \subseteq T
  BY <1>1, <1>2, UpToN
<1> QED
  BY <1>3 DEF Scan, T

LEMMA UsableIsScan ==
  ASSUME NEW page, Len(page) \in Nat, NEW f, Scan(page, f)
  PROVE  UsableIn(page) = f[Len(page)]
<1>1. \A g : Scan(page, g) <=> g = f
  BY ScanUnique
<1> QED
  BY <1>1 DEF UsableIn, Scan, Scanned

\* The usable entries among the first j, in order and every one once.
Collected(page, j, u) ==
  /\ u \in Seq(Real)
  /\ \A k \in 1..Len(u) : u[k][2] \in 1..j /\ page[u[k][2]] = "usable"
  /\ \A k, l \in 1..Len(u) : k < l => u[k][2] < u[l][2]
  /\ \A x \in 1..j : page[x] = "usable" => \E k \in 1..Len(u) : u[k][2] = x

LEMMA UsableCollected ==
  ASSUME NEW page \in Seq(Entry)
  PROVE  Collected(page, Len(page), UsableIn(page))
<1>0. Len(page) \in Nat
  OBVIOUS
<1>1. PICK f : Scan(page, f)
  BY <1>0, ScanExists
<1> DEFINE T == {j \in 0..Len(page) : Collected(page, j, f[j])}
<1>2. 0 \in T
  <2>1. f[0] = Scanned(page, f, 0)
    BY <1>0, <1>1 DEF Scan
  <2>2. f[0] = <<>>
    BY <2>1 DEF Scanned
  <2>3. Collected(page, 0, f[0])
    BY <2>2 DEF Collected
  <2> QED
    BY <1>0, <2>3
<1>3. ASSUME NEW j \in 1..Len(page), j - 1 \in T PROVE j \in T
  <2>1. Collected(page, j - 1, f[j - 1]) /\ j \in Nat
    BY <1>0, <1>3
  <2>0. f[j] = Scanned(page, f, j)
    BY <1>0, <1>1 DEF Scan
  <2>2. f[j] = IF page[j] = "usable" THEN Append(f[j - 1], <<"real", j>>) ELSE f[j - 1]
    BY <2>0, <2>1 DEF Scanned
  <2>3. CASE page[j] # "usable"
    <3>1. f[j] = f[j - 1] /\ \A x \in 1..j : x # j => x \in 1..(j - 1)
      BY <2>1, <2>2, <2>3
    <3>2. Collected(page, j, f[j])
      BY <2>1, <2>3, <3>1 DEF Collected
    <3> QED
      BY <3>2
  <2>4. CASE page[j] = "usable"
    <3> DEFINE u == f[j - 1]
               w == Append(u, <<"real", j>>)
    <3>1. u \in Seq(Real) /\ <<"real", j>> \in Real /\ Len(u) \in Nat
      BY <2>1 DEF Collected, Real
    <3>2. /\ w \in Seq(Real) /\ Len(w) = Len(u) + 1 /\ w[Len(u) + 1] = <<"real", j>>
          /\ \A k \in 1..Len(u) : w[k] = u[k]
      BY <3>1, AppendProperties
    <3>3. /\ \A k \in 1..Len(u) : u[k][2] \in 1..(j - 1) /\ page[u[k][2]] = "usable"
          /\ \A k, l \in 1..Len(u) : k < l => u[k][2] < u[l][2]
          /\ \A x \in 1..(j - 1) : page[x] = "usable" => \E k \in 1..Len(u) : u[k][2] = x
      BY <2>1 DEF Collected
    <3> HIDE DEF u, w
    <3>4. \A k \in 1..Len(w) : k \in 1..Len(u) \/ k = Len(u) + 1
      BY <3>1, <3>2
    <3>5. \A k \in 1..Len(w) : w[k][2] \in 1..j /\ page[w[k][2]] = "usable"
      BY <2>1, <2>4, <3>2, <3>3, <3>4
    <3>6. \A k, l \in 1..Len(w) : k < l => w[k][2] < w[l][2]
      <4> SUFFICES ASSUME NEW k \in 1..Len(w), NEW l \in 1..Len(w), k < l
                   PROVE  w[k][2] < w[l][2]
        OBVIOUS
      <4>1. k \in 1..Len(u)
        BY <3>1, <3>2
      <4>2. w[k] = u[k] /\ u[k][2] \in 1..(j - 1)
        BY <3>2, <3>3, <4>1
      <4>3. CASE l \in 1..Len(u)
        BY <3>2, <3>3, <4>1, <4>3
      <4>4. CASE l = Len(u) + 1
        BY <2>1, <3>2, <4>2, <4>4
      <4> QED
        BY <3>4, <4>3, <4>4
    <3>7. \A x \in 1..j : page[x] = "usable" => \E k \in 1..Len(w) : w[k][2] = x
      <4> SUFFICES ASSUME NEW x \in 1..j, page[x] = "usable"
                   PROVE  \E k \in 1..Len(w) : w[k][2] = x
        OBVIOUS
      <4>1. CASE x = j
        BY <3>1, <3>2, <4>1
      <4>2. CASE x # j
        <5>1. PICK k \in 1..Len(u) : u[k][2] = x
          BY <2>1, <3>3, <4>2
        <5>2. k \in 1..Len(w) /\ w[k][2] = x
          BY <3>1, <3>2, <5>1
        <5> QED
          BY <5>2
      <4> QED
        BY <4>1, <4>2
    <3>8. Collected(page, j, w)
      BY <3>2, <3>5, <3>6, <3>7 DEF Collected
    <3>9. f[j] = w
      BY <2>2, <2>4 DEF w, u
    <3> QED
      BY <3>8, <3>9
  <2> QED
    BY <2>3, <2>4
<1> HIDE DEF T
<1>4. 0..Len(page) \subseteq T
  BY <1>0, <1>2, <1>3, UpToN
<1>5. Collected(page, Len(page), f[Len(page)])
  BY <1>0, <1>4 DEF T
<1> QED
  BY <1>0, <1>1, <1>5, UsableIsScan

\* Reading one entry more.
LEMMA UsablePrefix ==
  ASSUME NEW page \in Seq(Entry)
  PROVE  /\ UsableIn(SubSeq(page, 1, 0)) = <<>>
         /\ UsableIn(SubSeq(page, 1, Len(page))) = UsableIn(page)
         /\ \A j \in 1..Len(page) : UsableIn(SubSeq(page, 1, j)) =
              IF page[j] = "usable"
              THEN Append(UsableIn(SubSeq(page, 1, j - 1)), <<"real", j>>)
              ELSE UsableIn(SubSeq(page, 1, j - 1))
<1>0. Len(page) \in Nat
  OBVIOUS
<1>1. PICK f : Scan(page, f)
  BY <1>0, ScanExists
<1>2. ASSUME NEW j \in 0..Len(page) PROVE UsableIn(SubSeq(page, 1, j)) = f[j]
  <2> DEFINE front == SubSeq(page, 1, j)
             g == [k \in 0..j |-> f[k]]
  <2>1. Len(front) = j /\ \A k \in 1..j : front[k] = page[k]
    BY <1>0, <1>2
  <2>2. ASSUME NEW k \in 0..j PROVE g[k] = Scanned(front, g, k)
    <3>1. k \in 0..Len(page) /\ (k # 0 => k \in 1..j /\ k - 1 \in 0..j)
      BY <1>0
    <3>2. f[k] = Scanned(page, f, k)
      BY <1>1, <3>1 DEF Scan
    <3> QED
      BY <2>1, <3>1, <3>2 DEF Scanned
  <2>3. g = [k \in 0..j |-> Scanned(front, g, k)]
    BY <2>2
  <2>4. j \in Nat /\ g[j] = f[j]
    BY <1>0
  <2> HIDE DEF front, g
  <2>5. Scan(front, g)
    BY <2>1, <2>3 DEF Scan
  <2>6. UsableIn(front) = g[Len(front)]
    BY <2>1, <2>4, <2>5, UsableIsScan
  <2> QED
    BY <2>1, <2>4, <2>6 DEF front
<1>3. UsableIn(page) = f[Len(page)]
  BY <1>0, <1>1, UsableIsScan
<1>4. \A j \in 0..Len(page) : f[j] = Scanned(page, f, j)
  BY <1>1 DEF Scan
<1>5. 0 \in 0..Len(page) /\ Len(page) \in 0..Len(page)
  BY <1>0
<1>6. UsableIn(SubSeq(page, 1, 0)) = <<>>
  BY <1>2, <1>4, <1>5 DEF Scanned
<1>7. ASSUME NEW j \in 1..Len(page)
      PROVE  UsableIn(SubSeq(page, 1, j)) =
               IF page[j] = "usable"
               THEN Append(UsableIn(SubSeq(page, 1, j - 1)), <<"real", j>>)
               ELSE UsableIn(SubSeq(page, 1, j - 1))
  <2>1. j \in 0..Len(page) /\ j - 1 \in 0..Len(page) /\ j # 0
    BY <1>0
  <2> QED
    BY <1>2, <1>4, <2>1 DEF Scanned
<1> QED
  BY <1>2, <1>3, <1>5, <1>6, <1>7

Leading(page, m) == SubSeq(page, 1, m)

LEMMA LeadingOf ==
  ASSUME NEW page \in Seq(Entry), NEW m \in 0..Len(page)
  PROVE  /\ Leading(page, m) \in Seq(Entry) /\ Len(Leading(page, m)) = m
         /\ \A x \in 1..m : Leading(page, m)[x] = page[x]
BY DEF Leading

LEMMA WholePage ==
  ASSUME NEW page \in Seq(Entry)
  PROVE  Leading(page, Len(page)) = page
BY DEF Leading

\* The loop stops at the share: it goes through the page to its end, or until
\* it has found as many as its share.
LEMMA SeenIsFront ==
  ASSUME NEW page \in Seq(Entry), NEW n \in Nat \ {0}
  PROVE  \E m \in 0..Len(page) :
           /\ Seen(page, n) = Leading(page, m)
           /\ Len(UsableIn(Leading(page, m))) <= n
           /\ m = Len(page) \/ Len(UsableIn(Leading(page, m))) = n
<1> DEFINE F(j) == Leading(page, j)
           Full == {j \in DOMAIN page : Len(UsableIn(SubSeq(page, 1, j))) = n}
<1>0. Len(page) \in Nat /\ DOMAIN page = 1..Len(page)
  OBVIOUS
<1>1. ASSUME NEW j \in 0..Len(page) PROVE Len(UsableIn(F(j))) \in Nat
  <2>1. F(j) \in Seq(Entry)
    BY LeadingOf
  <2>2. UsableIn(F(j)) \in Seq(Real)
    BY <2>1, UsableCollected DEF Collected
  <2> QED
    BY <2>2
<1>2. CASE Full = {}
  <2> DEFINE T == {j \in 0..Len(page) : Len(UsableIn(F(j))) < n}
  <2>1. 0 \in T
    <3>1. UsableIn(F(0)) = <<>>
      BY UsablePrefix DEF Leading
    <3> QED
      BY <1>0, <3>1
  <2>2. ASSUME NEW j \in 1..Len(page), j - 1 \in T PROVE j \in T
    <3>1. j - 1 \in 0..Len(page) /\ j \in 0..Len(page) /\ j - 1 \in T
      BY <1>0, <2>2
    <3>2. UsableIn(F(j)) = IF page[j] = "usable"
                           THEN Append(UsableIn(F(j - 1)), <<"real", j>>)
                           ELSE UsableIn(F(j - 1))
      BY UsablePrefix DEF Leading
    <3>3. F(j - 1) \in Seq(Entry)
      BY <3>1, LeadingOf
    <3>4. UsableIn(F(j - 1)) \in Seq(Real) /\ <<"real", j>> \in Real
      BY <3>1, <3>3, UsableCollected DEF Collected, Real
    <3>5. Len(Append(UsableIn(F(j - 1)), <<"real", j>>)) = Len(UsableIn(F(j - 1))) + 1
      BY <3>4, AppendProperties
    <3>6. Len(UsableIn(F(j))) # n
      BY <1>0, <1>2 DEF Leading
    <3>7. Len(UsableIn(F(j - 1))) < n /\ Len(UsableIn(F(j - 1))) \in Nat
      BY <1>1, <3>1
    <3>8. Len(UsableIn(F(j))) < n
      BY <3>2, <3>5, <3>6, <3>7
    <3> QED
      BY <3>1, <3>8
  <2> HIDE DEF T
  <2>3. 0..Len(page) \subseteq T
    BY <1>0, <2>1, <2>2, UpToN
  <2>4. Len(page) \in 0..Len(page) /\ Len(page) \in T
    BY <1>0, <2>3
  <2>5. Len(UsableIn(F(Len(page)))) < n
    BY <2>4 DEF T
  <2>6. Seen(page, n) = page
    BY <1>2 DEF Seen, UpTo
  <2>7. Seen(page, n) = F(Len(page)) /\ Len(UsableIn(F(Len(page)))) <= n
    BY <1>1, <2>4, <2>5, <2>6, WholePage
  <2> QED
    BY <2>4, <2>7
<1>3. CASE Full # {}
  <2>0. Full \subseteq Nat
    BY <1>0
  <2>1. \E x \in Full : \A y \in Full : x <= y
    BY <1>3, <2>0, LeastNumber
  <2>2. Min(Full) \in Full
    BY <2>1 DEF Min
  <2>3. Seen(page, n) = SubSeq(page, 1, Min(Full))
    BY <1>3 DEF Seen, UpTo
  <2> HIDE DEF Full
  <2>4. PICK m : m = Min(Full)
    OBVIOUS
  <2>5. m \in 0..Len(page) /\ Len(UsableIn(F(m))) = n
    BY <1>0, <2>2, <2>4 DEF Full, Leading
  <2>6. /\ Seen(page, n) = Leading(page, m) /\ Len(UsableIn(Leading(page, m))) <= n
        /\ Len(UsableIn(Leading(page, m))) = n
    BY <2>3, <2>4, <2>5 DEF Leading
  <2> QED
    BY <2>5, <2>6
<1> QED
  BY <1>2, <1>3

----------------------------------------------------------------------------
\* What a crawler returns.

Item == {"real", "sample", "made"} \X Nat
RealAt(list) == {j \in DOMAIN list : list[j][1] = "real"}
Reals(list) == {list[j] : j \in RealAt(list)}
RealFirst(list) == \A j, k \in DOMAIN list : j < k /\ k \in RealAt(list) => j \in RealAt(list)

\* No more than n, what was read before what was made up, and all that was
\* read is in found.
Filled(list, found, n) ==
  /\ list \in Seq(Item) /\ Len(list) <= n
  /\ RealFirst(list)
  /\ Reals(list) = ToSet(found)

LEMMA ItemsOfReals ==
  ASSUME NEW u \in Seq(Real)
  PROVE  u \in Seq(Item) /\ RealAt(u) = DOMAIN u /\ RealFirst(u) /\ Reals(u) = ToSet(u)
<1>1. DOMAIN u = 1..Len(u) /\ \A j \in 1..Len(u) : u[j] \in Real /\ u[j] \in Item /\ u[j][1] = "real"
  BY DEF Real, Item
<1>2. RealAt(u) = DOMAIN u
  BY <1>1 DEF RealAt
<1>3. u \in Seq(Item)
  <2> Real \subseteq Item
    BY DEF Real, Item
  <2> QED
    OBVIOUS
<1> QED
  BY <1>2, <1>3 DEF RealFirst, Reals, ToSet

\* The sequences without a real entry.
LEMMA NothingReal ==
  ASSUME NEW list \in Seq(Item), \A j \in 1..Len(list) : list[j][1] # "real"
  PROVE  RealFirst(list) /\ Reals(list) = {}
BY DEF RealFirst, Reals, RealAt

LEMMA SamplesFilled ==
  ASSUME NEW s, s.samples \in Nat, NEW n \in Nat
  PROVE  /\ Samples(s, n) \in Seq(Item) /\ Len(Samples(s, n)) <= n
         /\ \A j \in 1..Len(Samples(s, n)) : Samples(s, n)[j][1] = "sample"
<1>1. PICK m : m = Least(s.samples, n)
  OBVIOUS
<1>2. m \in Nat /\ m <= n
  BY <1>1 DEF Least
<1>3. Samples(s, n) = [k \in 1..m |-> <<"sample", k>>]
  BY <1>1 DEF Samples
<1>4. \A k \in 1..m : <<"sample", k>> \in Item
  BY <1>2 DEF Item
<1> QED
  BY <1>2, <1>3, <1>4

\* A function on 1..m is a sequence of length m.
LEMMA AsSequence ==
  ASSUME NEW S, NEW m \in Nat, NEW f \in [1..m -> S]
  PROVE  f \in Seq(S) /\ Len(f) = m
OBVIOUS

LEMMA PaddedFilled ==
  ASSUME NEW s, s.samples \in Nat, NEW n \in Nat, NEW found \in Seq(Real), Len(found) <= n
  PROVE  Filled(Padded(s, found, n), found, n)
<1> DEFINE base == IF found = <<>> THEN Samples(s, n) ELSE found
           more == [k \in 1..(n - Len(base)) |-> <<"made", Len(base) + k>>]
           list == base \o more
<1>1. base \in Seq(Item) /\ Len(base) \in Nat /\ Len(base) <= n
  <2>1. CASE found = <<>>
    BY <2>1, SamplesFilled
  <2>2. CASE found # <<>>
    BY <2>2, ItemsOfReals
  <2> QED
    BY <2>1, <2>2
<1>2. /\ found # <<>> => base = found /\ \A j \in 1..Len(base) : base[j][1] = "real"
      /\ found = <<>> => \A j \in 1..Len(base) : base[j][1] = "sample"
  BY SamplesFilled DEF Real
<1>3. Padded(s, found, n) = list
  BY DEF Padded
<1> HIDE DEF base
<1>4. /\ more \in Seq(Item) /\ Len(more) = n - Len(base)
      /\ \A k \in 1..Len(more) : more[k][1] = "made"
  <2>1. PICK m : m = n - Len(base)
    OBVIOUS
  <2>2. m \in Nat
    BY <1>1, <2>1
  <2>3. more = [k \in 1..m |-> <<"made", Len(base) + k>>]
    BY <2>1
  <2>4. \A k \in 1..m : <<"made", Len(base) + k>> \in Item
    BY <1>1, <2>2 DEF Item
  <2>5. more \in [1..m -> Item]
    BY <2>3, <2>4, Zenon
  <2>6. more \in Seq(Item) /\ Len(more) = m
    BY <2>2, <2>5, AsSequence, Zenon
  <2>7. \A k \in 1..m : more[k][1] = "made"
    BY <2>3
  <2> QED
    BY <2>1, <2>6, <2>7, Zenon
<1> HIDE DEF more
<1>5. /\ list \in Seq(Item) /\ Len(list) = n
      /\ \A j \in 1..Len(base) : list[j] = base[j]
      /\ \A j \in 1..Len(list) : j > Len(base) => list[j][1] = "made"
  <2>1. /\ list \in Seq(Item) /\ Len(list) = Len(base) + Len(more)
        /\ \A j \in 1..Len(list) : list[j] = IF j <= Len(base) THEN base[j] ELSE more[j - Len(base)]
    BY <1>1, <1>4, ConcatProperties
  <2>2. Len(list) = n
    BY <1>1, <1>4, <2>1
  <2>3. ASSUME NEW j \in 1..Len(list), j > Len(base) PROVE list[j][1] = "made"
    <3>1. j - Len(base) \in 1..Len(more)
      BY <1>1, <1>4, <2>2, <2>3
    <3>2. list[j] = more[j - Len(base)]
      BY <1>1, <2>1, <2>3
    <3> QED
      BY <1>4, <3>1, <3>2
  <2> QED
    BY <1>1, <2>1, <2>2, <2>3
<1> HIDE DEF list
<1>6. DOMAIN list = 1..n
  BY <1>5
<1>7. CASE found = <<>>
  <2>1. \A j \in 1..Len(list) : list[j][1] # "real"
    BY <1>1, <1>2, <1>5, <1>7
  <2>2. ToSet(found) = {}
    BY <1>7 DEF ToSet
  <2> QED
    BY <1>3, <1>5, <2>1, <2>2, NothingReal DEF Filled
<1>8. CASE found # <<>>
  <2>1. base = found /\ \A j \in 1..Len(base) : base[j][1] = "real"
    BY <1>2, <1>8
  <2>2. RealAt(list) = 1..Len(base)
    BY <1>1, <1>5, <1>6, <2>1 DEF RealAt
  <2>3. RealFirst(list)
    BY <1>1, <1>6, <2>2 DEF RealFirst
  <2>4. Reals(list) = {base[j] : j \in 1..Len(base)}
    BY <1>5, <2>2 DEF Reals
  <2>5. Reals(list) = ToSet(found)
    BY <2>1, <2>4 DEF ToSet
  <2> QED
    BY <1>3, <1>5, <2>3, <2>5 DEF Filled
<1> QED
  BY <1>7, <1>8

LEMMA FillFilled ==
  ASSUME NEW s, s.samples \in Nat, NEW n \in Nat, NEW found \in Seq(Real), Len(found) <= n
  PROVE  Filled(Fill(s, found, n), found, n)
<1>1. CASE s.short = "padded" /\ Len(found) < n
  BY <1>1, PaddedFilled DEF Fill
<1>2. CASE s.short = "samples" /\ found = <<>>
  <2>1. Fill(s, found, n) = Samples(s, n)
    BY <1>2 DEF Fill
  <2>2. ToSet(found) = {}
    BY <1>2 DEF ToSet
  <2> QED
    BY <2>1, <2>2, SamplesFilled, NothingReal DEF Filled
<1>3. CASE ~(s.short = "padded" /\ Len(found) < n) /\ ~(s.short = "samples" /\ found = <<>>)
  <2>1. Fill(s, found, n) = found
    BY <1>3 DEF Fill
  <2> QED
    BY <2>1, ItemsOfReals DEF Filled
<1> QED
  BY <1>1, <1>2, <1>3

----------------------------------------------------------------------------
\* How many different candidates there are.

LEMMA DifferentAtMost ==
  ASSUME NEW S, NEW seq \in Seq(S)
  PROVE  IsFiniteSet(ToSet(seq)) /\ Cardinality(ToSet(seq)) \in Nat
         /\ Cardinality(ToSet(seq)) <= Len(seq)
<1>1. DOMAIN seq = 1..Len(seq) /\ Len(seq) \in Nat
  OBVIOUS
<1>2. seq \in Surjection(1..Len(seq), ToSet(seq))
  BY <1>1 DEF Surjection, ToSet
<1>3. IsFiniteSet(1..Len(seq)) /\ Cardinality(1..Len(seq)) = Len(seq)
  BY <1>1, FS_Interval
<1>4. IsFiniteSet(ToSet(seq)) /\ Cardinality(ToSet(seq)) <= Len(seq)
  BY <1>2, <1>3, FS_Surjection
<1> QED
  BY <1>4, FS_CardinalityType

UsableAt(page) == {x \in 1..Len(page) : page[x] = "usable"}

LEMMA UsableSet ==
  ASSUME NEW page \in Seq(Entry)
  PROVE  /\ UsableIn(page) \in Seq(Real)
         /\ ToSet(UsableIn(page)) = {<<"real", x>> : x \in UsableAt(page)}
         /\ IsFiniteSet(ToSet(UsableIn(page)))
         /\ Cardinality(ToSet(UsableIn(page))) = Len(UsableIn(page))
<1> DEFINE u == UsableIn(page)
<1>1. Collected(page, Len(page), u)
  BY UsableCollected
<1> HIDE DEF u
<1>2. u \in Seq(Real) /\ DOMAIN u = 1..Len(u) /\ Len(u) \in Nat
  BY <1>1 DEF Collected
<1>3. \A k \in 1..Len(u) : u[k] = <<"real", u[k][2]>> /\ u[k][2] \in Nat
  BY <1>2 DEF Real
<1>4. \A k \in 1..Len(u) : u[k][2] \in UsableAt(page)
  BY <1>1 DEF Collected, UsableAt
<1>5. \A x \in UsableAt(page) : \E k \in 1..Len(u) : u[k] = <<"real", x>>
  BY <1>1, <1>3 DEF Collected, UsableAt
<1>6. ToSet(u) = {<<"real", x>> : x \in UsableAt(page)}
  <2>1. \A c \in ToSet(u) : \E k \in 1..Len(u) : c = u[k]
    BY <1>2 DEF ToSet
  <2>2. \A k \in 1..Len(u) : u[k] \in ToSet(u)
    BY <1>2 DEF ToSet
  <2>3. ASSUME NEW c \in ToSet(u) PROVE c \in {<<"real", x>> : x \in UsableAt(page)}
    <3>1. PICK k \in 1..Len(u) : c = u[k]
      BY <2>1
    <3>2. c = <<"real", u[k][2]>> /\ u[k][2] \in UsableAt(page)
      BY <1>3, <1>4, <3>1
    <3> QED
      BY <3>2
  <2>4. \A x \in UsableAt(page) : <<"real", x>> \in ToSet(u)
    BY <2>2, <1>5
  <2> QED
    BY <2>3, <2>4
<1>7. \A k, l \in 1..Len(u) : u[k] = u[l] => k = l
  <2>1. \A k, l \in 1..Len(u) : k < l => u[k][2] < u[l][2]
    BY <1>1 DEF Collected
  <2>2. ASSUME NEW k \in 1..Len(u), NEW l \in 1..Len(u), u[k] = u[l] PROVE k = l
    <3>1. u[k][2] = u[l][2] /\ u[k][2] \in Nat
      BY <1>3, <2>2
    <3>2. ~(k < l) /\ ~(l < k)
      BY <2>1, <3>1
    <3> QED
      BY <3>2
  <2> QED
    BY <2>2
<1>8. u \in Bijection(1..Len(u), ToSet(u))
  BY <1>2, <1>7 DEF Bijection, Injection, IsInjective, Surjection, ToSet
<1>9. IsFiniteSet(1..Len(u)) /\ Cardinality(1..Len(u)) = Len(u)
  <2>1. PICK l : l = Len(u)
    OBVIOUS
  <2>2. l \in Nat
    BY <1>2, <2>1
  <2>3. IsFiniteSet(1..l) /\ Cardinality(1..l) = l
    BY <2>2, FS_Interval
  <2> QED
    BY <2>1, <2>3
<1>10. ExistsBijection(1..Len(u), ToSet(u))
  BY <1>8 DEF ExistsBijection
<1>11. IsFiniteSet(ToSet(u)) /\ Cardinality(ToSet(u)) = Len(u)
  BY <1>9, <1>10, FS_Bijection
<1> QED
  BY <1>2, <1>6, <1>11 DEF u

LEMMA UsableAtMost ==
  ASSUME NEW page \in Seq(Entry)
  PROVE  Cardinality(ToSet(UsableIn(page))) <= Len(page)
<1> DEFINE f == [x \in UsableAt(page) |-> <<"real", x>>]
<1>1. Len(page) \in Nat
  OBVIOUS
<1>2. IsFiniteSet(1..Len(page)) /\ Cardinality(1..Len(page)) = Len(page)
  BY <1>1, FS_Interval
<1>3. UsableAt(page) \in SUBSET (1..Len(page))
  BY DEF UsableAt
<1>4. /\ IsFiniteSet(UsableAt(page)) /\ Cardinality(UsableAt(page)) \in Nat
      /\ Cardinality(UsableAt(page)) <= Len(page)
  BY <1>2, <1>3, FS_Subset, FS_CardinalityType
<1>5. f \in Surjection(UsableAt(page), ToSet(UsableIn(page)))
  BY UsableSet DEF Surjection
<1> HIDE DEF f
<1>6. /\ IsFiniteSet(ToSet(UsableIn(page)))
      /\ Cardinality(ToSet(UsableIn(page))) <= Cardinality(UsableAt(page))
  BY <1>4, <1>5, FS_Surjection
<1>7. Cardinality(ToSet(UsableIn(page))) \in Nat
  BY <1>6, FS_CardinalityType
<1> QED
  BY <1>1, <1>4, <1>6, <1>7

LEMMA UsableInFront ==
  ASSUME NEW page \in Seq(Entry), NEW m \in 0..Len(page), NEW a \in 0..m
  PROVE  ToSet(UsableIn(Leading(page, a))) \subseteq ToSet(UsableIn(Leading(page, m)))
<1>1. Len(page) \in Nat /\ a \in 0..Len(page)
  OBVIOUS
<1>2. Leading(page, a) \in Seq(Entry) /\ Len(Leading(page, a)) = a
      /\ Leading(page, m) \in Seq(Entry) /\ Len(Leading(page, m)) = m
  BY <1>1, LeadingOf
<1>3. \A x \in 1..a : Leading(page, a)[x] = page[x] /\ Leading(page, m)[x] = page[x]
  BY <1>1, LeadingOf
<1>4. UsableAt(Leading(page, a)) \subseteq UsableAt(Leading(page, m))
  BY <1>2, <1>3 DEF UsableAt
<1> QED
  BY <1>2, <1>4, UsableSet

----------------------------------------------------------------------------
\* Every result a crawler returns is in order: it starts with what was read,
\* is no longer than the share when something is made up, has no more different
\* candidates than the share, and leaves out an entry of a valid page only when
\* the share is reached.
Sound(list, page, n) ==
  /\ list \in Seq(Item)
  /\ RealFirst(list)
  /\ RealAt(list) # DOMAIN list => Len(list) <= n
  /\ Cardinality(ToSet(list)) <= n
  /\ page # <<>> /\ ~Invalid(page) =>
       Reals(list) = ToSet(UsableIn(page)) \/ Cardinality(Reals(list)) = n

LEMMA FilledIsSound ==
  ASSUME NEW n \in Nat, NEW found, NEW list, Filled(list, found, n), NEW page,
         page # <<>> /\ ~Invalid(page) =>
           ToSet(found) = ToSet(UsableIn(page)) \/ Cardinality(ToSet(found)) = n
  PROVE  Sound(list, page, n)
<1>1. list \in Seq(Item) /\ Len(list) <= n /\ RealFirst(list) /\ Reals(list) = ToSet(found)
  BY DEF Filled
<1>2. Cardinality(ToSet(list)) \in Nat /\ Cardinality(ToSet(list)) <= Len(list)
  BY <1>1, DifferentAtMost
<1>3. Len(list) \in Nat
  BY <1>1
<1>4. Cardinality(ToSet(list)) <= n
  BY <1>1, <1>2, <1>3
<1> QED
  BY <1>1, <1>4 DEF Sound

LEMMA EmptyIsSound ==
  ASSUME NEW n \in Nat, NEW page, page = <<>> \/ Invalid(page)
  PROVE  Sound(<<>>, page, n)
<1>1. <<>> \in Seq(Item) /\ Len(<<>>) = 0 /\ DOMAIN <<>> = {}
  OBVIOUS
<1>2. ToSet(<<>>) = {} /\ Reals(<<>>) = {}
  BY <1>1 DEF ToSet, Reals, RealAt
<1>3. RealFirst(<<>>)
  BY <1>1 DEF RealFirst
<1>4. Len(<<>>) <= n
  BY <1>1
<1>5. Filled(<<>>, <<>>, n)
  BY <1>1, <1>2, <1>3, <1>4 DEF Filled
<1> QED
  BY <1>5, FilledIsSound

\* A page read to its end or to the share, and what is made up after it.
LEMMA SeenIsEnough ==
  ASSUME NEW page \in Seq(Entry), NEW n \in Nat \ {0}
  PROVE  /\ Seen(page, n) \in Seq(Entry)
         /\ UsableIn(Seen(page, n)) \in Seq(Real)
         /\ Len(UsableIn(Seen(page, n))) <= n
         /\ \/ ToSet(UsableIn(Seen(page, n))) = ToSet(UsableIn(page))
            \/ Cardinality(ToSet(UsableIn(Seen(page, n)))) = n
<1>1. PICK m \in 0..Len(page) :
        /\ Seen(page, n) = Leading(page, m)
        /\ Len(UsableIn(Leading(page, m))) <= n
        /\ m = Len(page) \/ Len(UsableIn(Leading(page, m))) = n
  BY SeenIsFront
<1>2. Leading(page, m) \in Seq(Entry)
  BY LeadingOf
<1>3. m = Len(page) => Leading(page, m) = page
  BY WholePage
<1> QED
  BY <1>1, <1>2, <1>3, UsableSet

LEMMA InvalidSeen ==
  ASSUME NEW page \in Seq(Entry), NEW n \in Nat \ {0}, Invalid(Seen(page, n))
  PROVE  Invalid(page)
<1>0. Len(page) \in Nat
  OBVIOUS
<1>1. PICK m \in 0..Len(page) : Seen(page, n) = Leading(page, m)
  BY SeenIsFront
<1>2. Leading(page, m) \in Seq(Entry) /\ Len(Leading(page, m)) = m
      /\ \A x \in 1..m : Leading(page, m)[x] = page[x]
  BY LeadingOf
<1>3. PICK x \in DOMAIN Leading(page, m) : Leading(page, m)[x] = "invalid"
  BY <1>1 DEF Invalid, InvalidAt
<1>4. x \in 1..m /\ x \in DOMAIN page /\ page[x] = "invalid"
  BY <1>0, <1>2, <1>3
<1> QED
  BY <1>4 DEF Invalid, InvalidAt

LEMMA ReadIsSound ==
  ASSUME NEW s, s.samples \in Nat, NEW page \in Seq(Entry), NEW n \in Nat \ {0}
  PROVE  Sound(Fill(s, UsableIn(Seen(page, n)), n), page, n)
<1>1. Filled(Fill(s, UsableIn(Seen(page, n)), n), UsableIn(Seen(page, n)), n)
  BY SeenIsEnough, FillFilled
<1> QED
  BY <1>1, SeenIsEnough, FilledIsSound

\* Two parts without anything made up, the second of which may repeat the first.
LEMMA RealsAreSound ==
  ASSUME NEW n \in Nat, NEW u \in Seq(Real), NEW w \in Seq(Real), NEW page,
         page = <<>> \/ Invalid(page),
         NEW S, ToSet(u) \subseteq S, ToSet(w) \subseteq S,
         IsFiniteSet(S), Cardinality(S) <= n
  PROVE  Sound(u \o w, page, n)
<1>1. u \o w \in Seq(Real)
  OBVIOUS
<1>2. ToSet(u \o w) \subseteq S
  <2>1. /\ Len(u \o w) = Len(u) + Len(w) /\ Len(u) \in Nat /\ Len(w) \in Nat
        /\ DOMAIN (u \o w) = 1..Len(u \o w) /\ DOMAIN u = 1..Len(u) /\ DOMAIN w = 1..Len(w)
        /\ \A j \in 1..(Len(u) + Len(w)) : (u \o w)[j] = IF j <= Len(u) THEN u[j] ELSE w[j - Len(u)]
    OBVIOUS
  <2>2. ASSUME NEW j \in 1..(Len(u) + Len(w)) PROVE (u \o w)[j] \in S
    <3>1. CASE j <= Len(u)
      <4>1. j \in DOMAIN u /\ (u \o w)[j] = u[j]
        BY <2>1, <3>1
      <4>2. u[j] \in ToSet(u)
        BY <4>1 DEF ToSet
      <4> QED
        BY <4>1, <4>2
    <3>2. CASE ~(j <= Len(u))
      <4>1. j - Len(u) \in DOMAIN w /\ (u \o w)[j] = w[j - Len(u)]
        BY <2>1, <3>2
      <4>2. w[j - Len(u)] \in ToSet(w)
        BY <4>1 DEF ToSet
      <4> QED
        BY <4>1, <4>2
    <3> QED
      BY <3>1, <3>2
  <2> QED
    BY <2>1, <2>2 DEF ToSet
<1>3. ToSet(u \o w) \in SUBSET S
  BY <1>2
<1>4. /\ IsFiniteSet(ToSet(u \o w)) /\ Cardinality(ToSet(u \o w)) <= Cardinality(S)
      /\ Cardinality(ToSet(u \o w)) \in Nat /\ Cardinality(S) \in Nat
  BY <1>3, FS_Subset, FS_CardinalityType
<1>5. Cardinality(ToSet(u \o w)) <= n
  BY <1>4
<1> QED
  BY <1>1, <1>5, ItemsOfReals DEF Sound

\* What an answer can be.
AnswerOK(s, r) ==
  /\ r.page \in Seq(Entry)
  /\ s.invalid = "regex" => r.matches \in {r.page, <<>>}

\* The page an answer leaves with the crawler.
PageRead(r) == IF r.answer = "page" THEN r.page ELSE <<>>

LEMMA FeedIsSound ==
  ASSUME NEW r, AnswerOK(Feed, r), r.answer \in {"page", "garbled"}, NEW n \in Nat \ {0}
  PROVE  /\ FeedOf(r, n).raised = FALSE
         /\ Sound(FeedOf(r, n).list, PageRead(r), n)
<1> DEFINE page == r.page
           seen == Seen(page, n)
           matched == First(r.matches, n)
           kept == IF r.answer = "page" THEN UsableIn(UpTo(seen, InvalidAt(seen))) ELSE <<>>
           read == IF r.answer = "page" THEN page ELSE <<>>
<1> r.page \in Seq(Entry) /\ r.matches \in {r.page, <<>>}
  BY DEF AnswerOK, Feed
<1>0. Len(page) \in Nat /\ DOMAIN page = 1..Len(page) /\ page \in Seq(Entry)
  OBVIOUS
<1>1. CASE r.answer = "page" /\ ~Invalid(seen)
  <2>1. FeedOf(r, n) = [list |-> UsableIn(seen), raised |-> FALSE]
    BY <1>1 DEF FeedOf, Found
  <2>2. Filled(UsableIn(seen), UsableIn(seen), n)
    BY SeenIsEnough, ItemsOfReals DEF Filled
  <2>3. Sound(UsableIn(seen), page, n)
    BY <2>2, SeenIsEnough, FilledIsSound
  <2>4. PageRead(r) = page
    BY <1>1 DEF PageRead
  <2> QED
    BY <2>1, <2>3, <2>4
<1>2. CASE ~(r.answer = "page" /\ ~Invalid(seen)) /\ Invalid(matched)
  <2>1. FeedOf(r, n) = [list |-> <<>>, raised |-> FALSE]
    BY <1>2 DEF FeedOf, Nothing
  <2>2. read = <<>> \/ Invalid(read)
    BY <1>0, <1>2, InvalidSeen
  <2> HIDE DEF read
  <2>3. Sound(<<>>, read, n)
    BY <2>2, EmptyIsSound
  <2> QED
    BY <2>1, <2>3 DEF read, PageRead
<1>3. CASE ~(r.answer = "page" /\ ~Invalid(seen)) /\ ~Invalid(matched)
  <2>1. FeedOf(r, n) = [list |-> kept \o UsableIn(matched), raised |-> FALSE]
    BY <1>3 DEF FeedOf, Found
  <2>2. read = <<>> \/ Invalid(read)
    BY <1>0, <1>3, InvalidSeen
  <2>3. PICK a : a = Least(n, Len(r.matches))
    OBVIOUS
  <2>4. /\ a \in 0..Len(r.matches) /\ a <= n /\ (a # Len(r.matches) => a = n)
        /\ r.matches \in Seq(Entry) /\ Len(r.matches) \in Nat
    <3>0. <<>> \in Seq(Entry)
      OBVIOUS
    <3>1. r.matches \in Seq(Entry)
      <4>1. r.matches = r.page \/ r.matches = <<>>
        OBVIOUS
      <4>2. CASE r.matches = r.page
        BY <4>2
      <4>3. CASE r.matches = <<>>
        BY <3>0, <4>3
      <4> QED
        BY <4>1, <4>2, <4>3
    <3>2. PICK l : l = Len(r.matches)
      OBVIOUS
    <3>3. l \in Nat
      BY <3>1, <3>2
    <3>4. a = IF n <= l THEN n ELSE l
      BY <2>3, <3>2 DEF Least
    <3> QED
      BY <3>1, <3>2, <3>3, <3>4
  <2>5. matched = Leading(r.matches, a) /\ matched \in Seq(Entry) /\ Len(matched) = a
    BY <2>3, <2>4, LeadingOf DEF First, Leading
  <2>6. \A x \in 1..a : matched[x] = r.matches[x]
    BY <2>4, <2>5, LeadingOf
  <2>7. \A x \in 1..a : r.matches[x] # "invalid"
    BY <1>3, <2>5, <2>6 DEF Invalid, InvalidAt
  <2>8. CASE r.answer = "page"
    <3> DEFINE S == ToSet(UsableIn(seen))
    <3>1. PICK m \in 0..Len(page) :
            /\ seen = Leading(page, m)
            /\ Len(UsableIn(Leading(page, m))) <= n
            /\ m = Len(page) \/ Len(UsableIn(Leading(page, m))) = n
      BY <1>0, SeenIsFront
    <3>2. seen \in Seq(Entry) /\ Len(seen) = m /\ \A x \in 1..m : seen[x] = page[x]
      BY <1>0, <3>1, LeadingOf
    <3>3. IsFiniteSet(S) /\ Cardinality(S) <= n
      BY <3>1, <3>2, UsableSet
    <3>4. InvalidAt(seen) # {} /\ InvalidAt(seen) \subseteq 1..m
      BY <1>3, <2>8, <3>2 DEF Invalid, InvalidAt
    <3>5. PICK x \in InvalidAt(seen) : \A y \in InvalidAt(seen) : x <= y
      <4>1. InvalidAt(seen) \subseteq Nat
        BY <1>0, <3>4
      <4> QED
        BY <3>4, <4>1, LeastNumber
    <3>6. Min(InvalidAt(seen)) \in InvalidAt(seen)
      BY <3>5 DEF Min
    <3>7. PICK b : b = Min(InvalidAt(seen))
      OBVIOUS
    <3>8. b \in 1..m /\ b \in Nat /\ b \in 0..m
      BY <1>0, <3>4, <3>6, <3>7
    <3>9. kept = UsableIn(Leading(seen, b))
      BY <2>8, <3>4, <3>7 DEF UpTo, Leading
    <3>10. Leading(seen, b) \in Seq(Entry)
      BY <3>2, <3>8, LeadingOf
    <3>11. kept \in Seq(Real)
      BY <3>9, <3>10, UsableSet
    <3>12. ToSet(kept) \subseteq S
      <4>1. m \in 0..Len(seen) /\ Leading(seen, m) = seen
        BY <1>0, <3>2, WholePage
      <4> QED
        BY <3>2, <3>8, <3>9, <4>1, UsableInFront
    <3>13. UsableIn(matched) \in Seq(Real)
      BY <2>5, UsableSet
    <3>14. ToSet(UsableIn(matched)) \subseteq S
      <4>1. CASE r.matches = page
        <5>1. b > a
          <6>1. page[b] = "invalid"
            BY <3>2, <3>6, <3>7, <3>8 DEF InvalidAt
          <6> QED
            BY <2>4, <2>7, <3>8, <4>1, <6>1
        <5>2. a \in 0..m
          BY <1>0, <2>4, <3>8, <5>1
        <5> QED
          BY <1>0, <2>5, <3>1, <4>1, <5>2, UsableInFront
      <4>2. CASE r.matches = <<>>
        <5>1. a = 0
          BY <2>4, <4>2
        <5>2. UsableAt(matched) = {}
          BY <2>5, <5>1 DEF UsableAt
        <5> QED
          BY <2>5, <5>2, UsableSet
      <4> QED
        BY <4>1, <4>2
    <3> HIDE DEF kept, S, matched, read
    <3>15. Sound(kept \o UsableIn(matched), read, n)
      BY <2>2, <3>3, <3>11, <3>12, <3>13, <3>14, RealsAreSound
    <3> QED
      BY <2>1, <3>15 DEF read, PageRead
  <2>9. CASE r.answer # "page"
    <3> DEFINE S == ToSet(UsableIn(matched))
    <3>1. kept = <<>> /\ ToSet(kept) \subseteq S /\ kept \in Seq(Real)
      BY <2>9 DEF ToSet
    <3>2. UsableIn(matched) \in Seq(Real) /\ IsFiniteSet(S)
      BY <2>5, UsableSet
    <3>3. Cardinality(S) <= a /\ Cardinality(S) \in Nat
      BY <2>5, <3>2, UsableAtMost, FS_CardinalityType
    <3>4. Cardinality(S) <= n
      BY <2>4, <3>3
    <3>5. ToSet(UsableIn(matched)) \subseteq S
      OBVIOUS
    <3> HIDE DEF kept, S, matched, read
    <3>6. Sound(kept \o UsableIn(matched), read, n)
      BY <2>2, <3>1, <3>2, <3>4, <3>5, RealsAreSound
    <3> QED
      BY <2>1, <3>6 DEF read, PageRead
  <2> QED
    BY <2>8, <2>9
<1> QED
  BY <1>1, <1>2, <1>3

----------------------------------------------------------------------------
\* The crawlers of the four pipelines.

Kinds == {"products", "jobs", "startups", "news"}

CrawlerOK(s) ==
  /\ s.samples \in Nat /\ s.attempts \in Nat \ {0}
  /\ s.failed \in {"substitutes", "nothing", "exception"}

LEMMA CrawlerFacts ==
  ASSUME NEW k \in Kinds
  PROVE  /\ Len(Crawlers(k)) \in 1..5 /\ DOMAIN Crawlers(k) = 1..Len(Crawlers(k))
         /\ k # "startups" => Len(Crawlers(k)) = 5
         /\ k = "startups" => Len(Crawlers(k)) = 2
         /\ \A i \in 1..Len(Crawlers(k)) :
              /\ CrawlerOK(Crawlers(k)[i])
              /\ Crawlers(k)[i].failed = "exception" => k = "startups" /\ i = 1
<1>1. CrawlerOK(Directory) /\ Directory.failed = "substitutes"
  BY DEF CrawlerOK, Directory
<1>2. CrawlerOK(HuggingFaceSpaces) /\ HuggingFaceSpaces.failed = "nothing"
  BY DEF CrawlerOK, HuggingFaceSpaces
<1>3. CrawlerOK(JobBoard) /\ JobBoard.failed = "substitutes"
  BY DEF CrawlerOK, JobBoard, Directory
<1>31. CrawlerOK(WellfoundJobs) /\ WellfoundJobs.failed = "substitutes"
  BY DEF CrawlerOK, WellfoundJobs, JobBoard, Directory
<1>4. CrawlerOK(YCombinator)
  BY DEF CrawlerOK, YCombinator
<1>5. CrawlerOK(WellfoundEnricher) /\ WellfoundEnricher.failed = "nothing"
  BY DEF CrawlerOK, WellfoundEnricher
<1>6. CrawlerOK(Feed) /\ Feed.failed = "nothing"
  BY DEF CrawlerOK, Feed
<1>7. CASE k = "products"
  <2>1. Crawlers(k) = <<HuggingFaceSpaces, Directory, Directory, Directory, Directory>>
    BY <1>7 DEF Crawlers, AIxploria, AIValley, Futurepedia, TopAITools
  <2> QED
    BY <1>1, <1>2, <1>7, <2>1
<1>8. CASE k = "jobs"
  <2>1. Crawlers(k) = <<JobBoard, WellfoundJobs, JobBoard, JobBoard, JobBoard>>
    BY <1>8 DEF Crawlers, AIJobs, MachineLearningJobs, Jobicy, RemoteOK
  <2> QED
    BY <1>3, <1>31, <1>8, <2>1
<1>9. CASE k = "startups"
  <2>1. Crawlers(k) = <<YCombinator, WellfoundEnricher>>
    BY <1>9 DEF Crawlers
  <2> QED
    BY <1>4, <1>5, <1>9, <2>1
<1>10. CASE k = "news"
  <2>1. Crawlers(k) = [i \in 1..5 |-> Feed]
    BY <1>10 DEF Crawlers
  <2> QED
    BY <1>6, <1>10, <2>1
<1> QED
  BY <1>7, <1>8, <1>9, <1>10 DEF Kinds

LEMMA ShareFacts ==
  ASSUME NEW k \in Kinds, NEW n \in Nat \ {0}
  PROVE  Share(k, n) \in Nat \ {0}
<1>1. CASE k = "startups"
  BY <1>1 DEF Share
<1>2. CASE k # "startups"
  <2>1. Share(k, n) = AtLeastOne(n \div 5)
    BY <1>2, CrawlerFacts DEF Share
  <2>2. n \div 5 \in Nat
    OBVIOUS
  <2> QED
    BY <2>1, <2>2 DEF AtLeastOne
<1> QED
  BY <1>1, <1>2

LEMMA AnswersOK ==
  ASSUME NEW k \in Kinds, kind = k, NEW i \in 1..Len(Crawlers(k)), NEW r \in Answers(i)
  PROVE  AnswerOK(Crawlers(k)[i], r)
<1> DEFINE s == Crawlers(k)[i]
           pages == {[answer |-> "page", page |-> p, matches |-> <<>>] : p \in PageOf(i)}
           feeds == {[answer |-> a, page |-> p, matches |-> m] :
                       a \in {"page", "garbled"}, p \in PageOf(i), m \in PageOf(i) \cup {<<>>}}
           plain == {Answer("temporary"), Answer("refused"), Answer("broken"), Answer("garbled")}
<1>1. i \in 1..5
  BY CrawlerFacts
<1>2. PageOf(i) \subseteq Seq(Entry)
  BY <1>1, FetchAssumption DEF Entry
<1> HIDE DEF s
<1>3. r \in plain \/ (s.invalid # "regex" /\ r \in pages)
      \/ (s.invalid = "regex" /\ r \in feeds /\ r.matches \in {r.page, <<>>})
  BY DEF Answers, s
<1>4. CASE r \in plain
  <2>1. r.page = <<>> /\ r.matches = <<>>
    BY <1>4 DEF Answer
  <2>2. <<>> \in Seq(Entry)
    OBVIOUS
  <2> QED
    BY <2>1, <2>2 DEF AnswerOK
<1>5. CASE s.invalid # "regex" /\ r \in pages
  BY <1>2, <1>5 DEF AnswerOK, s
<1>6. CASE s.invalid = "regex" /\ r \in feeds /\ r.matches \in {r.page, <<>>}
  BY <1>2, <1>6 DEF AnswerOK, s
<1> QED
  BY <1>3, <1>4, <1>5, <1>6

\* What a crawler can read of a page.
Legible(s, page) == IF s.invalid = "loses all" THEN <<>> ELSE page

LEMMA FailedIsSound ==
  ASSUME NEW k \in Kinds, NEW i \in 1..Len(Crawlers(k)), NEW n \in Nat \ {0},
         NEW page, page = <<>> \/ Invalid(page)
  PROVE  /\ Failed(Crawlers(k)[i], n).raised \in BOOLEAN
         /\ Failed(Crawlers(k)[i], n).raised => k = "startups" /\ i = 1
         /\ Sound(Failed(Crawlers(k)[i], n).list, page, n)
<1> DEFINE s == Crawlers(k)[i]
<1>1. /\ s.samples \in Nat /\ s.failed \in {"substitutes", "nothing", "exception"}
      /\ s.failed = "exception" => k = "startups" /\ i = 1
  BY CrawlerFacts DEF CrawlerOK
<1> HIDE DEF s
<1>2. Sound(<<>>, page, n)
  BY EmptyIsSound
<1>3. Sound(Fill(s, <<>>, n), page, n)
  <2>1. Filled(Fill(s, <<>>, n), <<>>, n)
    <3>1. <<>> \in Seq(Real) /\ Len(<<>>) <= n
      OBVIOUS
    <3> QED
      BY <1>1, <3>1, FillFilled
  <2> QED
    BY <2>1, FilledIsSound
<1>4. CASE s.failed = "substitutes"
  BY <1>3, <1>4 DEF Failed, Found, s
<1>5. CASE s.failed = "nothing"
  BY <1>2, <1>5 DEF Failed, Nothing, s
<1>6. CASE s.failed = "exception"
  BY <1>1, <1>2, <1>6 DEF Failed, s
<1> QED
  BY <1>1, <1>4, <1>5, <1>6

LEMMA ResultIsSound ==
  ASSUME NEW k \in Kinds, NEW i \in 1..Len(Crawlers(k)), NEW n \in Nat \ {0},
         NEW r, AnswerOK(Crawlers(k)[i], r)
  PROVE  /\ ResultOf(Crawlers(k)[i], r, n).raised \in BOOLEAN
         /\ ResultOf(Crawlers(k)[i], r, n).raised => k = "startups" /\ i = 1
         /\ Sound(ResultOf(Crawlers(k)[i], r, n).list, Legible(Crawlers(k)[i], PageRead(r)), n)
<1> DEFINE s == Crawlers(k)[i]
<1>1. s.samples \in Nat /\ AnswerOK(s, r)
  BY CrawlerFacts DEF CrawlerOK
<1>2. ASSUME NEW page, page = <<>> \/ Invalid(page)
      PROVE  /\ Failed(s, n).raised \in BOOLEAN
             /\ Failed(s, n).raised => k = "startups" /\ i = 1
             /\ Sound(Failed(s, n).list, page, n)
  BY <1>2, FailedIsSound
<1> HIDE DEF s
<1>3. CASE s.invalid = "regex" /\ r.answer \in {"page", "garbled"}
  <2>1. ResultOf(s, r, n) = FeedOf(r, n)
    BY <1>3 DEF ResultOf
  <2>2. AnswerOK(Feed, r)
    BY <1>1, <1>3 DEF AnswerOK
  <2>3. r.answer \in {"page", "garbled"}
    BY <1>3
  <2>4. FeedOf(r, n).raised = FALSE /\ Sound(FeedOf(r, n).list, PageRead(r), n)
    BY <2>2, <2>3, FeedIsSound
  <2>5. Legible(s, PageRead(r)) = PageRead(r)
    BY <1>3 DEF Legible
  <2> QED
    BY <2>1, <2>4, <2>5 DEF s
<1>4. CASE ~(s.invalid = "regex" /\ r.answer \in {"page", "garbled"}) /\ r.answer # "page"
  <2>1. ResultOf(s, r, n) = Failed(s, n) /\ Legible(s, PageRead(r)) = <<>>
    BY <1>4 DEF ResultOf, PageRead, Legible
  <2> QED
    BY <1>2, <2>1 DEF s
<1>5. CASE /\ ~(s.invalid = "regex" /\ r.answer \in {"page", "garbled"}) /\ r.answer = "page"
           /\ Loses(s, r.page, n)
  <2>1. ResultOf(s, r, n) = Failed(s, n) /\ PageRead(r) = r.page
    BY <1>5 DEF ResultOf, PageRead
  <2>2. r.page \in Seq(Entry)
    BY <1>1 DEF AnswerOK
  <2>3. CASE s.invalid = "loses all"
    <3>1. Legible(s, PageRead(r)) = <<>>
      BY <2>3 DEF Legible
    <3> QED
      BY <1>2, <2>1, <3>1 DEF s
  <2>4. CASE s.invalid # "loses all"
    <3>1. Legible(s, PageRead(r)) = r.page
      BY <2>1, <2>4 DEF Legible
    <3>2. Invalid(r.page)
      BY <1>5, <2>2, <2>4, InvalidSeen DEF Loses
    <3> QED
      BY <1>2, <2>1, <3>1, <3>2 DEF s
  <2> QED
    BY <2>3, <2>4
<1>6. CASE /\ ~(s.invalid = "regex" /\ r.answer \in {"page", "garbled"}) /\ r.answer = "page"
           /\ ~Loses(s, r.page, n)
  <2>1. ResultOf(s, r, n) = [list |-> Fill(s, UsableIn(Seen(r.page, n)), n), raised |-> FALSE]
        /\ Legible(s, PageRead(r)) = r.page
    BY <1>6 DEF ResultOf, PageRead, Found, Loses, Legible
  <2>2. r.page \in Seq(Entry)
    BY <1>1 DEF AnswerOK
  <2>3. Sound(Fill(s, UsableIn(Seen(r.page, n)), n), r.page, n)
    BY <1>1, <2>2, ReadIsSound
  <2> QED
    BY <2>1, <2>3 DEF s
<1> QED
  BY <1>3, <1>4, <1>5, <1>6

----------------------------------------------------------------------------
\* Putting the results behind one another.

Joined(seqs, f, j) == IF j = 1 THEN seqs[j] ELSE f[j - 1] \o seqs[j]
Flat(seqs, m, f) == f = [j \in 1..m |-> Joined(seqs, f, j)]

LEMMA FlatExists ==
  ASSUME NEW seqs, NEW m \in Nat
  PROVE  \E f : Flat(seqs, m, f)
<1> DEFINE T == {n \in Nat : \E f : Flat(seqs, n, f)}
<1>1. 0 \in T
  <2> DEFINE f == [j \in 1..0 |-> <<>>]
  <2>1. Flat(seqs, 0, f)
    BY DEF Flat
  <2> QED
    BY <2>1
<1>2. ASSUME NEW n \in 1..m, n - 1 \in T PROVE n \in T
  <2>1. PICK f : Flat(seqs, n - 1, f)
    BY <1>2
  <2> DEFINE g == [j \in 1..n |-> Joined(seqs, f, j)]
  <2>2. \A j \in 1..(n - 1) : g[j] = f[j]
    BY <2>1 DEF Flat
  <2>3. ASSUME NEW j \in 1..n PROVE Joined(seqs, g, j) = Joined(seqs, f, j)
    <3>1. j # 1 => j - 1 \in 1..(n - 1)
      OBVIOUS
    <3>2. j # 1 => g[j - 1] = f[j - 1]
      BY <2>2, <3>1
    <3> QED
      BY <3>2 DEF Joined
  <2>4. Flat(seqs, n, g)
    BY <2>3 DEF Flat
  <2> HIDE DEF g
  <2> QED
    BY <2>4
<1> HIDE DEF T
<1>3. 0..m \subseteq T
  BY <1>1, <1>2, UpToN
<1>4. m \in T
  BY <1>3
<1> QED
  BY <1>4 DEF T

LEMMA FlatUnique ==
  ASSUME NEW seqs, NEW m \in Nat, NEW f, NEW g, Flat(seqs, m, f), Flat(seqs, m, g)
  PROVE  f = g
<1> DEFINE T == {j \in 0..m : j = 0 \/ f[j] = g[j]}
<1>1. 0 \in T
  OBVIOUS
<1>2. ASSUME NEW j \in 1..m, j - 1 \in T PROVE j \in T
  <2>1. j \in 0..m /\ (j = 1 \/ f[j - 1] = g[j - 1])
    BY <1>2
  <2>2. f[j] = Joined(seqs, f, j) /\ g[j] = Joined(seqs, g, j)
    BY DEF Flat
  <2> QED
    BY <2>1, <2>2 DEF Joined
<1> HIDE DEF T
<1>3. 0..m \subseteq T
  BY <1>1, <1>2, UpToN
<1>4. \A j \in 1..m : f[j] = g[j]
  BY <1>3 DEF T
<1>5. f = [j \in 1..m |-> f[j]] /\ g = [j \in 1..m |-> g[j]]
  BY DEF Flat
<1> QED
  BY <1>4, <1>5

LEMMA FlattenIsFlat ==
  ASSUME NEW seqs, NEW m \in Nat \ {0}, Len(seqs) = m, NEW f, Flat(seqs, m, f)
  PROVE  FlattenSeq(seqs) = f[m]
<1>1. \A g : Flat(seqs, m, g) <=> g = f
  BY FlatUnique
<1>2. m # 0
  OBVIOUS
<1> QED
  BY <1>1, <1>2 DEF FlattenSeq, Flat, Joined

\* out has the entries of the first m results, in the order of the results and
\* in the order they have there, and every one of them once: entry p is entry
\* at[p] of its result.
Placed(results, m, out, at) ==
  /\ \A p \in 1..Len(out) : /\ out[p].by \in 1..m
                            /\ at[p] \in 1..Len(results[out[p].by])
                            /\ out[p].what = results[out[p].by][at[p]]
  /\ \A p, q \in 1..Len(out) : p < q =>
       out[p].by < out[q].by \/ (out[p].by = out[q].by /\ at[p] < at[q])
  /\ \A i \in 1..m : \A j \in 1..Len(results[i]) :
       \E p \in 1..Len(out) : out[p].by = i /\ at[p] = j

Row == [by : Nat, what : Item]
Laid(results, m, out) ==
  /\ out \in Seq(Row)
  /\ \E at : Placed(results, m, out, at)

Tagged(results, i) == [j \in DOMAIN results[i] |-> [by |-> i, what |-> results[i][j]]]

LEMMA TaggedRows ==
  ASSUME NEW results, NEW i \in Nat, results[i] \in Seq(Item)
  PROVE  /\ Tagged(results, i) \in Seq(Row) /\ Len(Tagged(results, i)) = Len(results[i])
         /\ \A p \in 1..Len(results[i]) :
              Tagged(results, i)[p].by = i /\ Tagged(results, i)[p].what = results[i][p]
<1>1. PICK r : r = results[i]
  OBVIOUS
<1>2. r \in Seq(Item)
  BY <1>1
<1>3. PICK l \in Nat : l = Len(r)
  BY <1>2
<1>4. DOMAIN r = 1..l /\ \A p \in 1..l : r[p] \in Item
  BY <1>2, <1>3
<1>5. Tagged(results, i) = [p \in 1..l |-> [by |-> i, what |-> r[p]]]
  BY <1>1, <1>4 DEF Tagged
<1>6. \A p \in 1..l : [by |-> i, what |-> r[p]] \in Row
  BY <1>4 DEF Row
<1>7. Tagged(results, i) \in Seq(Row) /\ Len(Tagged(results, i)) = l
  BY <1>5, <1>6
<1>8. \A p \in 1..l : Tagged(results, i)[p] = [by |-> i, what |-> r[p]]
  BY <1>5
<1>9. \A p \in 1..l : Tagged(results, i)[p].by = i /\ Tagged(results, i)[p].what = r[p]
  <2> SUFFICES ASSUME NEW p \in 1..l
               PROVE  Tagged(results, i)[p].by = i /\ Tagged(results, i)[p].what = r[p]
    OBVIOUS
  <2>1. PICK c : c = Tagged(results, i)[p]
    OBVIOUS
  <2>2. c = [by |-> i, what |-> r[p]]
    BY <1>8, <2>1
  <2>3. c.by = i /\ c.what = r[p]
    BY <2>2
  <2> QED
    BY <2>1, <2>3
<1> QED
  BY <1>1, <1>3, <1>7, <1>9

LEMMA LaidFirst ==
  ASSUME NEW results, results[1] \in Seq(Item)
  PROVE  Laid(results, 1, Tagged(results, 1))
<1> DEFINE out == Tagged(results, 1)
           at == [p \in 1..Len(results[1]) |-> p]
<1>1. /\ out \in Seq(Row) /\ Len(out) = Len(results[1])
      /\ \A p \in 1..Len(out) : out[p].by = 1 /\ out[p].what = results[1][p]
  BY TaggedRows
<1>2. \A p \in 1..Len(out) : at[p] = p
  BY <1>1
<1> HIDE DEF out, at
<1>3. Placed(results, 1, out, at)
  BY <1>1, <1>2 DEF Placed
<1> QED
  BY <1>1, <1>3 DEF Laid, out

LEMMA LaidNext ==
  ASSUME NEW results, NEW m \in Nat, results[m + 1] \in Seq(Item),
         NEW out, Laid(results, m, out)
  PROVE  Laid(results, m + 1, out \o Tagged(results, m + 1))
<1> DEFINE i == m + 1
           new == Tagged(results, i)
           all == out \o new
<1>1. PICK at : Placed(results, m, out, at)
  BY DEF Laid
<1>2. /\ new \in Seq(Row) /\ Len(new) = Len(results[i])
      /\ \A p \in 1..Len(new) : new[p].by = i /\ new[p].what = results[i][p]
  <2>1. i \in Nat /\ results[i] \in Seq(Item)
    OBVIOUS
  <2> HIDE DEF i
  <2> QED
    BY <2>1, TaggedRows
<1>3. out \in Seq(Row) /\ Len(out) \in Nat /\ Len(new) \in Nat
  BY <1>2 DEF Laid
<1> HIDE DEF new
<1>4. /\ all \in Seq(Row) /\ Len(all) = Len(out) + Len(new)
      /\ \A p \in 1..Len(all) : all[p] = IF p <= Len(out) THEN out[p] ELSE new[p - Len(out)]
  <2>1. new \in Seq(Row) /\ out \in Seq(Row)
    BY <1>2, <1>3
  <2> QED
    BY <2>1, ConcatProperties
<1> DEFINE to == [p \in 1..Len(all) |-> IF p <= Len(out) THEN at[p] ELSE p - Len(out)]
<1>5. /\ \A p \in 1..Len(out) : p \in 1..Len(all) /\ all[p] = out[p] /\ to[p] = at[p]
      /\ \A p \in 1..Len(all) : ~(p <= Len(out)) =>
           /\ p - Len(out) \in 1..Len(new) /\ to[p] = p - Len(out)
           /\ all[p].by = i /\ all[p].what = results[i][p - Len(out)]
      /\ \A p \in 1..Len(all) : p <= Len(out) => p \in 1..Len(out)
  BY <1>2, <1>3, <1>4
<1>6. /\ \A p \in 1..Len(out) : /\ out[p].by \in 1..m
                                /\ at[p] \in 1..Len(results[out[p].by])
                                /\ out[p].what = results[out[p].by][at[p]]
      /\ \A p, q \in 1..Len(out) : p < q =>
           out[p].by < out[q].by \/ (out[p].by = out[q].by /\ at[p] < at[q])
      /\ \A k \in 1..m : \A j \in 1..Len(results[k]) :
           \E p \in 1..Len(out) : out[p].by = k /\ at[p] = j
  BY <1>1 DEF Placed
<1> HIDE DEF all, to
<1>7. \A p \in 1..Len(all) : /\ all[p].by \in 1..i
                             /\ to[p] \in 1..Len(results[all[p].by])
                             /\ all[p].what = results[all[p].by][to[p]]
  <2> SUFFICES ASSUME NEW p \in 1..Len(all)
               PROVE  /\ all[p].by \in 1..i
                      /\ to[p] \in 1..Len(results[all[p].by])
                      /\ all[p].what = results[all[p].by][to[p]]
    OBVIOUS
  <2>1. CASE p <= Len(out)
    <3>1. p \in 1..Len(out) /\ all[p] = out[p] /\ to[p] = at[p]
      BY <1>5, <2>1
    <3>2. all[p].by \in 1..m
      BY <1>6, <3>1
    <3>3. all[p].by \in 1..i
      BY <3>2
    <3> QED
      BY <1>6, <3>1, <3>3
  <2>2. CASE ~(p <= Len(out))
    <3>1. /\ p - Len(out) \in 1..Len(new) /\ to[p] = p - Len(out)
          /\ all[p].by = i /\ all[p].what = results[i][p - Len(out)]
      BY <1>5, <2>2
    <3>2. i \in 1..i /\ Len(new) = Len(results[i])
      BY <1>2
    <3> QED
      BY <3>1, <3>2
  <2> QED
    BY <2>1, <2>2
<1>8. \A p, q \in 1..Len(all) : p < q =>
        all[p].by < all[q].by \/ (all[p].by = all[q].by /\ to[p] < to[q])
  <2> SUFFICES ASSUME NEW p \in 1..Len(all), NEW q \in 1..Len(all), p < q
               PROVE  all[p].by < all[q].by \/ (all[p].by = all[q].by /\ to[p] < to[q])
    OBVIOUS
  <2>1. CASE q <= Len(out)
    <3>1. p \in 1..Len(out) /\ q \in 1..Len(out)
      BY <1>3, <1>4, <2>1
    <3> QED
      BY <1>5, <1>6, <3>1
  <2>2. CASE p <= Len(out) /\ ~(q <= Len(out))
    <3>1. all[p].by \in 1..m /\ all[q].by = i
      BY <1>5, <1>6, <2>2
    <3> QED
      BY <3>1
  <2>3. CASE ~(p <= Len(out)) /\ ~(q <= Len(out))
    <3>1. all[p].by = i /\ all[q].by = i /\ to[p] = p - Len(out) /\ to[q] = q - Len(out)
      BY <1>5, <2>3
    <3> QED
      BY <1>3, <1>4, <3>1
  <2> QED
    BY <1>3, <1>4, <2>1, <2>2, <2>3
<1>9. \A k \in 1..i : \A j \in 1..Len(results[k]) :
        \E p \in 1..Len(all) : all[p].by = k /\ to[p] = j
  <2> SUFFICES ASSUME NEW k \in 1..i, NEW j \in 1..Len(results[k])
               PROVE  \E p \in 1..Len(all) : all[p].by = k /\ to[p] = j
    OBVIOUS
  <2>1. CASE k \in 1..m
    <3>1. PICK p \in 1..Len(out) : out[p].by = k /\ at[p] = j
      BY <1>6, <2>1
    <3>2. p \in 1..Len(all) /\ all[p] = out[p] /\ to[p] = at[p]
      BY <1>5, <3>1
    <3> QED
      BY <3>1, <3>2
  <2>2. CASE k = i
    <3>1. /\ j \in 1..Len(new) /\ Len(out) + j \in 1..Len(all) /\ ~(Len(out) + j <= Len(out))
          /\ (Len(out) + j) - Len(out) = j
      BY <1>2, <1>3, <1>4, <2>2
    <3>2. all[Len(out) + j].by = k /\ to[Len(out) + j] = j
      BY <1>5, <2>2, <3>1
    <3> QED
      BY <3>1, <3>2
  <2> QED
    BY <2>1, <2>2
<1>10. Placed(results, i, all, to)
  BY <1>7, <1>8, <1>9 DEF Placed
<1>11. Laid(results, i, all)
  BY <1>4, <1>10 DEF Laid
<1> QED
  BY <1>11 DEF all, new

LEMMA InOrderLaid ==
  ASSUME NEW m \in Nat \ {0}, NEW results \in [1..m -> Seq(Item)]
  PROVE  Laid(results, m, InOrder(results))
<1> DEFINE seqs == [i \in 1..m |-> Tagged(results, i)]
<1>1. InOrder(results) = FlattenSeq(seqs)
  BY DEF InOrder, Tagged
<1>2. Len(seqs) = m /\ \A j \in 1..m : seqs[j] = Tagged(results, j)
  OBVIOUS
<1> HIDE DEF seqs
<1>3. PICK f : Flat(seqs, m, f)
  BY FlatExists
<1>4. FlattenSeq(seqs) = f[m]
  BY <1>2, <1>3, FlattenIsFlat
<1> DEFINE T == {j \in 0..m : j = 0 \/ Laid(results, j, f[j])}
<1>5. 0 \in T
  OBVIOUS
<1>6. ASSUME NEW j \in 1..m, j - 1 \in T PROVE j \in T
  <2>0. f[j] = Joined(seqs, f, j)
    BY <1>3 DEF Flat
  <2>1. f[j] = Joined(seqs, f, j) /\ j \in 0..m /\ results[j] \in Seq(Item)
    BY <2>0
  <2>2. CASE j = 1
    <3>1. f[j] = Tagged(results, 1)
      BY <1>2, <2>1, <2>2 DEF Joined
    <3> QED
      BY <2>1, <2>2, <3>1, LaidFirst
  <2>3. CASE j # 1
    <3>1. f[j] = f[j - 1] \o Tagged(results, j)
      BY <1>2, <2>1, <2>3 DEF Joined
    <3>2. Laid(results, j - 1, f[j - 1])
      BY <1>6, <2>3
    <3>3. PICK k : k = j - 1
      OBVIOUS
    <3>4. k \in Nat /\ j = k + 1
      BY <3>3
    <3>5. results[k + 1] \in Seq(Item)
      BY <2>1, <3>4
    <3>6. Laid(results, k + 1, f[k] \o Tagged(results, k + 1))
      BY <3>2, <3>3, <3>4, <3>5, LaidNext
    <3> QED
      BY <2>1, <3>1, <3>3, <3>4, <3>6
  <2> QED
    BY <2>2, <2>3
<1> HIDE DEF T
<1>7. 0..m \subseteq T
  BY <1>5, <1>6, UpToN
<1>8. m \in T
  BY <1>7
<1> QED
  BY <1>1, <1>4, <1>8 DEF T

----------------------------------------------------------------------------
\* The inductive invariant.  Every crawler holds a sound result, which is empty
\* until its last answer; a crawler sleeps only while an attempt is left; and
\* what has been gathered is what the crawlers, all of them over, hold.

PipelineOK ==
  /\ kind \in Kind /\ limit \in Limit /\ kind \in Kinds /\ limit \in Nat \ {0}
  /\ phase \in {"fetching", "gathered", "failed"}

HolderOK(c, s) ==
  /\ c.pc \in {"waiting", "requesting", "sleeping", "over"}
  /\ c.attempt \in 0..s.attempts
  /\ c.pc = "sleeping" => c.attempt < s.attempts
  /\ c.raised \in BOOLEAN

CrawlersOK ==
  /\ DOMAIN crawler = 1..Len(Crawlers(kind))
  /\ \A i \in 1..Len(Crawlers(kind)) :
       /\ HolderOK(crawler[i], Crawlers(kind)[i])
       /\ crawler[i].raised => kind = "startups" /\ i = 1
       /\ Sound(crawler[i].list, Legible(Crawlers(kind)[i], crawler[i].page), Share(kind, limit))

GatheredOK ==
  /\ phase = "gathered" => /\ \A i \in Position : Over(i)
                           /\ candidates = Gathered
  /\ phase # "gathered" => candidates = <<>>

FetchInv == PipelineOK /\ CrawlersOK /\ GatheredOK

LEMMA TypeHolds ==
  ASSUME FetchInv
  PROVE  TypeOK
<1>1. /\ DOMAIN crawler = 1..Len(Crawlers(kind))
      /\ \A i \in 1..Len(Crawlers(kind)) :
           /\ HolderOK(crawler[i], Crawlers(kind)[i])
           /\ crawler[i].raised => kind = "startups" /\ i = 1
  BY DEF FetchInv, CrawlersOK
<1>2. /\ kind \in Kind /\ limit \in Limit
      /\ phase \in {"fetching", "gathered", "failed"}
  BY DEF FetchInv, PipelineOK
<1>3. \A i \in Position :
        /\ crawler[i].pc \in {"waiting", "requesting", "sleeping", "over"}
        /\ crawler[i].attempt \in 0..Crawlers(kind)[i].attempts
        /\ crawler[i].raised => kind = "startups" /\ i = 1
  BY <1>1 DEF Position, HolderOK
<1> QED
  BY <1>2, <1>3 DEF TypeOK

LEMMA NewHolder ==
  ASSUME NEW k \in Kinds, NEW i \in 1..Len(Crawlers(k)), NEW n \in Nat
  PROVE  /\ HolderOK(Waiting, Crawlers(k)[i]) /\ HolderOK(Requesting, Crawlers(k)[i])
         /\ ~Waiting.raised /\ ~Requesting.raised
         /\ Sound(Waiting.list, Legible(Crawlers(k)[i], Waiting.page), n)
         /\ Sound(Requesting.list, Legible(Crawlers(k)[i], Requesting.page), n)
<1>1. Crawlers(k)[i].attempts \in Nat \ {0}
  BY CrawlerFacts DEF CrawlerOK
<1>2. Sound(<<>>, <<>>, n)
  BY EmptyIsSound
<1>3. /\ Waiting.pc = "waiting" /\ Waiting.attempt = 0 /\ ~Waiting.raised
      /\ Waiting.raised \in BOOLEAN
      /\ Waiting.list = <<>> /\ Waiting.page = <<>>
  BY DEF Waiting
<1>4. /\ Requesting.pc = "requesting" /\ Requesting.attempt = 1 /\ ~Requesting.raised
      /\ Requesting.raised \in BOOLEAN
      /\ Requesting.list = <<>> /\ Requesting.page = <<>>
  BY DEF Waiting, Requesting
<1>5. HolderOK(Waiting, Crawlers(k)[i])
  BY <1>1, <1>3 DEF HolderOK
<1>6. HolderOK(Requesting, Crawlers(k)[i])
  BY <1>1, <1>4 DEF HolderOK
<1> QED
  BY <1>2, <1>3, <1>4, <1>5, <1>6 DEF Legible

LEMMA FetchInit ==
  ASSUME Init
  PROVE  FetchInv
<1>1. PipelineOK
  BY FetchAssumption DEF Init, PipelineOK, Kinds
<1>2. CrawlersOK
  <2>1. kind \in Kinds /\ limit \in Nat \ {0} /\ Share(kind, limit) \in Nat
    BY <1>1, ShareFacts DEF PipelineOK
  <2>2. \A i \in 1..Len(Crawlers(kind)) : crawler[i] \in {Waiting, Requesting}
    BY DEF Init
  <2>3. DOMAIN crawler = 1..Len(Crawlers(kind))
    BY DEF Init
  <2> QED
    BY <2>1, <2>2, <2>3, NewHolder DEF CrawlersOK
<1>3. GatheredOK
  BY DEF Init, GatheredOK
<1> QED
  BY <1>1, <1>2, <1>3 DEF FetchInv

\* A step of one crawler.
LEMMA CrawlerStep ==
  ASSUME FetchInv, NEW i \in Position, NEW c, ~Over(i),
         crawler' = [crawler EXCEPT ![i] = c],
         UNCHANGED <<kind, limit, phase, candidates>>,
         HolderOK(c, Crawlers(kind)[i]), c.raised => kind = "startups" /\ i = 1,
         Sound(c.list, Legible(Crawlers(kind)[i], c.page), Share(kind, limit))
  PROVE  FetchInv'
<1>1. PipelineOK'
  BY DEF FetchInv, PipelineOK
<1>2. CrawlersOK'
  BY DEF FetchInv, CrawlersOK, Position
<1>3. phase # "gathered" /\ candidates = <<>>
  BY DEF FetchInv, GatheredOK
<1>4. GatheredOK'
  BY <1>3 DEF GatheredOK
<1> QED
  BY <1>1, <1>2, <1>4 DEF FetchInv

LEMMA StartStep ==
  ASSUME FetchInv, NEW i \in Position, Start(i)
  PROVE  FetchInv'
<1>1. kind \in Kinds /\ Share(kind, limit) \in Nat /\ i \in 1..Len(Crawlers(kind))
  BY ShareFacts DEF FetchInv, PipelineOK, CrawlersOK, Position
<1>2. /\ HolderOK(Requesting, Crawlers(kind)[i]) /\ ~Requesting.raised
      /\ Sound(Requesting.list, Legible(Crawlers(kind)[i], Requesting.page), Share(kind, limit))
  BY <1>1, NewHolder
<1>3. ~Over(i)
  BY DEF Start, Over
<1> QED
  BY <1>2, <1>3, CrawlerStep DEF Start

LEMMA WakeStep ==
  ASSUME FetchInv, NEW i \in Position, Wake(i)
  PROVE  FetchInv'
<1> DEFINE c == [crawler[i] EXCEPT !.pc = "requesting", !.attempt = @ + 1]
<1>1. kind \in Kinds /\ i \in 1..Len(Crawlers(kind))
  BY DEF FetchInv, PipelineOK, CrawlersOK, Position
<1>2. /\ HolderOK(crawler[i], Crawlers(kind)[i])
      /\ crawler[i].raised => kind = "startups" /\ i = 1
      /\ Sound(crawler[i].list, Legible(Crawlers(kind)[i], crawler[i].page), Share(kind, limit))
  BY <1>1 DEF FetchInv, CrawlersOK
<1>3. Crawlers(kind)[i].attempts \in Nat
  BY <1>1, CrawlerFacts DEF CrawlerOK
<1>4. crawler[i].pc = "sleeping" /\ crawler' = [crawler EXCEPT ![i] = c]
  BY DEF Wake, Position
<1>5. c.list = crawler[i].list /\ c.page = crawler[i].page /\ c.raised = crawler[i].raised
  OBVIOUS
<1>6. HolderOK(c, Crawlers(kind)[i])
  BY <1>2, <1>3, <1>4 DEF HolderOK
<1> HIDE DEF c
<1> QED
  BY <1>2, <1>4, <1>5, <1>6, CrawlerStep DEF Wake, Over

LEMMA RespondStep ==
  ASSUME FetchInv, NEW i \in Position, NEW r \in Answers(i), Respond(i, r)
  PROVE  FetchInv'
<1> DEFINE s == Crawlers(kind)[i]
           n == Share(kind, limit)
           asleep == [crawler[i] EXCEPT !.pc = "sleeping"]
           done == [pc |-> "over", attempt |-> crawler[i].attempt, page |-> PageRead(r),
                    list |-> ResultOf(s, r, n).list, raised |-> ResultOf(s, r, n).raised]
<1>1. kind \in Kinds /\ n \in Nat \ {0} /\ i \in 1..Len(Crawlers(kind))
  BY ShareFacts DEF FetchInv, PipelineOK, CrawlersOK, Position
<1>2. /\ HolderOK(crawler[i], s)
      /\ crawler[i].raised => kind = "startups" /\ i = 1
      /\ Sound(crawler[i].list, Legible(s, crawler[i].page), n)
  BY <1>1 DEF FetchInv, CrawlersOK
<1>3. ~Over(i) /\ UNCHANGED <<kind, limit, phase, candidates>>
  BY DEF Respond, Over
<1>4. CASE Retryable(s, r) /\ MayRetry(s, crawler[i].attempt)
  <2>1. crawler' = [crawler EXCEPT ![i] = asleep]
    BY <1>4 DEF Respond
  <2>2. asleep.list = crawler[i].list /\ asleep.page = crawler[i].page
        /\ asleep.raised = crawler[i].raised
    OBVIOUS
  <2>3. HolderOK(asleep, s)
    BY <1>2, <1>4 DEF HolderOK, MayRetry
  <2> HIDE DEF asleep
  <2> QED
    BY <1>2, <1>3, <2>1, <2>2, <2>3, CrawlerStep
<1>5. CASE ~(Retryable(s, r) /\ MayRetry(s, crawler[i].attempt))
  <2>1. crawler' = [crawler EXCEPT ![i] = done]
    BY <1>5 DEF Respond, PageRead
  <2>2. AnswerOK(s, r)
    BY <1>1, AnswersOK
  <2>3. /\ ResultOf(s, r, n).raised \in BOOLEAN
        /\ ResultOf(s, r, n).raised => kind = "startups" /\ i = 1
        /\ Sound(ResultOf(s, r, n).list, Legible(s, PageRead(r)), n)
    BY <1>1, <2>2, ResultIsSound
  <2>4. HolderOK(done, s)
    BY <1>2, <2>3 DEF HolderOK
  <2>5. done.raised = ResultOf(s, r, n).raised /\ done.list = ResultOf(s, r, n).list
        /\ done.page = PageRead(r)
    OBVIOUS
  <2> HIDE DEF done
  <2> QED
    BY <1>3, <2>1, <2>3, <2>4, <2>5, CrawlerStep
<1> QED
  BY <1>4, <1>5

LEMMA GatherStep ==
  ASSUME FetchInv, Gather
  PROVE  FetchInv'
<1>1. UNCHANGED <<kind, limit, crawler>> /\ phase = "fetching" /\ phase' \in {"gathered", "failed"}
  BY DEF Gather
<1>2. PipelineOK'
  BY <1>1 DEF FetchInv, PipelineOK
<1>3. CrawlersOK'
  BY <1>1 DEF FetchInv, CrawlersOK
<1>4. GatheredOK'
  <2>1. CASE /\ \A i \in Position : Over(i)
             /\ phase' = "gathered" /\ candidates' = Gathered
    <3>1. (\A i \in Position : Over(i))'
      BY <1>1, <2>1 DEF Position, Over
    <3>2. Gathered' = Gathered
      BY <1>1 DEF Gathered, Position
    <3>3. (candidates = Gathered)'
      BY <2>1, <3>2
    <3> QED
      BY <2>1, <3>1, <3>3 DEF GatheredOK
  <2>2. CASE phase' = "failed" /\ UNCHANGED candidates
    BY <1>1, <2>2 DEF GatheredOK, FetchInv
  <2> QED
    BY <2>1, <2>2 DEF Gather
<1> QED
  BY <1>2, <1>3, <1>4 DEF FetchInv

LEMMA FetchStep ==
  ASSUME FetchInv, [Next]_vars
  PROVE  FetchInv'
<1>1. ASSUME NEW i \in Position, Start(i) PROVE FetchInv'
  BY <1>1, StartStep
<1>2. ASSUME NEW i \in Position, Wake(i) PROVE FetchInv'
  BY <1>2, WakeStep
<1>3. ASSUME NEW i \in Position, NEW r \in Answers(i), Respond(i, r) PROVE FetchInv'
  BY <1>3, RespondStep
<1>4. CASE Gather
  BY <1>4, GatherStep
<1>5. CASE UNCHANGED vars
  <2>1. UNCHANGED <<kind, limit, crawler, phase, candidates>>
    BY <1>5 DEF vars
  <2>2. PipelineOK' /\ CrawlersOK'
    BY <2>1 DEF FetchInv, PipelineOK, CrawlersOK
  <2>3. Gathered' = Gathered
    BY <2>1 DEF Gathered, Position
  <2>4. GatheredOK'
    BY <2>1, <2>3 DEF FetchInv, GatheredOK, Position, Over
  <2> QED
    BY <2>2, <2>4 DEF FetchInv
<1> QED
  BY <1>1, <1>2, <1>3, <1>4, <1>5 DEF Next

\* Attempts stay within the bound of every retry policy, and only the crawler
\* of Y Combinator ends a run: whatever the answers, and however many fail.
THEOREM TypeCorrect == Spec => []TypeOK
<1>1. Init => FetchInv
  BY FetchInit
<1>2. FetchInv /\ [Next]_vars => FetchInv'
  BY FetchStep
<1>3. FetchInv => TypeOK
  BY TypeHolds
<1> QED
  BY <1>1, <1>2, <1>3, PTL DEF Spec

----------------------------------------------------------------------------
\* What has been gathered, and from whom.

Results == [i \in Position |-> IF Enriches(kind, i) THEN <<>> ELSE crawler[i].list]
Count == Len(Crawlers(kind))
SampleNews == [k \in 1..Least(NewsSamples, limit) |-> [by |-> 0, what |-> <<"sample", k>>]]

LEMMA EveryResult ==
  ASSUME FetchInv
  PROVE  /\ Count \in Nat \ {0} /\ Position = 1..Count
         /\ Results \in [1..Count -> Seq(Item)]
         /\ \A i \in 1..Count : RealFirst(Results[i])
         /\ \A i \in 1..Count : Enriches(kind, i) => Results[i] = <<>>
         /\ \A i \in 1..Count : ~Enriches(kind, i) => Results[i] = crawler[i].list
         /\ \A i \in 1..Count : Cardinality(ToSet(Results[i])) <= Share(kind, limit)
<1>1. kind \in Kinds /\ limit \in Nat \ {0} /\ Share(kind, limit) \in Nat \ {0}
  BY ShareFacts DEF FetchInv, PipelineOK
<1>2. Count \in Nat \ {0} /\ Position = 1..Count
  <2>1. DOMAIN crawler = 1..Count
    BY DEF FetchInv, CrawlersOK, Count
  <2>2. Count \in 1..5
    BY <1>1, CrawlerFacts DEF Count
  <2> QED
    BY <2>1, <2>2 DEF Position
<1>3. \A i \in 1..Count :
        Sound(crawler[i].list, Legible(Crawlers(kind)[i], crawler[i].page), Share(kind, limit))
  BY DEF FetchInv, CrawlersOK, Count
<1>4. \A i \in 1..Count : /\ crawler[i].list \in Seq(Item) /\ RealFirst(crawler[i].list)
                          /\ Cardinality(ToSet(crawler[i].list)) <= Share(kind, limit)
  BY <1>3 DEF Sound
<1>5. <<>> \in Seq(Item) /\ RealFirst(<<>>) /\ Cardinality(ToSet(<<>>)) <= Share(kind, limit)
  <2>1. Sound(<<>>, <<>>, Share(kind, limit))
    BY <1>1, EmptyIsSound
  <2> QED
    BY <2>1 DEF Sound
<1>6. \A i \in 1..Count : Results[i] = IF Enriches(kind, i) THEN <<>> ELSE crawler[i].list
  BY <1>2 DEF Results
<1>7. DOMAIN Results = 1..Count /\ Results = [i \in 1..Count |-> Results[i]]
  BY <1>2 DEF Results
<1>8. \A i \in 1..Count : Results[i] \in Seq(Item)
  BY <1>4, <1>5, <1>6
<1>9. Results \in [1..Count -> Seq(Item)]
  BY <1>7, <1>8
<1> QED
  BY <1>2, <1>4, <1>5, <1>6, <1>9

\* Either the results of the crawlers behind one another, or the sample news
\* when there are none.
LEMMA WhatIsGathered ==
  ASSUME FetchInv, phase = "gathered"
  PROVE  \/ Laid(Results, Count, candidates)
         \/ candidates = SampleNews /\ \A i \in 1..Count : Results[i] = <<>>
<1>1. candidates = Gathered
  BY DEF FetchInv, GatheredOK
<1>2. Laid(Results, Count, InOrder(Results))
  BY EveryResult, InOrderLaid
<1>3. \/ Gathered = InOrder(Results)
      \/ Gathered = SampleNews /\ InOrder(Results) = <<>>
  BY DEF Gathered, Results, SampleNews
<1>4. ASSUME InOrder(Results) = <<>> PROVE \A i \in 1..Count : Results[i] = <<>>
  <2> SUFFICES ASSUME NEW i \in 1..Count PROVE Results[i] = <<>>
    OBVIOUS
  <2>1. PICK at : Placed(Results, Count, <<>>, at)
    BY <1>2, <1>4 DEF Laid
  <2>2. \A j \in 1..Len(Results[i]) : \E p \in 1..Len(<<>>) : TRUE
    BY <2>1 DEF Placed
  <2>3. Results[i] \in Seq(Item)
    BY EveryResult
  <2>4. Len(Results[i]) \in Nat /\ (Len(Results[i]) = 0 => Results[i] = <<>>)
    BY <2>3, EmptySeq
  <2>5. Len(<<>>) = 0
    OBVIOUS
  <2>6. ~(\E p \in 1..0 : TRUE)
    OBVIOUS
  <2>7. Len(Results[i]) # 0 => 1 \in 1..Len(Results[i])
    BY <2>4
  <2> QED
    BY <2>2, <2>4, <2>5, <2>6, <2>7
<1> QED
  BY <1>1, <1>2, <1>3, <1>4

LEMMA SampleNewsFacts ==
  ASSUME limit \in Nat
  PROVE  /\ SampleNews \in Seq(Row) /\ Len(SampleNews) <= limit
         /\ \A p \in 1..Len(SampleNews) :
              SampleNews[p].by = 0 /\ SampleNews[p].what[1] = "sample"
<1>1. PICK m : m = Least(NewsSamples, limit)
  OBVIOUS
<1>2. m \in Nat /\ m <= limit
  BY <1>1 DEF Least, NewsSamples
<1>3. SampleNews = [k \in 1..m |-> [by |-> 0, what |-> <<"sample", k>>]]
  BY <1>1 DEF SampleNews
<1>4. \A k \in 1..m : [by |-> 0, what |-> <<"sample", k>>] \in Row
  BY DEF Row, Item
<1>5. SampleNews \in Seq(Row) /\ Len(SampleNews) = m
  BY <1>2, <1>3, <1>4
<1>6. ASSUME NEW p \in 1..m PROVE SampleNews[p].by = 0 /\ SampleNews[p].what[1] = "sample"
  <2>1. PICK c : c = SampleNews[p]
    OBVIOUS
  <2>2. c = [by |-> 0, what |-> <<"sample", p>>]
    BY <1>3, <2>1
  <2> QED
    BY <2>1, <2>2
<1> QED
  BY <1>2, <1>5, <1>6

LEMMA OrderHolds ==
  ASSUME FetchInv
  PROVE  InSourceOrder
<1>0. limit \in Nat
  BY DEF FetchInv, PipelineOK
<1>1. CASE phase # "gathered"
  <2>1. candidates = <<>>
    BY <1>1 DEF FetchInv, GatheredOK
  <2>2. DOMAIN <<>> = {}
    OBVIOUS
  <2>3. DOMAIN candidates = {}
    BY <2>1, <2>2
  <2> QED
    BY <2>3 DEF InSourceOrder
<1>2. CASE phase = "gathered" /\ candidates = SampleNews
  <2>1. /\ DOMAIN candidates = 1..Len(candidates)
        /\ \A p \in 1..Len(candidates) :
             candidates[p].by = 0 /\ candidates[p].what[1] = "sample"
    BY <1>0, <1>2, SampleNewsFacts
  <2> QED
    BY <2>1 DEF InSourceOrder
<1>3. CASE phase = "gathered" /\ Laid(Results, Count, candidates)
  <2>1. PICK at : Placed(Results, Count, candidates, at)
    BY <1>3 DEF Laid
  <2>2. DOMAIN candidates = 1..Len(candidates)
    BY <1>3 DEF Laid
  <2>3. ASSUME NEW p \in 1..Len(candidates), NEW q \in 1..Len(candidates), p < q
        PROVE  /\ candidates[p].by <= candidates[q].by
               /\ candidates[p].by = candidates[q].by /\ candidates[q].what[1] = "real"
                    => candidates[p].what[1] = "real"
    <3>1. /\ candidates[p].by \in 1..Count /\ candidates[q].by \in 1..Count
          /\ at[p] \in 1..Len(Results[candidates[p].by])
          /\ at[q] \in 1..Len(Results[candidates[q].by])
          /\ candidates[p].what = Results[candidates[p].by][at[p]]
          /\ candidates[q].what = Results[candidates[q].by][at[q]]
      BY <2>1 DEF Placed
    <3>2. \/ candidates[p].by < candidates[q].by
          \/ candidates[p].by = candidates[q].by /\ at[p] < at[q]
      BY <2>1, <2>3 DEF Placed
    <3>3. Count \in Nat
      BY EveryResult
    <3>4. candidates[p].by <= candidates[q].by
      BY <3>1, <3>2, <3>3
    <3>5. ASSUME candidates[p].by = candidates[q].by, candidates[q].what[1] = "real"
          PROVE  candidates[p].what[1] = "real"
      <4>1. PICK i \in 1..Count : i = candidates[p].by
        BY <3>1
      <4>2. PICK list : list = Results[i]
        OBVIOUS
      <4>3. list \in Seq(Item) /\ RealFirst(list)
        BY <4>1, <4>2, EveryResult
      <4>4. at[p] < at[q]
        BY <3>1, <3>2, <3>3, <3>5
      <4>5. at[p] \in DOMAIN list /\ at[q] \in DOMAIN list
        BY <3>1, <3>5, <4>1, <4>2, <4>3
      <4>6. candidates[q].what = list[at[q]] /\ candidates[p].what = list[at[p]]
        BY <3>1, <3>5, <4>1, <4>2
      <4> QED
        BY <3>5, <4>3, <4>4, <4>5, <4>6 DEF RealFirst, RealAt
    <3> QED
      BY <3>4, <3>5
  <2> QED
    BY <2>2, <2>3 DEF InSourceOrder
<1> QED
  BY <1>1, <1>2, <1>3, WhatIsGathered

\* The candidates come in the order of the sources and of their pages, whoever
\* answers first, and what is made up follows what was read.
THEOREM CandidatesInOrder == Spec => []InSourceOrder
<1>1. Init => FetchInv
  BY FetchInit
<1>2. FetchInv /\ [Next]_vars => FetchInv'
  BY FetchStep
<1>3. FetchInv => InSourceOrder
  BY OrderHolds
<1> QED
  BY <1>1, <1>2, <1>3, PTL DEF Spec

----------------------------------------------------------------------------
\* Substitutes.

LEMMA RealsAndOthers ==
  ASSUME NEW list \in Seq(Item)
  PROVE  /\ IsFiniteSet(Reals(list)) /\ Cardinality(Reals(list)) \in Nat
         /\ IsFiniteSet(DOMAIN list \ RealAt(list))
         /\ Cardinality(DOMAIN list \ RealAt(list)) \in Nat
         /\ Cardinality(Reals(list)) + Cardinality(DOMAIN list \ RealAt(list)) <= Len(list)
<1> DEFINE f == [j \in RealAt(list) |-> list[j]]
<1>1. DOMAIN list = 1..Len(list) /\ Len(list) \in Nat
  OBVIOUS
<1>2. IsFiniteSet(DOMAIN list) /\ Cardinality(DOMAIN list) = Len(list)
  BY <1>1, FS_Interval
<1>3. RealAt(list) \in SUBSET (DOMAIN list) /\ DOMAIN list \cap RealAt(list) = RealAt(list)
  BY DEF RealAt
<1>4. IsFiniteSet(RealAt(list)) /\ Cardinality(RealAt(list)) \in Nat
  BY <1>2, <1>3, FS_Subset, FS_CardinalityType
<1>5. f \in Surjection(RealAt(list), Reals(list))
  BY DEF Surjection, Reals
<1> HIDE DEF f
<1>6. IsFiniteSet(Reals(list)) /\ Cardinality(Reals(list)) <= Cardinality(RealAt(list))
  BY <1>4, <1>5, FS_Surjection
<1>7. Cardinality(Reals(list)) \in Nat
  BY <1>6, FS_CardinalityType
<1>8. /\ IsFiniteSet(DOMAIN list \ RealAt(list))
      /\ Cardinality(DOMAIN list \ RealAt(list)) = Len(list) - Cardinality(RealAt(list))
  BY <1>2, <1>3, FS_Difference
<1>9. Cardinality(DOMAIN list \ RealAt(list)) \in Nat
  BY <1>8, FS_CardinalityType
<1> QED
  BY <1>1, <1>4, <1>6, <1>7, <1>8, <1>9

\* The candidates of a crawler are the entries of its result.
Mine(out, i) == {p \in DOMAIN out : out[p].by = i}
RealOf(out, i) == {out[p].what : p \in {q \in Mine(out, i) : out[q].what[1] = "real"}}
MadeOf(out, i) == {p \in Mine(out, i) : out[p].what[1] # "real"}

LEMMA MineAre ==
  ASSUME NEW results, NEW m \in Nat, NEW out, Laid(results, m, out),
         NEW i \in 1..m, NEW list \in Seq(Item), list = results[i]
  PROVE  /\ RealOf(out, i) = Reals(list)
         /\ MadeOf(out, i) # {} => RealAt(list) # DOMAIN list
         /\ IsFiniteSet(MadeOf(out, i))
         /\ Cardinality(MadeOf(out, i)) <= Cardinality(DOMAIN list \ RealAt(list))
<1> DEFINE mine == {p \in DOMAIN out : out[p].by = i}
           real == {out[p].what : p \in {q \in mine : out[q].what[1] = "real"}}
           made == {p \in mine : out[p].what[1] # "real"}
<1>1. PICK at : Placed(results, m, out, at)
  BY DEF Laid
<1>2. list = results[i]
  OBVIOUS
<1>3. list \in Seq(Item) /\ DOMAIN list = 1..Len(list)
  OBVIOUS
<1>4. out \in Seq(Row) /\ DOMAIN out = 1..Len(out) /\ Len(out) \in Nat
  BY DEF Laid
<1>5. \A p \in mine : /\ p \in 1..Len(out) /\ at[p] \in DOMAIN list
                      /\ out[p].what = list[at[p]]
  BY <1>1, <1>2, <1>3, <1>4 DEF Placed
<1>6. \A j \in DOMAIN list : \E p \in mine : at[p] = j
  <2> SUFFICES ASSUME NEW j \in DOMAIN list PROVE \E p \in mine : at[p] = j
    OBVIOUS
  <2>1. PICK p \in 1..Len(out) : out[p].by = i /\ at[p] = j
    BY <1>1, <1>2, <1>3 DEF Placed
  <2> QED
    BY <1>4, <2>1
<1>7. \A p, q \in mine : at[p] = at[q] => p = q
  <2> SUFFICES ASSUME NEW p \in mine, NEW q \in mine, at[p] = at[q] PROVE p = q
    OBVIOUS
  <2>1. p \in 1..Len(out) /\ q \in 1..Len(out) /\ out[p].by = i /\ out[q].by = i
    BY <1>4
  <2>2. at[p] \in Nat /\ i \in Nat
    BY <1>3, <1>5
  <2>3. ~(p < q)
    <3>1. p < q => i < i \/ at[p] < at[q]
      BY <1>1, <2>1 DEF Placed
    <3> QED
      BY <2>2, <3>1
  <2>4. ~(q < p)
    <3>1. q < p => i < i \/ at[q] < at[p]
      BY <1>1, <2>1 DEF Placed
    <3> QED
      BY <2>2, <3>1
  <2> QED
    BY <1>4, <2>1, <2>3, <2>4
<1> HIDE DEF mine
<1>8. real = Reals(list)
  <2>1. ASSUME NEW x \in real PROVE x \in Reals(list)
    <3>1. PICK p \in mine : out[p].what[1] = "real" /\ x = out[p].what
      OBVIOUS
    <3>2. at[p] \in RealAt(list) /\ x = list[at[p]]
      BY <1>5, <3>1 DEF RealAt
    <3> QED
      BY <3>2 DEF Reals
  <2>2. ASSUME NEW x \in Reals(list) PROVE x \in real
    <3>1. PICK j \in DOMAIN list : list[j][1] = "real" /\ x = list[j]
      BY DEF Reals, RealAt
    <3>2. PICK p \in mine : at[p] = j
      BY <1>6
    <3>3. out[p].what = x
      BY <1>5, <3>1, <3>2
    <3> QED
      BY <3>1, <3>2, <3>3
  <2> HIDE DEF real
  <2> QED
    BY <2>1, <2>2
<1>9. \A p \in made : at[p] \in DOMAIN list \ RealAt(list)
  BY <1>5 DEF RealAt
<1>10. made # {} => RealAt(list) # DOMAIN list
  BY <1>9
<1>11. /\ IsFiniteSet(made)
       /\ Cardinality(made) <= Cardinality(DOMAIN list \ RealAt(list))
  <2> DEFINE g == [p \in made |-> at[p]]
  <2>1. g \in [made -> DOMAIN list \ RealAt(list)]
    BY <1>9
  <2>2. IsInjective(g)
    <3>1. \A p, q \in made : at[p] = at[q] => p = q
      BY <1>7
    <3> HIDE DEF made
    <3>2. DOMAIN g = made /\ \A p \in made : g[p] = at[p]
      OBVIOUS
    <3> HIDE DEF g
    <3> QED
      BY <3>1, <3>2 DEF IsInjective
  <2>3. g \in Injection(made, DOMAIN list \ RealAt(list))
    BY <2>1, <2>2 DEF Injection
  <2>4. IsFiniteSet(DOMAIN list \ RealAt(list))
    BY <1>3, RealsAndOthers
  <2> HIDE DEF g, made
  <2> QED
    BY <2>3, <2>4, FS_Injection
<1> QED
  BY <1>8, <1>10, <1>11 DEF mine, Mine, RealOf, MadeOf

LEMMA SubstitutesHold ==
  ASSUME FetchInv
  PROVE  SubstitutesOnlyForMissing
<1> SUFFICES ASSUME phase = "gathered", NEW i \in Position
             PROVE  LET page == crawler[i].page
                        n == Share(kind, limit)
                        mine == {p \in DOMAIN candidates : candidates[p].by = i}
                        real == {candidates[p].what : p \in {q \in mine : candidates[q].what[1] = "real"}}
                        made == {p \in mine : candidates[p].what[1] # "real"}
                    IN /\ Read(i) /\ ~Enriches(kind, i) =>
                            real = ToSet(UsableIn(page)) \/ Cardinality(real) = n
                       /\ made # {} => Cardinality(real) + Cardinality(made) <= n
  BY DEF SubstitutesOnlyForMissing
<1> DEFINE page == crawler[i].page
           n == Share(kind, limit)
           mine == {p \in DOMAIN candidates : candidates[p].by = i}
           real == {candidates[p].what : p \in {q \in mine : candidates[q].what[1] = "real"}}
           made == {p \in mine : candidates[p].what[1] # "real"}
<1>1. Count \in Nat /\ i \in 1..Count /\ n \in Nat
  BY EveryResult, ShareFacts DEF FetchInv, PipelineOK
<1>2. PICK list : list = Results[i]
  OBVIOUS
<1>3. list \in Seq(Item)
  BY <1>1, <1>2, EveryResult
<1>4. ~Enriches(kind, i) => Sound(list, Legible(Crawlers(kind)[i], page), n)
  BY <1>1, <1>2, EveryResult DEF FetchInv, CrawlersOK, Count
<1>7. Read(i) => Legible(Crawlers(kind)[i], page) = page /\ page # <<>> /\ ~Invalid(page)
  BY DEF Read, Legible
<1>5. CASE Laid(Results, Count, candidates)
  <2>0. /\ RealOf(candidates, i) = Reals(list)
        /\ MadeOf(candidates, i) # {} => RealAt(list) # DOMAIN list
        /\ IsFiniteSet(MadeOf(candidates, i))
        /\ Cardinality(MadeOf(candidates, i)) <= Cardinality(DOMAIN list \ RealAt(list))
    BY <1>1, <1>2, <1>3, <1>5, MineAre
  <2>1. /\ real = Reals(list)
        /\ made # {} => RealAt(list) # DOMAIN list
        /\ IsFiniteSet(made)
        /\ Cardinality(made) <= Cardinality(DOMAIN list \ RealAt(list))
    BY <2>0 DEF Mine, RealOf, MadeOf
  <2> HIDE DEF made, real, mine, page, n
  <2>2. ASSUME Read(i), ~Enriches(kind, i)
        PROVE  real = ToSet(UsableIn(page)) \/ Cardinality(real) = n
    BY <1>4, <1>7, <2>1, <2>2 DEF Sound
  <2>3. ASSUME made # {} PROVE Cardinality(real) + Cardinality(made) <= n
    <3>1. ~Enriches(kind, i)
      <4>1. ASSUME Enriches(kind, i) PROVE FALSE
        <5>1. list = <<>>
          BY <1>1, <1>2, <4>1, EveryResult
        <5>2. DOMAIN list = {} /\ RealAt(list) = {}
          BY <5>1 DEF RealAt
        <5> QED
          BY <2>1, <2>3, <5>2
      <4> QED
        BY <4>1
    <3>2. Len(list) <= n
      BY <1>4, <2>1, <2>3, <3>1 DEF Sound
    <3>3. /\ Cardinality(Reals(list)) \in Nat
          /\ Cardinality(DOMAIN list \ RealAt(list)) \in Nat
          /\ Cardinality(Reals(list)) + Cardinality(DOMAIN list \ RealAt(list)) <= Len(list)
      BY <1>3, RealsAndOthers
    <3>4. Cardinality(made) \in Nat /\ Len(list) \in Nat
      BY <1>3, <2>1, FS_CardinalityType
    <3>5. Cardinality(real) = Cardinality(Reals(list))
      BY <2>1
    <3>6. Cardinality(made) <= Cardinality(DOMAIN list \ RealAt(list))
      BY <2>1
    <3> QED
      BY <1>1, <3>2, <3>3, <3>4, <3>5, <3>6
  <2>4. /\ Read(i) /\ ~Enriches(kind, i) =>
             real = ToSet(UsableIn(page)) \/ Cardinality(real) = n
        /\ made # {} => Cardinality(real) + Cardinality(made) <= n
    BY <2>2, <2>3
  <2> QED
    BY <2>4 DEF made, real, mine, page, n
<1>6. CASE candidates = SampleNews /\ Results[i] = <<>>
  <2>1. limit \in Nat
    BY DEF FetchInv, PipelineOK
  <2>2. \A p \in DOMAIN candidates : candidates[p].by = 0
    BY <1>6, <2>1, SampleNewsFacts
  <2>3. mine = {}
    BY <1>1, <2>2
  <2>4. real = {} /\ made = {}
    BY <2>3
  <2>5. Reals(list) = {}
    BY <1>2, <1>6 DEF Reals, RealAt
  <2>6. ASSUME Read(i), ~Enriches(kind, i)
        PROVE  real = ToSet(UsableIn(page)) \/ Cardinality(real) = n
    BY <1>4, <1>7, <2>4, <2>5, <2>6 DEF Sound
  <2> HIDE DEF real, page, n
  <2> QED
    BY <2>4, <2>6 DEF real, page, n
<1> QED
  BY <1>1, <1>5, <1>6, WhatIsGathered

\* A crawler makes up only what is missing up to its share, and leaves out a
\* usable entry of a page it could read only when its share is full.  (Read
\* excludes Wellfound Jobs, whose selector is invalid.)
THEOREM OnlyMissingIsMadeUp == Spec => []SubstitutesOnlyForMissing
<1>1. Init => FetchInv
  BY FetchInit
<1>2. FetchInv /\ [Next]_vars => FetchInv'
  BY FetchStep
<1>3. FetchInv => SubstitutesOnlyForMissing
  BY SubstitutesHold
<1> QED
  BY <1>1, <1>2, <1>3, PTL DEF Spec

----------------------------------------------------------------------------
\* How many different candidates are gathered.

From(out, i) == {c \in ToSet(out) : c.by = i}
Through(out, j) == {c \in ToSet(out) : c.by \in 1..j}

LEMMA OfOneCrawler ==
  ASSUME NEW results, NEW m \in Nat, NEW out, Laid(results, m, out),
         NEW i \in 1..m, NEW list \in Seq(Item), list = results[i]
  PROVE  /\ IsFiniteSet(From(out, i)) /\ Cardinality(From(out, i)) \in Nat
         /\ Cardinality(From(out, i)) <= Cardinality(ToSet(list))
<1> DEFINE f == [c \in From(out, i) |-> c.what]
<1>1. PICK at : Placed(results, m, out, at)
  BY DEF Laid
<1>2. out \in Seq(Row) /\ DOMAIN out = 1..Len(out)
  BY DEF Laid
<1>3. ASSUME NEW c \in From(out, i) PROVE c.what \in ToSet(list) /\ c \in Row /\ c.by = i
  <2>1. PICK p \in 1..Len(out) : c = out[p] /\ out[p].by = i
    BY <1>2 DEF From, ToSet
  <2>2. at[p] \in DOMAIN list /\ c.what = list[at[p]]
    BY <1>1, <2>1 DEF Placed
  <2> QED
    BY <1>2, <2>1, <2>2 DEF ToSet
<1>4. f \in [From(out, i) -> ToSet(list)]
  BY <1>3
<1>5. IsInjective(f)
  <2>1. \A c, d \in From(out, i) : c.what = d.what => c = d
    BY <1>3 DEF Row
  <2>2. DOMAIN f = From(out, i) /\ \A c \in From(out, i) : f[c] = c.what
    OBVIOUS
  <2> HIDE DEF f
  <2> QED
    BY <2>1, <2>2 DEF IsInjective
<1>6. f \in Injection(From(out, i), ToSet(list))
  BY <1>4, <1>5 DEF Injection
<1> HIDE DEF f
<1>7. IsFiniteSet(ToSet(list))
  BY DifferentAtMost
<1> QED
  BY <1>6, <1>7, FS_Injection, FS_CardinalityType

\* With at most n different entries from each of m crawlers.
LEMMA AtMostShareEach ==
  ASSUME NEW results, NEW m \in Nat, NEW out, Laid(results, m, out), NEW n \in Nat,
         results \in [1..m -> Seq(Item)],
         \A i \in 1..m : Cardinality(ToSet(results[i])) <= n
  PROVE  Cardinality(ToSet(out)) <= m * n
<1> DEFINE T == {j \in 0..m : /\ IsFiniteSet(Through(out, j)) /\ Cardinality(Through(out, j)) \in Nat
                              /\ Cardinality(Through(out, j)) <= j * n}
<1>1. 0 \in T
  <2>1. Through(out, 0) = {}
    BY DEF Through
  <2>2. IsFiniteSet({}) /\ Cardinality({}) = 0
    BY FS_EmptySet
  <2>3. 0 * n = 0 /\ 0 \in 0..m
    OBVIOUS
  <2>4. IsFiniteSet(Through(out, 0)) /\ Cardinality(Through(out, 0)) = 0
    BY <2>1, <2>2
  <2> QED
    BY <2>3, <2>4
<1>2. ASSUME NEW j \in 1..m, j - 1 \in T PROVE j \in T
  <2>1. PICK list : list = results[j]
    OBVIOUS
  <2>2. list \in Seq(Item) /\ Cardinality(ToSet(list)) <= n /\ Cardinality(ToSet(list)) \in Nat
    <3>1. list \in Seq(Item) /\ Cardinality(ToSet(list)) <= n
      BY <2>1
    <3> QED
      BY <3>1, DifferentAtMost
  <2>3. /\ IsFiniteSet(From(out, j)) /\ Cardinality(From(out, j)) \in Nat
        /\ Cardinality(From(out, j)) <= Cardinality(ToSet(list))
    BY <2>1, <2>2, OfOneCrawler
  <2>4. /\ IsFiniteSet(Through(out, j - 1)) /\ Cardinality(Through(out, j - 1)) \in Nat
        /\ Cardinality(Through(out, j - 1)) <= (j - 1) * n
    BY <1>2
  <2>5. Through(out, j) = Through(out, j - 1) \cup From(out, j)
    <3>1. \A x : x \in 1..j <=> x \in 1..(j - 1) \/ x = j
      OBVIOUS
    <3> QED
      BY <3>1 DEF Through, From
  <2>6. PICK both : both = Through(out, j - 1) \cap From(out, j)
    OBVIOUS
  <2>7. /\ IsFiniteSet(both) /\ Cardinality(both) \in Nat /\ IsFiniteSet(Through(out, j))
        /\ Cardinality(Through(out, j)) =
             Cardinality(Through(out, j - 1)) + Cardinality(From(out, j)) - Cardinality(both)
    <3>1. IsFiniteSet(both)
      BY <2>4, <2>6, FS_Intersection
    <3>2. Cardinality(both) \in Nat
      BY <3>1, FS_CardinalityType
    <3>3. PICK old : old = Through(out, j - 1)
      OBVIOUS
    <3>4. PICK new : new = From(out, j)
      OBVIOUS
    <3>5. IsFiniteSet(old) /\ IsFiniteSet(new)
      BY <2>3, <2>4, <3>3, <3>4
    <3>6. /\ IsFiniteSet(old \cup new)
          /\ Cardinality(old \cup new)
               = Cardinality(old) + Cardinality(new) - Cardinality(old \cap new)
      BY <3>5, FS_Union
    <3> QED
      BY <2>5, <2>6, <3>1, <3>2, <3>3, <3>4, <3>6
  <2>8. Cardinality(Through(out, j)) \in Nat
    BY <2>7, FS_CardinalityType
  <2>9. Cardinality(Through(out, j)) <= (j - 1) * n + n
    BY <2>2, <2>3, <2>4, <2>7, <2>8
  <2>10. (j - 1) * n + n = j * n
    OBVIOUS
  <2> QED
    BY <2>7, <2>8, <2>9, <2>10
<1> HIDE DEF T
<1>3. 0..m \subseteq T
  BY <1>1, <1>2, UpToN
<1>4. m \in T
  BY <1>3
<1>5. ToSet(out) = Through(out, m)
  <2>1. PICK at : Placed(results, m, out, at)
    BY DEF Laid
  <2>2. DOMAIN out = 1..Len(out)
    BY DEF Laid
  <2>3. \A p \in 1..Len(out) : out[p].by \in 1..m
    BY <2>1 DEF Placed
  <2> QED
    BY <2>2, <2>3 DEF Through, ToSet
<1> QED
  BY <1>4, <1>5 DEF T

LEMMA LimitHolds ==
  ASSUME FetchInv
  PROVE  WithinLimit
<1> DEFINE n == Share(kind, limit)
<1>0. /\ kind \in Kinds /\ limit \in Nat \ {0} /\ n \in Nat \ {0} /\ Count \in Nat \ {0}
      /\ kind = "startups" => Count = 2
      /\ kind # "startups" => Count = 5
  BY EveryResult, ShareFacts, CrawlerFacts DEF FetchInv, PipelineOK, Count
<1>1. CASE phase # "gathered"
  <2>1. candidates = <<>>
    BY <1>1 DEF FetchInv, GatheredOK
  <2>2. ToSet(candidates) = {}
    BY <2>1 DEF ToSet
  <2>3. Cardinality(ToSet(candidates)) = 0
    BY <2>2, FS_EmptySet
  <2> QED
    BY <1>0, <2>3 DEF WithinLimit, Count
<1>2. CASE phase = "gathered" /\ candidates = SampleNews
  <2>1. candidates \in Seq(Row) /\ Len(candidates) <= limit /\ Len(candidates) \in Nat
    BY <1>0, <1>2, SampleNewsFacts
  <2>2. /\ Cardinality(ToSet(candidates)) <= Len(candidates)
        /\ Cardinality(ToSet(candidates)) \in Nat
    BY <2>1, DifferentAtMost
  <2>3. Cardinality(ToSet(candidates)) <= limit
    BY <1>0, <2>1, <2>2
  <2> QED
    BY <1>0, <2>2, <2>3 DEF WithinLimit, Count
<1>3. CASE phase = "gathered" /\ Laid(Results, Count, candidates)
  <2>1. /\ Results \in [1..Count -> Seq(Item)]
        /\ \A i \in 1..Count : Cardinality(ToSet(Results[i])) <= n
    BY EveryResult
  <2>0. Cardinality(ToSet(candidates)) \in Nat
    <3>1. candidates \in Seq(Row)
      BY <1>3 DEF Laid
    <3> QED
      BY <3>1, DifferentAtMost
  <2>2. CASE kind # "startups"
    <3> HIDE DEF n
    <3>1. Cardinality(ToSet(candidates)) <= Count * n
      BY <1>0, <1>3, <2>1, AtMostShareEach
    <3>2. n = AtLeastOne(limit \div 5)
      BY <1>0, <2>2 DEF n, Share, Count
    <3>3. 5 * (limit \div 5) <= limit /\ limit \div 5 \in Nat
      BY <1>0
    <3>4. n = 1 \/ n = limit \div 5
      BY <3>2 DEF AtLeastOne
    <3>5. Count * n <= 5 \/ Count * n <= limit
      BY <1>0, <2>2, <3>3, <3>4
    <3>6. Count = 5 /\ Count * n = 5 * n
      BY <1>0, <2>2
    <3>7. Cardinality(ToSet(candidates)) <= 5 \/ Cardinality(ToSet(candidates)) <= limit
      BY <1>0, <2>0, <3>1, <3>5, <3>6
    <3>8. Cardinality(ToSet(candidates)) <= IF Count > limit THEN Count ELSE limit
      BY <1>0, <2>0, <3>6, <3>7
    <3> QED
      BY <3>8 DEF WithinLimit, Count
  <2>3. CASE kind = "startups"
    <3>1. n = limit
      BY <2>3 DEF Share
    <3>2. PICK at : Placed(Results, Count, candidates, at)
      BY <1>3 DEF Laid
    <3>3. DOMAIN candidates = 1..Len(candidates)
      BY <1>3 DEF Laid
    <3>4. Results[2] = <<>>
      BY <1>0, <2>3, EveryResult DEF Enriches
    <3>5. \A p \in 1..Len(candidates) : candidates[p].by = 1
      <4> SUFFICES ASSUME NEW p \in 1..Len(candidates) PROVE candidates[p].by = 1
        OBVIOUS
      <4>1. candidates[p].by \in 1..2 /\ at[p] \in 1..Len(Results[candidates[p].by])
        BY <1>0, <2>3, <3>2 DEF Placed
      <4>2. candidates[p].by # 2
        BY <3>4, <4>1
      <4> QED
        BY <4>1, <4>2
    <3>6. ToSet(candidates) = From(candidates, 1)
      BY <3>3, <3>5 DEF From, ToSet
    <3>7. PICK list : list = Results[1]
      OBVIOUS
    <3>8. list \in Seq(Item) /\ Cardinality(ToSet(list)) <= n
      BY <1>0, <2>1, <2>3, <3>7
    <3>9. Cardinality(ToSet(list)) \in Nat
      BY <3>8, DifferentAtMost
    <3>10. Cardinality(From(candidates, 1)) <= Cardinality(ToSet(list))
      BY <1>0, <1>3, <2>3, <3>7, <3>8, OfOneCrawler
    <3>11. Cardinality(ToSet(candidates)) <= limit
      BY <1>0, <2>0, <3>1, <3>6, <3>8, <3>9, <3>10
    <3> QED
      BY <1>0, <2>0, <3>11 DEF WithinLimit, Count
  <2> QED
    BY <2>2, <2>3
<1> QED
  BY <1>1, <1>2, <1>3, WhatIsGathered

\* A run gathers no more different candidates than its limit, or than it has
\* crawlers when there are more of them.
THEOREM LimitIsKept == Spec => []WithinLimit
<1>1. Init => FetchInv
  BY FetchInit
<1>2. FetchInv /\ [Next]_vars => FetchInv'
  BY FetchStep
<1>3. FetchInv => WithinLimit
  BY LimitHolds
<1> QED
  BY <1>1, <1>2, <1>3, PTL DEF Spec

=============================================================================
