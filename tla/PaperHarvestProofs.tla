------------------------- MODULE PaperHarvestProofs -------------------------
(***************************************************************************)
(* Theorems about PaperHarvest, for any datasets, listings, submissions,    *)
(* page sizes, limits and retry policies.  What the recursive operators     *)
(* compute is proved by induction on the length of a sequence: if a claim   *)
(* failed, it would for a least length.                                     *)
(***************************************************************************)
EXTENDS PaperHarvest, SequenceTheorems, FiniteSetTheorems, WellFoundedInduction, TLAPS

\* Every step of the listing or the submissions, and what the others leave alone.
LEMMA ListingSteps ==
  ASSUME [Next]_vars
  PROVE  \/ UNCHANGED <<arrived, listed>>
         \/ Arrive
         \/ \E n \in 0..PageSize : ReadListing(n)
  BY DEF Next, Work, Retry, Wake, ReadRows, GiveUpRows, ReadBatch, AllAsked, FailListing,
         JoinPapers, Gather, Ask, Respond, WakeFetch, Build, Complete, vars, source, harvested

----------------------------------------------------------------------------
\* What has been read of the listing.

\* The first m papers of the listing have been read, none behind them, and, as
\* every submission moves them on by one, at least as many as positions passed.
ReadUpTo(m) ==
  /\ m \in 0..Len(Listing)
  /\ Len(listed) <= arrived + m
  /\ \A i \in 1..m : Listing[i] \in ToSet(listed)
  /\ \A k \in 1..Len(listed) :
       listed[k] \in ToSet(Arrivals) \/ \E i \in 1..m : listed[k] = Listing[i]

ListingInv ==
  /\ arrived \in 0..Len(Arrivals)
  /\ listed \in Seq(Paper)
  /\ \E m : ReadUpTo(m)

\* The listing as it is: the submitted papers, then those of the beginning.
LEMMA CurrentIs ==
  ASSUME arrived \in 0..Len(Arrivals)
  PROVE  /\ Current \in Seq(Paper) /\ Len(Current) = arrived + Len(Listing)
         /\ \A k \in 1..arrived : Current[k] \in ToSet(Arrivals)
         /\ \A k \in (arrived + 1)..Len(Current) : Current[k] = Listing[k - arrived]
<1> DEFINE new == First(Arrivals, arrived)
           rev == Reverse(new)
<1>1. Arrivals \in Seq(Paper) /\ Listing \in Seq(Paper) /\ Len(Arrivals) \in Nat
  BY HarvestAssumption
<1>2. new = SubSeq(Arrivals, 1, arrived)
  BY <1>1 DEF First, Least
<1>3. /\ new \in Seq(Paper) /\ Len(new) = arrived
      /\ \A i \in 1..arrived : new[i] = Arrivals[i]
  BY <1>1, <1>2, SubSeqProperties
<1> HIDE DEF new
<1>4. /\ rev \in Seq(Paper) /\ Len(rev) = arrived
      /\ \A i \in 1..arrived : rev[i] = new[(arrived - i) + 1]
  <2>1. rev = [i \in 1..arrived |-> new[(arrived - i) + 1]]
    BY <1>3, Zenon DEF Reverse
  <2>2. ASSUME NEW i \in 1..arrived
        PROVE  new[(arrived - i) + 1] \in Paper
    <3>1. (arrived - i) + 1 \in 1..arrived
      BY <1>1
    <3> QED
      BY <1>3, <3>1
  <2>3. rev \in [1..arrived -> Paper]
    BY <2>1, <2>2
  <2> QED
    BY <1>1, <2>1, <2>3
<1>5. ASSUME NEW i \in 1..arrived PROVE rev[i] \in ToSet(Arrivals)
  <2>1. (arrived - i) + 1 \in 1..arrived /\ (arrived - i) + 1 \in 1..Len(Arrivals)
    BY <1>1
  <2>2. rev[i] = Arrivals[(arrived - i) + 1]
    BY <1>3, <1>4, <2>1
  <2>3. DOMAIN Arrivals = 1..Len(Arrivals)
    BY <1>1
  <2> QED
    BY <2>1, <2>2, <2>3 DEF ToSet
<1>6. Current = rev \o Listing
  BY DEF Current, new
<1> HIDE DEF rev
<1>7. /\ rev \o Listing \in Seq(Paper) /\ Len(rev \o Listing) = arrived + Len(Listing)
      /\ \A k \in 1..(arrived + Len(Listing)) :
           (rev \o Listing)[k] = IF k <= arrived THEN rev[k] ELSE Listing[k - arrived]
  BY <1>1, <1>4, ConcatProperties
<1>8. Len(Listing) \in Nat
  BY <1>1
<1> QED
  BY <1>5, <1>6, <1>7, <1>8

\* A page continues what has been read, as the listing is now.
LEMMA PageIs ==
  ASSUME ListingInv, NEW n \in Nat, ReadListing(n)
  PROVE  \E e : /\ e \in Len(listed)..Len(Current) /\ e <= Len(listed) + n
                /\ listed' \in Seq(Paper) /\ Len(listed') = e
                /\ \A k \in 1..Len(listed) : listed'[k] = listed[k]
                /\ \A k \in (Len(listed) + 1)..e : listed'[k] = Current[k]
<1> DEFINE L == Len(listed)
           e == Least(L + n, Len(Current))
           papers == SubSeq(Current, L + 1, e)
<1>1. /\ Current \in Seq(Paper) /\ Len(Current) = arrived + Len(Listing)
      /\ arrived \in Nat /\ listed \in Seq(Paper) /\ L \in Nat /\ Len(Current) \in Nat
      /\ Len(Listing) \in Nat
  BY CurrentIs, HarvestAssumption DEF ListingInv
<1>2. L <= Len(Current)
  BY <1>1 DEF ListingInv, ReadUpTo
<1>3. e \in L..Len(Current) /\ e <= L + n
  BY <1>1, <1>2 DEF Least
<1>4. listed' = listed \o papers
  BY DEF ReadListing, From, Start
<1> HIDE DEF e, L
<1>5. /\ papers \in Seq(Paper) /\ Len(papers) = e - L
      /\ \A i \in 1..(e - L) : papers[i] = Current[L + i]
  <2>1. \A i \in (L + 1)..e : Current[i] \in Paper
    BY <1>1, <1>3
  <2>2. L + 1 \in Int /\ e \in Int /\ e - (L + 1) + 1 = e - L
    BY <1>1, <1>3
  <2>3. /\ papers \in Seq(Paper)
        /\ Len(papers) = IF L + 1 <= e THEN e - (L + 1) + 1 ELSE 0
        /\ \A i \in 1..(e - (L + 1) + 1) : papers[i] = Current[(L + 1) + i - 1]
    BY <2>1, <2>2, SubSeqProperties
  <2>4. \A i \in 1..(e - L) : (L + 1) + i - 1 = L + i
    BY <1>1
  <2> QED
    BY <1>1, <1>3, <2>2, <2>3, <2>4
<1> HIDE DEF papers
<1>6. /\ listed' \in Seq(Paper) /\ Len(listed') = L + Len(papers)
      /\ \A k \in 1..(L + Len(papers)) :
           listed'[k] = IF k <= L THEN listed[k] ELSE papers[k - L]
  BY <1>1, <1>4, <1>5, ConcatProperties DEF L
<1>7. L + Len(papers) = e
  BY <1>1, <1>3, <1>5
<1>8. ASSUME NEW k \in (L + 1)..e PROVE listed'[k] = Current[k]
  <2>1. k - L \in 1..(e - L) /\ L + (k - L) = k /\ k \in 1..(L + Len(papers)) /\ ~(k <= L)
    BY <1>1, <1>3, <1>7
  <2> QED
    BY <1>5, <1>6, <2>1
<1>9. \A k \in 1..L : listed'[k] = listed[k]
  BY <1>1, <1>3, <1>6, <1>7
<1> QED
  BY <1>3, <1>6, <1>7, <1>8, <1>9 DEF L

\* It reads the papers from the first one not read on, or one that was moved.
LEMMA ReadOn ==
  ASSUME ListingInv, NEW n \in Nat, ReadListing(n), NEW m, ReadUpTo(m)
  PROVE  \E k : ReadUpTo(k)'
<1>1. PICK e : /\ e \in Len(listed)..Len(Current) /\ e <= Len(listed) + n
               /\ listed' \in Seq(Paper) /\ Len(listed') = e
               /\ \A k \in 1..Len(listed) : listed'[k] = listed[k]
               /\ \A k \in (Len(listed) + 1)..e : listed'[k] = Current[k]
  BY PageIs
<1>2. /\ arrived \in 0..Len(Arrivals) /\ listed \in Seq(Paper) /\ arrived' = arrived
      /\ arrived \in Nat /\ Len(listed) \in Nat /\ m \in Nat /\ Len(Listing) \in Nat
  BY HarvestAssumption DEF ListingInv, ReadUpTo, ReadListing
<1>3. /\ Len(Current) = arrived + Len(Listing)
      /\ \A k \in 1..arrived : Current[k] \in ToSet(Arrivals)
      /\ \A k \in (arrived + 1)..Len(Current) : Current[k] = Listing[k - arrived]
  BY <1>2, CurrentIs
<1>4. PICK q : q = IF e - arrived > m THEN e - arrived ELSE m
  OBVIOUS
<1>5. q \in 0..Len(Listing) /\ e <= arrived + q /\ m <= q
  BY <1>1, <1>2, <1>3, <1>4 DEF ReadUpTo
<1>6. ASSUME NEW i \in 1..q PROVE Listing[i] \in ToSet(listed')
  <2>1. CASE i <= m
    <3>1. Listing[i] \in ToSet(listed)
      BY <1>2, <2>1 DEF ReadUpTo
    <3>2. PICK k \in 1..Len(listed) : Listing[i] = listed[k]
      BY <1>2, <3>1 DEF ToSet
    <3>3. k \in 1..Len(listed') /\ listed'[k] = Listing[i]
      BY <1>1, <1>2, <3>2
    <3> QED
      BY <1>1, <3>3 DEF ToSet
  <2>2. CASE i > m
    <3>1. i + arrived \in (Len(listed) + 1)..e /\ i + arrived \in (arrived + 1)..Len(Current)
      <4>1. i \in Nat /\ e \in Nat /\ q = e - arrived /\ Len(listed) <= arrived + m /\ i <= q
            /\ i > 0
        BY <1>1, <1>2, <1>4, <1>5, <2>2 DEF ReadUpTo
      <4>2. Len(Current) \in Nat /\ e <= Len(Current)
        BY <1>1, <1>2, <1>3
      <4> QED
        BY <1>2, <2>2, <4>1, <4>2
    <3>2. listed'[i + arrived] = Listing[(i + arrived) - arrived]
      BY <1>1, <1>3, <3>1
    <3>3. (i + arrived) - arrived = i /\ i + arrived \in 1..Len(listed')
      BY <1>1, <1>2, <3>1
    <3> QED
      BY <1>1, <3>2, <3>3 DEF ToSet
  <2> QED
    BY <1>2, <2>1, <2>2
<1>7. ASSUME NEW k \in 1..Len(listed')
      PROVE  listed'[k] \in ToSet(Arrivals) \/ \E i \in 1..q : listed'[k] = Listing[i]
  <2>1. CASE k <= Len(listed)
    <3>1. listed[k] \in ToSet(Arrivals) \/ \E i \in 1..m : listed[k] = Listing[i]
      BY <1>1, <1>2, <2>1 DEF ReadUpTo
    <3>2. listed'[k] = listed[k] /\ 1..m \subseteq 1..q
      BY <1>1, <1>2, <1>5, <2>1
    <3> QED
      BY <3>1, <3>2
  <2>2. CASE k > Len(listed)
    <3>1. listed'[k] = Current[k] /\ k \in 1..Len(Current)
      BY <1>1, <1>2, <2>2
    <3>2. CASE k <= arrived
      BY <1>2, <1>3, <3>1, <3>2
    <3>3. CASE k > arrived
      <4>1. Current[k] = Listing[k - arrived] /\ k - arrived \in 1..q
        BY <1>1, <1>2, <1>3, <1>5, <3>1, <3>3
      <4> QED
        BY <3>1, <4>1
    <3> QED
      BY <1>1, <1>2, <3>2, <3>3
  <2> QED
    BY <1>1, <1>2, <2>1, <2>2
<1>8. ReadUpTo(q)'
  BY <1>1, <1>2, <1>5, <1>6, <1>7 DEF ReadUpTo
<1> QED
  BY <1>8

LEMMA ListingStep == ListingInv /\ [Next]_vars => ListingInv'
<1> SUFFICES ASSUME ListingInv, [Next]_vars PROVE ListingInv'
  OBVIOUS
<1>1. PICK m : ReadUpTo(m)
  BY DEF ListingInv
<1>2. CASE UNCHANGED <<arrived, listed>>
  BY <1>2 DEF ListingInv, ReadUpTo
<1>3. CASE Arrive
  <2>1. /\ listed' = listed /\ arrived' = arrived + 1 /\ arrived' \in 0..Len(Arrivals)
        /\ listed \in Seq(Paper) /\ arrived \in Nat /\ Len(listed) \in Nat /\ m \in Nat
    BY <1>1, <1>3, HarvestAssumption DEF Arrive, ListingInv, ReadUpTo
  <2>2. ReadUpTo(m)'
    BY <1>1, <2>1 DEF ReadUpTo
  <2> QED
    BY <2>1, <2>2 DEF ListingInv
<1>4. ASSUME NEW n \in 0..PageSize, ReadListing(n) PROVE ListingInv'
  <2>1. n \in Nat
    BY <1>4
  <2>2. listed' \in Seq(Paper)
    BY <1>4, <2>1, PageIs
  <2>3. arrived' \in 0..Len(Arrivals)
    BY <1>4 DEF ListingInv, ReadListing
  <2> QED
    BY <1>1, <1>4, <2>1, <2>2, <2>3, ReadOn DEF ListingInv
<1> QED
  BY <1>2, <1>3, <1>4, ListingSteps

LEMMA ListingInitially == Init => ListingInv
<1> SUFFICES ASSUME Init PROVE ListingInv
  OBVIOUS
<1>1. Len(Listing) \in Nat /\ Len(Arrivals) \in Nat
  BY HarvestAssumption
<1>2. arrived = 0 /\ listed = <<>>
  BY DEF Init
<1>3. ReadUpTo(0)
  BY <1>1, <1>2 DEF ReadUpTo
<1> QED
  BY <1>1, <1>2, <1>3 DEF ListingInv

\* No paper of the listing is skipped, however many papers are submitted between
\* two pages, and wherever the server cuts them: a page begins behind as many
\* papers as have been read, and these include at most those submitted.
THEOREM NothingSkipped == Spec => []NoGap
<1>1. ListingInv => NoGap
  <2> SUFFICES ASSUME ListingInv, NEW i \in DOMAIN Listing, NEW j \in DOMAIN Listing,
                      i < j, Listing[j] \in ToSet(listed)
               PROVE  Listing[i] \in ToSet(listed)
    BY DEF NoGap
  <2>1. PICK m : ReadUpTo(m)
    BY DEF ListingInv
  <2>2. /\ listed \in Seq(Paper) /\ i \in Nat /\ j \in Nat /\ m \in Nat
        /\ DOMAIN Listing = 1..Len(Listing) /\ Len(Listing) \in Nat
    BY <2>1, HarvestAssumption DEF ListingInv, ReadUpTo
  <2>3. PICK k \in 1..Len(listed) : Listing[j] = listed[k]
    BY <2>2 DEF ToSet
  <2>4. Listing[j] \notin ToSet(Arrivals)
    <3>1. ToSet(Listing) \cap ToSet(Arrivals) = {}
      BY HarvestAssumption
    <3>2. Listing[j] \in ToSet(Listing)
      BY DEF ToSet
    <3> QED
      BY <3>1, <3>2
  <2>5. PICK l \in 1..m : Listing[j] = Listing[l]
    BY <2>1, <2>3, <2>4 DEF ReadUpTo
  <2>6. l \in DOMAIN Listing
    BY <2>1, <2>2 DEF ReadUpTo
  <2>7. j = l
    BY <2>5, <2>6, HarvestAssumption DEF IsInjective
  <2>8. i \in 1..m
    BY <2>2, <2>7
  <2> QED
    BY <2>1, <2>8 DEF ReadUpTo
<1> QED
  BY <1>1, ListingInitially, ListingStep, PTL DEF Spec


----------------------------------------------------------------------------
\* The bounds on requests.

Attempted(r) == r \in Request /\ (r.pc = "sleeping" => r.attempt < MaxAttempts)

BoundInv ==
  /\ Attempted(request)
  /\ \A i \in DOMAIN fetch : Attempted(fetch[i])
  /\ IsFiniteSet(Busy) /\ Cardinality(Busy) <= Slots

LEMMA Attempts ==
  /\ Attempted(Asking)
  /\ \A r : Attempted(r) /\ r.pc = "sleeping" => Attempted(Again(r)) /\ Again(r).pc = "asking"
  /\ \A r, p : Attempted(r) /\ p \in {"answered", "failed"} => Attempted([r EXCEPT !.pc = p])
  /\ \A r : Attempted(r) /\ MayRetry(r.attempt) => Attempted([r EXCEPT !.pc = "sleeping"])
<1>1. MaxAttempts \in Nat \ {0}
  BY HarvestAssumption
<1>2. Attempted(Asking)
  BY <1>1 DEF Attempted, Asking, Request
<1>3. ASSUME NEW r, Attempted(r), r.pc = "sleeping"
      PROVE  Attempted(Again(r)) /\ Again(r).pc = "asking"
  <2>1. r.attempt \in Nat /\ r.attempt < MaxAttempts
    BY <1>1, <1>3 DEF Attempted, Request
  <2>2. r.attempt + 1 \in 0..MaxAttempts
    BY <1>1, <2>1
  <2> QED
    BY <2>2 DEF Attempted, Request, Again
<1>4. ASSUME NEW r, NEW p, Attempted(r), p \in {"answered", "failed"}
      PROVE  Attempted([r EXCEPT !.pc = p])
  BY <1>4 DEF Attempted, Request
<1>5. ASSUME NEW r, Attempted(r), MayRetry(r.attempt)
      PROVE  Attempted([r EXCEPT !.pc = "sleeping"])
  BY <1>5 DEF Attempted, Request, MayRetry
<1> QED
  BY <1>2, <1>3, <1>4, <1>5

\* Requests to the dataset and to arXiv go one after the other.
LEMMA RequestSteps ==
  ASSUME BoundInv, [Next]_vars
  PROVE  Attempted(request')
<1>1. Attempted(request)
  BY DEF BoundInv
<1>2. CASE Retry
  BY <1>1, <1>2, Attempts DEF Retry
<1>3. CASE Wake
  BY <1>1, <1>3, Attempts DEF Wake
<1>4. CASE request' \in {request, Asking}
  BY <1>1, <1>4, Attempts
<1>5. Retry \/ Wake \/ request' \in {request, Asking}
  BY DEF Next, Work, ReadRows, GiveUpRows, ReadBatch, AllAsked, ReadListing, FailListing,
         JoinPapers, Gather, Ask, Respond, WakeFetch, Build, Complete, Arrive, vars, harvested
<1> QED
  BY <1>2, <1>3, <1>4, <1>5

\* A step that takes no slot.
LEMMA SlotsKept ==
  ASSUME BoundInv, Busy' \subseteq Busy
  PROVE  IsFiniteSet(Busy') /\ Cardinality(Busy') <= Slots
<1>1. IsFiniteSet(Busy) /\ Cardinality(Busy) <= Slots /\ Slots \in Nat
  BY HarvestAssumption DEF BoundInv
<1>2. IsFiniteSet(Busy') /\ Cardinality(Busy') <= Cardinality(Busy)
  BY <1>1, FS_Subset
<1>3. Cardinality(Busy) \in Nat /\ Cardinality(Busy') \in Nat
  BY <1>1, <1>2, FS_CardinalityType
<1> QED
  BY <1>1, <1>2, <1>3

LEMMA FetchSteps ==
  ASSUME BoundInv, [Next]_vars
  PROVE  /\ \A i \in DOMAIN fetch' : Attempted(fetch'[i])
         /\ IsFiniteSet(Busy') /\ Cardinality(Busy') <= Slots
<1>1. \A i \in DOMAIN fetch : Attempted(fetch[i])
  BY DEF BoundInv
<1>2. MaxAttempts \in Nat
  BY HarvestAssumption
<1>3. CASE Gather
  <2>1. fetch' = [i \in DOMAIN repositories' |-> [pc |-> "queued", attempt |-> 0]]
    BY <1>3 DEF Gather
  <2>2. Attempted([pc |-> "queued", attempt |-> 0])
    BY <1>2 DEF Attempted, Request
  <2>3. Busy' = {}
    BY <2>1 DEF Busy
  <2> QED
    BY <2>1, <2>2, <2>3, SlotsKept
<1>4. CASE Ask
  <2> DEFINE i == Min(Queued)
  <2>1. fetch' = [fetch EXCEPT ![i] = Asking] /\ Cardinality(Busy) < Slots
    BY <1>4 DEF Ask, Holding
  <2> HIDE DEF i
  <2>2. Busy' \subseteq Busy \cup {i}
    BY <2>1 DEF Busy
  <2>3. IsFiniteSet(Busy) /\ Slots \in Nat
    BY HarvestAssumption DEF BoundInv
  <2>4. /\ IsFiniteSet(Busy \cup {i}) /\ Cardinality(Busy) \in Nat
        /\ Cardinality(Busy \cup {i}) <= Cardinality(Busy) + 1
    BY <2>3, FS_AddElement, FS_CardinalityType
  <2>5. IsFiniteSet(Busy') /\ Cardinality(Busy') <= Cardinality(Busy \cup {i})
    BY <2>2, <2>4, FS_Subset
  <2>6. Cardinality(Busy') \in Nat /\ Cardinality(Busy \cup {i}) \in Nat
    BY <2>4, <2>5, FS_CardinalityType
  <2>7. Cardinality(Busy') <= Slots
    BY <2>1, <2>3, <2>4, <2>5, <2>6
  <2>8. \A j \in DOMAIN fetch' : Attempted(fetch'[j])
    BY <1>1, <2>1, Attempts
  <2> QED
    BY <2>5, <2>7, <2>8
<1>5. ASSUME NEW i \in DOMAIN fetch, WakeFetch(i)
      PROVE  /\ \A j \in DOMAIN fetch' : Attempted(fetch'[j])
             /\ Busy' \subseteq Busy
  <2>1. fetch' = [fetch EXCEPT ![i] = Again(fetch[i])] /\ fetch[i].pc = "sleeping"
    BY <1>5 DEF WakeFetch
  <2>2. Attempted(Again(fetch[i]))
    BY <1>1, <2>1, Attempts
  <2>3. \A j \in DOMAIN fetch' : Attempted(fetch'[j])
    BY <1>1, <2>1, <2>2
  <2>4. Busy' \subseteq Busy
    BY <2>1 DEF Busy
  <2> QED
    BY <2>3, <2>4
<1>6. ASSUME NEW i \in DOMAIN fetch, NEW a \in {"stars", "temporary", "refused"}, Respond(i, a)
      PROVE  /\ \A j \in DOMAIN fetch' : Attempted(fetch'[j])
             /\ Busy' \subseteq Busy
  <2> DEFINE p == IF a = "stars" THEN "answered"
                  ELSE IF a = "temporary" /\ MayRetry(fetch[i].attempt)
                  THEN "sleeping" ELSE "failed"
  <2>1. fetch[i].pc = "asking" /\ fetch' = [fetch EXCEPT ![i].pc = p]
    BY <1>6 DEF Respond
  <2>2. Attempted([fetch[i] EXCEPT !.pc = p])
    BY <1>1, Attempts
  <2> HIDE DEF p
  <2>3. fetch' = [fetch EXCEPT ![i] = [fetch[i] EXCEPT !.pc = p]]
    BY <2>1
  <2>4. \A j \in DOMAIN fetch' : Attempted(fetch'[j])
    BY <1>1, <2>2, <2>3
  <2>5. Busy' \subseteq Busy
    BY <2>1, <2>3 DEF Busy
  <2> QED
    BY <2>4, <2>5
<1>7. CASE Build
  <2>1. fetch' = <<>>
    BY <1>7 DEF Build
  <2>2. Busy' = {}
    BY <2>1 DEF Busy
  <2> QED
    BY <2>1, <2>2, SlotsKept
<1>8. CASE fetch' = fetch
  BY <1>1, <1>8, SlotsKept DEF Busy
<1>9. \/ Gather \/ Ask \/ Build \/ fetch' = fetch
      \/ \E i \in DOMAIN fetch :
           WakeFetch(i) \/ \E a \in {"stars", "temporary", "refused"} : Respond(i, a)
  BY DEF Next, Work, Retry, Wake, ReadRows, GiveUpRows, ReadBatch, AllAsked, ReadListing,
         FailListing, JoinPapers, Complete, Arrive, vars
<1> QED
  BY <1>3, <1>4, <1>5, <1>6, <1>7, <1>8, <1>9, SlotsKept

\* At most Slots requests to GitHub are under way or asleep between attempts, and
\* no request is tried more than MaxAttempts times, for any number of
\* repositories and any answers.
THEOREM RequestsBounded == Spec => []RequestsOK
<1>1. Init => BoundInv
  <2> SUFFICES ASSUME Init PROVE BoundInv
    OBVIOUS
  <2>1. request = Asking /\ fetch = <<>> /\ Slots \in Nat
    BY HarvestAssumption DEF Init
  <2>2. Busy = {}
    BY <2>1 DEF Busy
  <2> QED
    BY <2>1, <2>2, Attempts, FS_EmptySet DEF BoundInv
<1>2. BoundInv /\ [Next]_vars => BoundInv'
  BY RequestSteps, FetchSteps DEF BoundInv
<1>3. BoundInv => RequestsOK
  BY DEF BoundInv, RequestsOK, Attempted
<1> QED
  BY <1>1, <1>2, <1>3, PTL DEF Spec

----------------------------------------------------------------------------
\* Induction on a length.

Less == {p \in Nat \X Nat : p[1] < p[2]}

LEMMA LeastNumber ==
  ASSUME NEW T, T \subseteq Nat, T # {}
  PROVE  \E x \in T : \A y \in T : x <= y
<1>1. IsWellFoundedOn(Less, Nat)
  BY NatLessThanWellFounded DEF OpToRel, Less
<1>2. PICK x \in T : \A y \in T : <<y, x>> \notin Less
  BY <1>1, WFMin
<1>3. \A y \in T : x <= y
  <2> SUFFICES ASSUME NEW y \in T PROVE x <= y
    OBVIOUS
  <2>1. x \in Nat /\ y \in Nat /\ <<y, x>> \in Nat \X Nat
    OBVIOUS
  <2>2. ~(y < x)
    BY <1>2, <2>1 DEF Less
  <2> QED
    BY <2>1, <2>2
<1> QED
  BY <1>3

\* A set of numbers that contains 0, and with a number its successor up to n,
\* contains all of them.
LEMMA UpToN ==
  ASSUME NEW n \in Nat, NEW T, 0 \in T,
         \A j \in 1..n : j - 1 \in T => j \in T
  PROVE  0..n \subseteq T
<1> DEFINE Wrong == {j \in 0..n : j \notin T}
<1>1. ASSUME Wrong # {} PROVE FALSE
  <2>0. Wrong \subseteq Nat
    OBVIOUS
  <2> HIDE DEF Wrong
  <2>1. PICK j \in Wrong : \A k \in Wrong : j <= k
    BY <1>1, <2>0, LeastNumber
  <2> USE DEF Wrong
  <2>2. j \in 1..n /\ j - 1 \in 0..n /\ j - 1 \notin Wrong
    BY <2>1
  <2> QED
    BY <2>1, <2>2
<1> QED
  BY <1>1

----------------------------------------------------------------------------
\* What Picked picks.

Picking(seq, places, f, k) ==
  IF k = 0 THEN <<>>
  ELSE IF k \in places THEN Append(f[k - 1], seq[k]) ELSE f[k - 1]
Picks(seq, places, n, f) == f = [k \in 0..n |-> Picking(seq, places, f, k)]

LEMMA PicksExist ==
  ASSUME NEW seq, NEW places, NEW n \in Nat
  PROVE  \E f : Picks(seq, places, n, f)
<1> DEFINE T == {k \in Nat : \E f : Picks(seq, places, k, f)}
<1>1. 0 \in T
  <2> DEFINE f == [k \in 0..0 |-> <<>>]
  <2>1. Picks(seq, places, 0, f)
    BY DEF Picks, Picking
  <2> QED
    BY <2>1
<1>2. ASSUME NEW k \in 1..n, k - 1 \in T PROVE k \in T
  <2>1. PICK f : Picks(seq, places, k - 1, f)
    BY <1>2
  <2> DEFINE g == [j \in 0..k |-> Picking(seq, places, f, j)]
  <2>2. \A j \in 0..(k - 1) : g[j] = f[j]
    BY <2>1 DEF Picks
  <2>3. ASSUME NEW j \in 0..k PROVE Picking(seq, places, g, j) = Picking(seq, places, f, j)
    <3>1. j # 0 => j - 1 \in 0..(k - 1)
      OBVIOUS
    <3>2. j # 0 => g[j - 1] = f[j - 1]
      BY <2>2, <3>1
    <3> QED
      BY <3>2 DEF Picking
  <2>4. Picks(seq, places, k, g)
    BY <2>3 DEF Picks
  <2> HIDE DEF g
  <2> QED
    BY <2>4
<1> HIDE DEF T
<1>3. 0..n \subseteq T
  BY <1>1, <1>2, UpToN
<1>4. n \in T
  BY <1>3
<1> QED
  BY <1>4 DEF T

LEMMA PicksUnique ==
  ASSUME NEW seq, NEW places, NEW n \in Nat, NEW f, NEW g,
         Picks(seq, places, n, f), Picks(seq, places, n, g)
  PROVE  f = g
<1> DEFINE T == {k \in 0..n : f[k] = g[k]}
<1>1. 0 \in T
  BY DEF Picks, Picking
<1>2. ASSUME NEW k \in 1..n, k - 1 \in T PROVE k \in T
  <2>1. k \in 0..n /\ f[k - 1] = g[k - 1]
    BY <1>2
  <2>2. f[k] = Picking(seq, places, f, k) /\ g[k] = Picking(seq, places, g, k)
    BY <2>1 DEF Picks
  <2> QED
    BY <2>1, <2>2 DEF Picking
<1> HIDE DEF T
<1>3. 0..n \subseteq T
  BY <1>1, <1>2, UpToN
<1>4. f = [k \in 0..n |-> f[k]] /\ g = [k \in 0..n |-> g[k]]
  BY DEF Picks
<1> QED
  BY <1>3, <1>4 DEF T

LEMMA PickedIs ==
  ASSUME NEW seq, NEW places, Len(seq) \in Nat, NEW f, Picks(seq, places, Len(seq), f)
  PROVE  Picked(seq, places) = f[Len(seq)]
<1>1. \A g : Picks(seq, places, Len(seq), g) <=> g = f
  BY PicksUnique
<1> QED
  BY <1>1 DEF Picked, Picks, Picking

\* The picked entries are those at the places, and nothing else.
LEMMA PickedEntries ==
  ASSUME NEW S, NEW seq \in Seq(S), NEW places
  PROVE  /\ Picked(seq, places) \in Seq(S)
         /\ ToSet(Picked(seq, places)) = {seq[x] : x \in {y \in DOMAIN seq : y \in places}}
<1> DEFINE n == Len(seq)
           Taken(k) == {seq[x] : x \in {y \in 1..k : y \in places}}
<1>0. n \in Nat /\ DOMAIN seq = 1..n
  OBVIOUS
<1>1. PICK f : Picks(seq, places, n, f)
  BY <1>0, PicksExist
<1> DEFINE T == {k \in 0..n : f[k] \in Seq(S) /\ ToSet(f[k]) = Taken(k)}
<1>2. 0 \in T
  <2>1. f[0] = <<>>
    BY <1>0, <1>1 DEF Picks, Picking
  <2>2. f[0] \in Seq(S) /\ ToSet(f[0]) = {}
    BY <2>1 DEF ToSet
  <2>3. Taken(0) = {}
    OBVIOUS
  <2>4. 0 \in 0..n
    BY <1>0
  <2> HIDE DEF Taken
  <2> QED
    BY <2>2, <2>3, <2>4
<1>3. ASSUME NEW k \in 1..n, k - 1 \in T PROVE k \in T
  <2>1. /\ k \in 0..n /\ f[k - 1] \in Seq(S) /\ ToSet(f[k - 1]) = Taken(k - 1)
        /\ seq[k] \in S
    BY <1>0, <1>3
  <2>2. f[k] = Picking(seq, places, f, k)
    BY <1>0, <1>1, <2>1 DEF Picks
  <2>3. \A y : y \in 1..k <=> y \in 1..(k - 1) \/ y = k
    BY <1>0
  <2>4. CASE k \in places
    <3> DEFINE u == f[k - 1]
               w == Append(u, seq[k])
    <3>1. f[k] = w
      BY <2>2, <2>4 DEF Picking
    <3>2. /\ w \in Seq(S) /\ Len(w) = Len(u) + 1 /\ w[Len(u) + 1] = seq[k]
          /\ \A j \in 1..Len(u) : w[j] = u[j]
      BY <2>1, AppendProperties
    <3>3. DOMAIN u = 1..Len(u) /\ Len(u) \in Nat
      BY <2>1
    <3> HIDE DEF u, w
    <3>4. DOMAIN w = 1..Len(w) /\ DOMAIN w = (DOMAIN u) \cup {Len(u) + 1}
      BY <3>2, <3>3
    <3>5. ToSet(w) = ToSet(u) \cup {seq[k]}
      BY <3>2, <3>3, <3>4 DEF ToSet
    <3>6. Taken(k) = Taken(k - 1) \cup {seq[k]}
      BY <2>3, <2>4
    <3> QED
      BY <2>1, <3>1, <3>2, <3>5, <3>6 DEF u
  <2>5. CASE k \notin places
    <3>1. f[k] = f[k - 1]
      BY <2>1, <2>2, <2>5 DEF Picking
    <3>2. Taken(k) = Taken(k - 1)
      BY <2>3, <2>5
    <3> QED
      BY <2>1, <3>1, <3>2
  <2> QED
    BY <2>4, <2>5
<1> HIDE DEF T
<1>4. 0..n \subseteq T
  BY <1>0, <1>2, <1>3, UpToN
<1>5. n \in T
  BY <1>0, <1>4
<1>6. Picked(seq, places) = f[n]
  BY <1>0, <1>1, PickedIs
<1> QED
  BY <1>0, <1>5, <1>6 DEF T

LEMMA Retyped ==
  ASSUME NEW S, NEW R, NEW seq \in Seq(S), ToSet(seq) \subseteq R
  PROVE  seq \in Seq(R)
<1>1. DOMAIN seq = 1..Len(seq) /\ Len(seq) \in Nat
  OBVIOUS
<1>2. \A k \in 1..Len(seq) : seq[k] \in R
  BY <1>1 DEF ToSet
<1> QED
  BY <1>1, <1>2

LEMMA ThoseEntries ==
  ASSUME NEW S, NEW seq \in Seq(S), NEW R
  PROVE  /\ Those(seq, R) \in Seq(S)
         /\ ToSet(Those(seq, R)) = ToSet(seq) \cap R
         /\ Those(seq, R) \in Seq(R)
<1> DEFINE places == {i \in DOMAIN seq : seq[i] \in R}
<1>1. /\ Picked(seq, places) \in Seq(S)
      /\ ToSet(Picked(seq, places)) = {seq[x] : x \in {y \in DOMAIN seq : y \in places}}
  BY PickedEntries
<1>2. {seq[x] : x \in {y \in DOMAIN seq : y \in places}} = ToSet(seq) \cap R
  BY DEF ToSet
<1>3. Those(seq, R) = Picked(seq, places)
  BY DEF Those
<1> HIDE DEF places
<1>4. Those(seq, R) \in Seq(S) /\ ToSet(Those(seq, R)) = ToSet(seq) \cap R
  BY <1>1, <1>2, <1>3
<1> QED
  BY <1>4, Retyped

Begins(S, front, seq) == \E c \in Seq(S) : seq = front \o c

\* What begins a sequence begins it with an entry appended to it.
LEMMA BeginsAppended ==
  ASSUME NEW S, NEW front \in Seq(S), NEW seq, Begins(S, front, seq), NEW e \in S
  PROVE  Begins(S, front, Append(seq, e))
<1>1. PICK c \in Seq(S) : seq = front \o c
  BY DEF Begins
<1>2. Append(c, e) = c \o <<e>> /\ <<e>> \in Seq(S)
  BY AppendIsConcat
<1>3. PICK whole \in Seq(S) : whole = front \o c
  BY ConcatProperties
<1>4. Append(whole, e) = whole \o <<e>>
  BY AppendIsConcat
<1>5. (front \o c) \o <<e>> = front \o (c \o <<e>>)
  BY <1>2, ConcatAssociative
<1>6. Append(c, e) \in Seq(S)
  BY AppendProperties
<1>7. Append(seq, e) = front \o Append(c, e)
  BY <1>1, <1>2, <1>3, <1>4, <1>5
<1> QED
  BY <1>6, <1>7 DEF Begins

\* What is picked of a beginning is a beginning of what is picked.
LEMMA ThoseOfBoth ==
  ASSUME NEW S, NEW a \in Seq(S), NEW b \in Seq(S), NEW R
  PROVE  Begins(S, Those(a, R), Those(a \o b, R))
<1> DEFINE both == a \o b
           places == {i \in DOMAIN both : both[i] \in R}
           first == {i \in DOMAIN a : a[i] \in R}
           m == Len(a)
           n == Len(both)
<1>0. /\ both \in Seq(S) /\ m \in Nat /\ n \in Nat /\ m <= n /\ DOMAIN a = 1..m /\ DOMAIN both = 1..n
      /\ \A k \in 1..m : both[k] = a[k]
  BY ConcatProperties
<1> HIDE DEF both
<1>1. PICK f : Picks(both, places, n, f)
  BY <1>0, PicksExist
<1>2. PICK g : Picks(a, first, m, g)
  BY <1>0, PicksExist
<1>3. Picked(both, places) = f[n] /\ Picked(a, first) = g[m]
  BY <1>0, <1>1, <1>2, PickedIs
<1>4. f[m] = g[m]
  <2> DEFINE T == {k \in 0..m : f[k] = g[k]}
  <2>0. \A k \in 0..m : k \in 0..n
    BY <1>0
  <2>1. 0 \in T
    <3>1. f[0] = <<>> /\ g[0] = <<>>
      BY <1>0, <1>1, <1>2 DEF Picks, Picking
    <3> QED
      BY <1>0, <3>1
  <2>2. ASSUME NEW k \in 1..m, k - 1 \in T PROVE k \in T
    <3>1. k \in 0..m /\ k \in 0..n /\ f[k - 1] = g[k - 1] /\ k # 0
      BY <1>0, <2>2
    <3>2. f[k] = Picking(both, places, f, k) /\ g[k] = Picking(a, first, g, k)
      BY <1>1, <1>2, <3>1 DEF Picks
    <3>3. (k \in places <=> k \in first) /\ both[k] = a[k]
      BY <1>0, <3>1
    <3> QED
      BY <3>1, <3>2, <3>3 DEF Picking
  <2> HIDE DEF T
  <2>3. 0..m \subseteq T
    BY <1>0, <2>1, <2>2, UpToN
  <2>4. m \in T
    BY <1>0, <2>3
  <2> QED
    BY <2>4 DEF T
<1>5. g[m] \in Seq(S)
  BY <1>3, PickedEntries
<1> DEFINE Longer(k) == Begins(S, g[m], f[k])
           T == {k \in 0..n : k < m \/ Longer(k)}
<1>6. 0 \in T
  <2>1. CASE m = 0
    <3>1. g[m] \o <<>> = g[m]
      BY <1>5, ConcatEmptySeq
    <3>2. f[0] = g[m] \o <<>> /\ <<>> \in Seq(S)
      BY <1>4, <2>1, <3>1
    <3>3. Longer(0)
      BY <3>2 DEF Begins
    <3> HIDE DEF Longer
    <3> QED
      BY <1>0, <3>3
  <2>2. CASE m # 0
    BY <1>0, <2>2
  <2> QED
    BY <2>1, <2>2
<1>7. ASSUME NEW k \in 1..n, k - 1 \in T PROVE k \in T
  <2>1. k \in 0..n /\ k # 0 /\ both[k] \in S /\ k \in Nat
    BY <1>0
  <2>2. f[k] = Picking(both, places, f, k)
    BY <1>1, <2>1 DEF Picks
  <2>3. CASE k < m
    BY <2>1, <2>3
  <2>4. CASE k = m
    <3>1. g[m] \o <<>> = g[m] /\ <<>> \in Seq(S)
      BY <1>5, ConcatEmptySeq
    <3>2. Longer(k)
      BY <1>4, <2>4, <3>1 DEF Begins
    <3> HIDE DEF Longer
    <3> QED
      BY <2>1, <3>2
  <2>5. CASE k > m
    <3>0. k - 1 \in T /\ ~(k - 1 < m)
      <4>1. k \in Nat /\ m \in Nat => ~(k - 1 < m)
        BY <2>5
      <4> QED
        BY <1>0, <1>7, <2>1, <4>1
    <3>1. Longer(k - 1)
      BY <3>0
    <3>2. CASE k \in places
      <4>1. f[k] = Append(f[k - 1], both[k])
        BY <2>1, <2>2, <3>2 DEF Picking
      <4>2. Longer(k)
        BY <1>5, <2>1, <3>1, <4>1, BeginsAppended
      <4> QED
        BY <2>1, <4>2
    <3>3. CASE k \notin places
      <4>1. f[k] = f[k - 1]
        BY <2>1, <2>2, <3>3 DEF Picking
      <4>2. Longer(k)
        BY <3>1, <4>1
      <4> QED
        BY <2>1, <4>2
    <3> QED
      BY <3>2, <3>3
  <2>6. k < m \/ k = m \/ k > m
    <3>1. \A u, v \in Nat : u < v \/ u = v \/ u > v
      OBVIOUS
    <3> QED
      BY <1>0, <2>1, <3>1
  <2> QED
    BY <2>3, <2>4, <2>5, <2>6
<1> HIDE DEF T
<1>8. 0..n \subseteq T
  BY <1>0, <1>6, <1>7, UpToN
<1>9. n \in T
  BY <1>0, <1>8
<1>10. Begins(S, g[m], f[n])
  <2>1. ~(n < m)
    <3>1. \A u, v \in Nat : u <= v => ~(v < u)
      OBVIOUS
    <3> QED
      BY <1>0, <3>1
  <2>2. Longer(n)
    <3> HIDE DEF Longer
    <3> QED
      BY <1>9, <2>1 DEF T
  <2> QED
    BY <2>2
<1>11. Those(both, R) = Picked(both, places) /\ Those(a, R) = Picked(a, first)
  BY DEF Those
<1> QED
  BY <1>3, <1>10, <1>11 DEF both, Begins

----------------------------------------------------------------------------
\* Parts of a sequence.

LEMMA FirstIs ==
  ASSUME NEW S, NEW seq \in Seq(S), NEW n \in Nat
  PROVE  /\ First(seq, n) \in Seq(S)
         /\ Len(First(seq, n)) = Least(n, Len(seq))
         /\ \A i \in 1..Least(n, Len(seq)) : First(seq, n)[i] = seq[i]
<1>1. Len(seq) \in Nat /\ \A i \in 1..Len(seq) : seq[i] \in S
  OBVIOUS
<1>2. PICK e : e = Least(n, Len(seq))
  OBVIOUS
<1>3. e \in 0..Len(seq)
  BY <1>1, <1>2 DEF Least
<1>4. \A i \in 1..e : seq[i] \in S
  BY <1>1, <1>3
<1>5. /\ SubSeq(seq, 1, e) \in Seq(S) /\ Len(SubSeq(seq, 1, e)) = e
      /\ \A i \in 1..e : SubSeq(seq, 1, e)[i] = seq[i]
  BY <1>3, <1>4, SubSeqProperties
<1> QED
  BY <1>2, <1>5 DEF First

LEMMA FromIs ==
  ASSUME NEW S, NEW seq \in Seq(S), NEW start \in Nat, NEW n \in Nat
  PROVE  /\ From(seq, start, n) \in Seq(S)
         /\ Len(From(seq, start, n)) <= n
         /\ start <= Len(seq) =>
              Len(From(seq, start, n)) = Least(start + n, Len(seq)) - start
         /\ \A i \in 1..Len(From(seq, start, n)) :
              start + i \in DOMAIN seq /\ From(seq, start, n)[i] = seq[start + i]
<1>1. Len(seq) \in Nat /\ DOMAIN seq = 1..Len(seq) /\ \A i \in 1..Len(seq) : seq[i] \in S
  OBVIOUS
<1>2. PICK e : e = Least(start + n, Len(seq))
  OBVIOUS
<1>3. e \in 0..Len(seq) /\ e <= start + n /\ (start <= Len(seq) => start <= e)
  <2>1. \A s, k, l \in Nat : /\ Least(s + k, l) \in 0..l /\ Least(s + k, l) <= s + k
                            /\ (s <= l => s <= Least(s + k, l))
    BY DEF Least
  <2> QED
    BY <1>1, <1>2, <2>1
<1>4. \A i \in (start + 1)..e : seq[i] \in S
  BY <1>1, <1>3
<1>5. /\ SubSeq(seq, start + 1, e) \in Seq(S)
      /\ Len(SubSeq(seq, start + 1, e)) = IF start + 1 <= e THEN e - (start + 1) + 1 ELSE 0
      /\ \A i \in 1..(e - (start + 1) + 1) :
           SubSeq(seq, start + 1, e)[i] = seq[(start + 1) + i - 1]
  <2>1. start + 1 \in Int /\ e \in Int
    BY <1>3
  <2> QED
    BY <1>4, <2>1, SubSeqProperties
<1>6. From(seq, start, n) = SubSeq(seq, start + 1, e)
  BY <1>2 DEF From
<1>7. PICK l : l = Len(SubSeq(seq, start + 1, e))
  OBVIOUS
<1>8. l \in Nat /\ l <= n /\ (start <= Len(seq) => l = e - start)
  BY <1>3, <1>5, <1>7
<1>9. ASSUME NEW i \in 1..l
      PROVE  start + i \in 1..Len(seq) /\ SubSeq(seq, start + 1, e)[i] = seq[start + i]
  <2>1. i \in 1..(e - (start + 1) + 1) /\ (start + 1) + i - 1 = start + i
        /\ start + i \in 1..Len(seq)
    BY <1>1, <1>3, <1>5, <1>7, <1>9
  <2> QED
    BY <1>5, <2>1
<1> QED
  BY <1>1, <1>2, <1>5, <1>6, <1>7, <1>8, <1>9

\* A sequence whatever its entries.
Sequence(seq) == seq \in Seq(ToSet(seq))

LEMMA SequenceIs ==
  ASSUME NEW S, NEW seq \in Seq(S)
  PROVE  Sequence(seq) /\ DOMAIN seq = 1..Len(seq) /\ Len(seq) \in Nat
<1>1. seq \in Seq(ToSet(seq))
  BY Retyped
<1> QED
  BY <1>1 DEF Sequence

LEMMA OneMore ==
  ASSUME NEW seq, Sequence(seq), NEW e
  PROVE  /\ Sequence(Append(seq, e)) /\ Len(Append(seq, e)) = Len(seq) + 1
         /\ Len(seq) \in Nat /\ DOMAIN seq = 1..Len(seq)
         /\ DOMAIN Append(seq, e) = 1..(Len(seq) + 1)
         /\ \A i \in 1..Len(seq) : Append(seq, e)[i] = seq[i]
         /\ Append(seq, e)[Len(seq) + 1] = e
         /\ ToSet(Append(seq, e)) = ToSet(seq) \cup {e}
<1> DEFINE S == ToSet(seq) \cup {e}
<1>1. seq \in Seq(ToSet(seq)) /\ ToSet(seq) \subseteq S /\ e \in S
  BY DEF Sequence
<1> HIDE DEF S
<1>2. seq \in Seq(S)
  BY <1>1, Retyped
<1>3. /\ Append(seq, e) \in Seq(S) /\ Len(Append(seq, e)) = Len(seq) + 1
      /\ \A i \in 1..Len(seq) : Append(seq, e)[i] = seq[i]
      /\ Append(seq, e)[Len(seq) + 1] = e
  BY <1>1, <1>2, AppendProperties
<1>4. Len(seq) \in Nat /\ DOMAIN seq = 1..Len(seq)
  BY <1>1
<1>5. Sequence(Append(seq, e)) /\ DOMAIN Append(seq, e) = 1..(Len(seq) + 1)
  BY <1>3, SequenceIs
<1>6. ToSet(Append(seq, e)) = ToSet(seq) \cup {e}
  <2>1. \A i : i \in 1..(Len(seq) + 1) <=> i \in 1..Len(seq) \/ i = Len(seq) + 1
    BY <1>4
  <2> QED
    BY <1>3, <1>4, <1>5, <2>1 DEF ToSet
<1> QED
  BY <1>3, <1>4, <1>5, <1>6


----------------------------------------------------------------------------
\* The links follow the rows that have been read.

RowsOf(d, n, key) == {d[x] : x \in {y \in 1..n : d[y].key = key /\ d[y].repo # None}}

LinkOK(link, d, n) ==
  /\ link = [key |-> link.key, title |-> link.title, repos |-> link.repos]
  /\ link.key # None
  /\ Sequence(link.repos)
  /\ ToSet(link.repos) = RowsOf(d, n, link.key)
  /\ \E y \in 1..n : /\ d[y].key = link.key /\ d[y].repo # None
                     /\ d[y].title = link.title

\* Every link holds the rows with its key, and every row with a key and a
\* repository is in one link.
Follows(links, d, n) ==
  /\ Sequence(links)
  /\ \A i \in DOMAIN links : LinkOK(links[i], d, n)
  /\ \A i, k \in DOMAIN links : links[i].key = links[k].key => i = k
  /\ \A y \in 1..n : None \notin {d[y].key, d[y].repo} =>
                       \E i \in DOMAIN links : links[i].key = d[y].key

LEMMA RowsGrow ==
  ASSUME NEW d, NEW n \in Nat, NEW key
  PROVE  /\ d[n + 1].key = key /\ d[n + 1].repo # None =>
              RowsOf(d, n + 1, key) = RowsOf(d, n, key) \cup {d[n + 1]}
         /\ ~(d[n + 1].key = key /\ d[n + 1].repo # None) =>
              RowsOf(d, n + 1, key) = RowsOf(d, n, key)
<1>1. \A y : y \in 1..(n + 1) <=> y \in 1..n \/ y = n + 1
  OBVIOUS
<1> QED
  BY <1>1 DEF RowsOf

\* A link that does not get the row is as right as before.
LEMMA LinkKept ==
  ASSUME NEW d, NEW n \in Nat, NEW link, LinkOK(link, d, n),
         ~(d[n + 1].key = link.key /\ d[n + 1].repo # None)
  PROVE  LinkOK(link, d, n + 1)
<1>1. RowsOf(d, n + 1, link.key) = RowsOf(d, n, link.key)
  BY RowsGrow
<1>2. 1..n \subseteq 1..(n + 1)
  OBVIOUS
<1> QED
  BY <1>1, <1>2 DEF LinkOK

Extended(link, row) == [link EXCEPT !.repos = Append(@, row)]

LEMMA LinkGrows ==
  ASSUME NEW d, NEW n \in Nat, NEW link, LinkOK(link, d, n),
         d[n + 1].key = link.key, d[n + 1].repo # None
  PROVE  /\ LinkOK(Extended(link, d[n + 1]), d, n + 1)
         /\ Extended(link, d[n + 1]).key = link.key
<1>1. PICK new : new = Extended(link, d[n + 1])
  OBVIOUS
<1>2. new = [key |-> link.key, title |-> link.title, repos |-> Append(link.repos, d[n + 1])]
  BY <1>1 DEF LinkOK, Extended
<1>3. /\ Sequence(Append(link.repos, d[n + 1]))
      /\ ToSet(Append(link.repos, d[n + 1])) = ToSet(link.repos) \cup {d[n + 1]}
  BY OneMore DEF LinkOK
<1>4. RowsOf(d, n + 1, link.key) = RowsOf(d, n, link.key) \cup {d[n + 1]}
  BY RowsGrow
<1>5. \E y \in 1..(n + 1) : d[y].key = link.key /\ d[y].repo # None /\ d[y].title = link.title
  <2>1. 1..n \subseteq 1..(n + 1)
    OBVIOUS
  <2> QED
    BY <2>1 DEF LinkOK
<1>6. link.key # None /\ ToSet(link.repos) = RowsOf(d, n, link.key)
  BY DEF LinkOK
<1>7. /\ new.key = link.key /\ new.title = link.title
      /\ new.repos = Append(link.repos, d[n + 1])
  BY <1>2
<1>8. LinkOK(new, d, n + 1)
  BY <1>2, <1>3, <1>4, <1>5, <1>6, <1>7 DEF LinkOK
<1> QED
  BY <1>1, <1>7, <1>8

LEMMA MergeFollows ==
  ASSUME NEW d, NEW n \in Nat, NEW links, Follows(links, d, n)
  PROVE  Follows(Merge(links, d[n + 1]), d, n + 1)
<1> DEFINE row == d[n + 1]
           mine == {i \in DOMAIN links : links[i].key = row.key}
<1>1. PICK after : after = Merge(links, row)
  OBVIOUS
<1>2. \A y : y \in 1..(n + 1) <=> y \in 1..n \/ y = n + 1
  OBVIOUS
<1>3. /\ Sequence(links) /\ DOMAIN links = 1..Len(links) /\ Len(links) \in Nat
      /\ \A i \in DOMAIN links : LinkOK(links[i], d, n)
  BY SequenceIs DEF Follows, Sequence
<1>4. CASE None \in {row.key, row.repo}
  <2>1. after = links
    BY <1>1, <1>4 DEF Merge
  <2>2. \A i \in DOMAIN links : LinkOK(links[i], d, n + 1)
    BY <1>3, <1>4, LinkKept DEF LinkOK
  <2> QED
    BY <1>1, <1>2, <1>4, <2>1, <2>2 DEF Follows
<1>5. CASE None \notin {row.key, row.repo} /\ mine # {}
  <2>1. after = [i \in DOMAIN links |->
                   IF links[i].key = row.key
                   THEN [links[i] EXCEPT !.repos = Append(@, row)] ELSE links[i]]
    BY <1>1, <1>5 DEF Merge
  <2>2. ASSUME NEW i \in DOMAIN links
        PROVE  after[i].key = links[i].key /\ LinkOK(after[i], d, n + 1)
    <3>1. CASE links[i].key = row.key
      <4>1. PICK link : link = links[i]
        OBVIOUS
      <4>2. LinkOK(link, d, n) /\ d[n + 1].key = link.key /\ d[n + 1].repo # None
        BY <1>3, <1>5, <3>1, <4>1
      <4>3. after[i] = Extended(link, d[n + 1])
        BY <2>1, <3>1, <4>1 DEF Extended
      <4> HIDE DEF row
      <4>4. LinkOK(after[i], d, n + 1) /\ after[i].key = link.key
        BY <4>2, <4>3, LinkGrows
      <4> QED
        BY <4>1, <4>4
    <3>2. CASE links[i].key # row.key
      BY <1>3, <2>1, <3>2, LinkKept
    <3> QED
      BY <3>1, <3>2
  <2>3. DOMAIN after = DOMAIN links
    BY <2>1
  <2>4. Sequence(after)
    <3>1. after = [i \in 1..Len(links) |-> after[i]]
      BY <1>3, <2>1
    <3>2. \A i \in 1..Len(links) : after[i] \in ToSet(after)
      BY <1>3, <2>3 DEF ToSet
    <3>3. PICK S : S = ToSet(after)
      OBVIOUS
    <3>4. after \in [1..Len(links) -> S]
      BY <3>1, <3>2, <3>3
    <3>5. after \in Seq(S)
      BY <1>3, <3>4
    <3> QED
      BY <3>3, <3>5 DEF Sequence
  <2> QED
    BY <1>1, <1>2, <1>5, <2>2, <2>3, <2>4 DEF Follows
<1>6. CASE None \notin {row.key, row.repo} /\ mine = {}
  <2> DEFINE link == [key |-> row.key, title |-> row.title, repos |-> <<row>>]
  <2>1. after = Append(links, link)
    BY <1>1, <1>6 DEF Merge
  <2>2. RowsOf(d, n, row.key) = {}
    BY <1>6 DEF Follows, RowsOf
  <2>3. LinkOK(link, d, n + 1)
    <3>1. RowsOf(d, n + 1, row.key) = {row}
      <4>1. RowsOf(d, n + 1, row.key) = RowsOf(d, n, row.key) \cup {d[n + 1]}
        BY <1>6, RowsGrow
      <4> QED
        BY <2>2, <4>1
    <3>2. Sequence(<<row>>) /\ ToSet(<<row>>) = {row}
      BY DEF Sequence, ToSet
    <3> QED
      BY <1>2, <1>6, <3>1, <3>2 DEF LinkOK
  <2> HIDE DEF link
  <2>4. /\ Sequence(after) /\ DOMAIN after = 1..(Len(links) + 1)
        /\ \A i \in 1..Len(links) : after[i] = links[i]
        /\ after[Len(links) + 1] = link
    BY <1>3, <2>1, OneMore
  <2>5. \A i : i \in DOMAIN after <=> i \in DOMAIN links \/ i = Len(links) + 1
    BY <1>3, <2>4
  <2>6. link.key = row.key
    BY DEF link
  <2>7. \A i \in DOMAIN links : LinkOK(links[i], d, n + 1) /\ links[i].key # row.key
    BY <1>3, <1>6, LinkKept
  <2>8. \A i \in DOMAIN after : LinkOK(after[i], d, n + 1)
    BY <1>3, <2>3, <2>4, <2>5, <2>7
  <2>9. \A i, k \in DOMAIN after : after[i].key = after[k].key => i = k
    BY <1>3, <2>4, <2>5, <2>6, <2>7 DEF Follows
  <2>10. \A y \in 1..(n + 1) : None \notin {d[y].key, d[y].repo} =>
                                \E i \in DOMAIN after : after[i].key = d[y].key
    BY <1>2, <1>3, <2>4, <2>5, <2>6 DEF Follows
  <2> QED
    BY <1>1, <2>4, <2>8, <2>9, <2>10 DEF Follows
<1> QED
  BY <1>4, <1>5, <1>6


Merging(links, rows, f, k) == IF k = 0 THEN links ELSE Merge(f[k - 1], rows[k])
Merges(links, rows, n, f) == f = [k \in 0..n |-> Merging(links, rows, f, k)]

LEMMA MergesExist ==
  ASSUME NEW links, NEW rows, NEW n \in Nat
  PROVE  \E f : Merges(links, rows, n, f)
<1> DEFINE T == {k \in Nat : \E f : Merges(links, rows, k, f)}
<1>1. 0 \in T
  <2> DEFINE f == [k \in 0..0 |-> links]
  <2>1. Merges(links, rows, 0, f)
    BY DEF Merges, Merging
  <2> QED
    BY <2>1
<1>2. ASSUME NEW k \in 1..n, k - 1 \in T PROVE k \in T
  <2>1. PICK f : Merges(links, rows, k - 1, f)
    BY <1>2
  <2> DEFINE g == [j \in 0..k |-> Merging(links, rows, f, j)]
  <2>2. \A j \in 0..(k - 1) : g[j] = f[j]
    BY <2>1 DEF Merges
  <2>3. ASSUME NEW j \in 0..k PROVE Merging(links, rows, g, j) = Merging(links, rows, f, j)
    <3>1. j # 0 => j - 1 \in 0..(k - 1)
      OBVIOUS
    <3>2. j # 0 => g[j - 1] = f[j - 1]
      BY <2>2, <3>1
    <3> QED
      BY <3>2 DEF Merging
  <2>4. Merges(links, rows, k, g)
    BY <2>3 DEF Merges
  <2> HIDE DEF g
  <2> QED
    BY <2>4
<1> HIDE DEF T
<1>3. 0..n \subseteq T
  BY <1>1, <1>2, UpToN
<1>4. n \in T
  BY <1>3
<1> QED
  BY <1>4 DEF T

LEMMA MergesUnique ==
  ASSUME NEW links, NEW rows, NEW n \in Nat, NEW f, NEW g,
         Merges(links, rows, n, f), Merges(links, rows, n, g)
  PROVE  f = g
<1> DEFINE T == {k \in 0..n : f[k] = g[k]}
<1>1. 0 \in T
  BY DEF Merges, Merging
<1>2. ASSUME NEW k \in 1..n, k - 1 \in T PROVE k \in T
  <2>1. k \in 0..n /\ f[k - 1] = g[k - 1]
    BY <1>2
  <2>2. f[k] = Merging(links, rows, f, k) /\ g[k] = Merging(links, rows, g, k)
    BY <2>1 DEF Merges
  <2> QED
    BY <2>1, <2>2 DEF Merging
<1> HIDE DEF T
<1>3. 0..n \subseteq T
  BY <1>1, <1>2, UpToN
<1>4. f = [k \in 0..n |-> f[k]] /\ g = [k \in 0..n |-> g[k]]
  BY DEF Merges
<1> QED
  BY <1>3, <1>4 DEF T

LEMMA MergedIs ==
  ASSUME NEW links, NEW rows, Len(rows) \in Nat, NEW f, Merges(links, rows, Len(rows), f)
  PROVE  Merged(links, rows) = f[Len(rows)]
<1>1. \A g : Merges(links, rows, Len(rows), g) <=> g = f
  BY MergesUnique
<1> QED
  BY <1>1 DEF Merged, Merges, Merging

\* Links that follow the rows read so far, with a page merged into them, follow
\* the rows with that page.
LEMMA MergedFollows ==
  ASSUME NEW d, NEW n \in Nat, NEW links, Follows(links, d, n),
         NEW rows, Len(rows) \in Nat,
         \A i \in 1..Len(rows) : rows[i] = d[n + i]
  PROVE  Follows(Merged(links, rows), d, n + Len(rows))
<1>1. PICK l \in Nat : l = Len(rows)
  OBVIOUS
<1>2. PICK f : Merges(links, rows, l, f)
  BY MergesExist
<1> DEFINE T == {k \in 0..l : Follows(f[k], d, n + k)}
<1>3. 0 \in T
  <2>1. f[0] = links /\ n + 0 = n
    BY <1>2 DEF Merges, Merging
  <2> QED
    BY <2>1
<1>4. ASSUME NEW k \in 1..l, k - 1 \in T PROVE k \in T
  <2>1. k \in 0..l /\ k # 0 /\ (n + (k - 1)) + 1 = n + k /\ n + (k - 1) \in Nat
    OBVIOUS
  <2>2. f[k] = Merge(f[k - 1], rows[k])
    BY <1>2, <2>1 DEF Merges, Merging
  <2>3. rows[k] = d[(n + (k - 1)) + 1]
    BY <1>1, <2>1
  <2>4. Follows(f[k - 1], d, n + (k - 1))
    BY <1>4
  <2>5. Follows(Merge(f[k - 1], rows[k]), d, (n + (k - 1)) + 1)
    BY <2>1, <2>3, <2>4, MergeFollows
  <2>6. Follows(f[k], d, n + k)
    BY <2>1, <2>2, <2>5
  <2> QED
    BY <2>1, <2>6
<1> HIDE DEF T
<1>5. 0..l \subseteq T
  BY <1>3, <1>4, UpToN
<1>6. l \in T
  BY <1>5
<1>7. Merged(links, rows) = f[l]
  BY <1>1, <1>2, MergedIs
<1> QED
  BY <1>1, <1>6, <1>7 DEF T


----------------------------------------------------------------------------
\* What the run holds.

\* The links of the rows read, papers by id, and the papers of the run, of which
\* as many are recorded as have been worked on: none before they are joined.
HeldInv ==
  /\ phase \in {"links", "ids", "listing", "join", "metrics", "over"}
  /\ limit \in Limits /\ recent \in Since /\ dataset \in Dataset
  /\ offset \in 0..RowLimit /\ offset <= Len(dataset) /\ batch \in Nat
  /\ Follows(mappings, dataset, offset)
  /\ byId \in Seq(Paper) /\ joined \in Seq(Paper)
  /\ listing \in {"whole", "short", "failed"}
  /\ Len(joined) <= limit
  /\ Sequence(records) /\ at \in Nat /\ Len(records) = at - 1 /\ at - 1 <= Len(joined)
  /\ phase \notin {"metrics", "over"} => at = 1

LEMMA BatchIs ==
  ASSUME HeldInv
  PROVE  Batch \in Seq(Paper)
<1> DEFINE keys == [i \in DOMAIN mappings |-> mappings[i].key]
<1>1. DOMAIN mappings = 1..Len(mappings) /\ Len(mappings) \in Nat
  BY SequenceIs DEF HeldInv, Follows, Sequence
<1>2. PICK S : S = {mappings[i].key : i \in DOMAIN mappings}
  OBVIOUS
<1>3. keys \in Seq(S)
  BY <1>1, <1>2
<1> HIDE DEF keys
<1>4. Those(keys, Paper) \in Seq(Paper)
  BY <1>3, ThoseEntries
<1>5. 2 * limit \in Nat /\ BatchSize \in Nat /\ batch \in Nat
  BY HarvestAssumption DEF HeldInv
<1>6. First(Those(keys, Paper), 2 * limit) \in Seq(Paper)
  BY <1>4, <1>5, FirstIs
<1>7. Ids \in Seq(Paper)
  BY <1>6 DEF Ids, keys
<1> QED
  BY <1>5, <1>7, FromIs DEF Batch

\* The rows of a page are the next of the dataset, and no more than are asked for.
LEMMA RowsAre ==
  ASSUME HeldInv, NEW rows, rows = From(dataset, offset, PageLength)
  PROVE  /\ Len(rows) \in Nat /\ offset + Len(rows) \in 0..RowLimit
         /\ offset + Len(rows) <= Len(dataset)
         /\ \A i \in 1..Len(rows) : rows[i] = dataset[offset + i]
<1>1. /\ limit \in Nat /\ PageSize \in Nat /\ offset \in 0..RowLimit /\ RowLimit \in Nat
      /\ dataset \in Seq(ToSet(dataset)) /\ offset <= Len(dataset)
  BY HarvestAssumption DEF HeldInv, RowLimit
<1>2. PageLength \in Nat /\ PageLength <= RowLimit - offset
  BY <1>1 DEF PageLength, Least
<1>3. PICK S : S = ToSet(dataset)
  OBVIOUS
<1>4. dataset \in Seq(S) /\ Len(dataset) \in Nat /\ offset \in Nat
  BY <1>1, <1>3
<1>5. /\ rows \in Seq(S) /\ Len(rows) <= PageLength
      /\ Len(rows) = Least(offset + PageLength, Len(dataset)) - offset
      /\ \A i \in 1..Len(rows) : rows[i] = dataset[offset + i]
  BY <1>1, <1>2, <1>4, FromIs
<1>6. \A o, p, l \in Nat : o <= l =>
        o + (Least(o + p, l) - o) <= l
  BY DEF Least
<1> QED
  BY <1>1, <1>2, <1>4, <1>5, <1>6

LEMMA JoinIs ==
  ASSUME HeldInv, ListingInv
  PROVE  /\ Papers \in Seq(Paper) /\ Those(Papers, recent) \in Seq(Paper)
         /\ Join \in Seq(Paper) /\ Len(Join) = Least(limit, Len(Those(Papers, recent)))
         /\ \A i \in 1..Len(Join) : Join[i] = Those(Papers, recent)[i]
<1> DEFINE places == {i \in DOMAIN listed : /\ listed[i] \notin ToSet(byId)
                                            /\ \A j \in 1..(i - 1) : listed[j] # listed[i]}
<1>1. byId \in Seq(Paper) /\ listed \in Seq(Paper) /\ limit \in Nat
  BY HarvestAssumption DEF HeldInv, ListingInv
<1>2. Picked(listed, places) \in Seq(Paper)
  BY <1>1, PickedEntries
<1>3. Union = byId \o Picked(listed, places)
  BY DEF Union
<1> HIDE DEF places
<1>4. Union \in Seq(Paper)
  BY <1>1, <1>2, <1>3, ConcatProperties
<1>5. Papers \in Seq(Paper)
  BY <1>4 DEF Papers
<1>6. Those(Papers, recent) \in Seq(Paper)
  BY <1>5, ThoseEntries
<1> QED
  BY <1>1, <1>5, <1>6, FirstIs DEF Join

LEMMA HeldInitially == Init => HeldInv
<1> SUFFICES ASSUME Init PROVE HeldInv
  OBVIOUS
<1>1. /\ limit \in Limits /\ recent \in Since /\ dataset \in Dataset /\ limit \in Nat
      /\ dataset \in Seq(ToSet(dataset))
  BY HarvestAssumption DEF Init
<1>2. Sequence(<<>>) /\ DOMAIN <<>> = {}
  BY DEF Sequence
<1>3. Follows(<<>>, dataset, 0)
  BY <1>2 DEF Follows
<1>4. Len(dataset) \in Nat /\ RowLimit \in Nat
  BY <1>1 DEF RowLimit
<1> QED
  BY <1>1, <1>2, <1>3, <1>4 DEF Init, HeldInv

LEMMA HeldStep == HeldInv /\ ListingInv /\ [Next]_vars => HeldInv'
<1> SUFFICES ASSUME HeldInv, ListingInv, [Next]_vars PROVE HeldInv'
  OBVIOUS
<1> USE DEF source
<1>1. CASE ReadRows
  <2>1. PICK rows : rows = From(dataset, offset, PageLength)
    OBVIOUS
  <2>2. /\ Len(rows) \in Nat /\ offset + Len(rows) \in 0..RowLimit
        /\ offset + Len(rows) <= Len(dataset)
        /\ \A i \in 1..Len(rows) : rows[i] = dataset[offset + i]
    BY <2>1, RowsAre
  <2>3. /\ mappings' = Merged(mappings, rows) /\ offset' = offset + Len(rows)
        /\ phase = "links" /\ phase' \in {"links", "ids"}
        /\ UNCHANGED <<limit, recent, dataset, batch, byId, listing, joined, at, records>>
    BY <1>1, <2>1 DEF ReadRows
  <2>4. offset \in Nat /\ Follows(mappings, dataset, offset)
    BY DEF HeldInv
  <2>5. Follows(Merged(mappings, rows), dataset, offset + Len(rows))
    BY <2>2, <2>4, MergedFollows
  <2> QED
    BY <2>2, <2>3, <2>5 DEF HeldInv, RowLimit
<1>2. ASSUME NEW answered, ReadBatch(answered) PROVE HeldInv'
  <2>1. /\ byId' = byId \o Those(Batch, answered) /\ batch' = batch + BatchSize
        /\ UNCHANGED <<limit, recent, dataset, phase, offset, mappings, listing, joined, at,
                       records>>
    BY <1>2 DEF ReadBatch
  <2>2. Those(Batch, answered) \in Seq(Paper)
    BY BatchIs, ThoseEntries
  <2>3. byId' \in Seq(Paper) /\ batch' \in Nat
    <3>1. byId \in Seq(Paper) /\ batch \in Nat /\ BatchSize \in Nat
      BY HarvestAssumption DEF HeldInv
    <3> QED
      BY <2>1, <2>2, <3>1, ConcatProperties
  <2> QED
    BY <2>1, <2>3 DEF HeldInv, RowLimit
<1>3. CASE JoinPapers
  <2>1. /\ joined' = Join /\ phase = "join" /\ phase' = "metrics"
        /\ UNCHANGED <<limit, recent, dataset, offset, mappings, batch, byId, listing, at,
                       records>>
    BY <1>3 DEF JoinPapers
  <2>2. Join \in Seq(Paper) /\ Len(Join) <= limit /\ at = 1 /\ Len(Join) \in Nat
    <3>1. /\ Join \in Seq(Paper) /\ Len(Join) = Least(limit, Len(Those(Papers, recent)))
          /\ Those(Papers, recent) \in Seq(Paper)
      BY JoinIs
    <3>2. limit \in Nat /\ at = 1
      BY <2>1, HarvestAssumption DEF HeldInv
    <3>3. \A k, l \in Nat : Least(k, l) <= k
      BY DEF Least
    <3>4. Len(Join) \in Nat /\ Len(Those(Papers, recent)) \in Nat
      BY <3>1
    <3> QED
      BY <3>1, <3>2, <3>3, <3>4
  <2>3. joined' \in Seq(Paper) /\ Len(joined') <= limit' /\ at' - 1 <= Len(joined')
    BY <2>1, <2>2
  <2> QED
    BY <2>1, <2>3 DEF HeldInv, RowLimit
<1>4. CASE Build
  <2>1. /\ records' = Append(records, Record) /\ at' = at + 1 /\ phase = "metrics"
        /\ at \in DOMAIN joined
        /\ UNCHANGED <<limit, recent, dataset, phase, offset, mappings, batch, byId, listing,
                       joined>>
    BY <1>4 DEF Build, InWork, harvested
  <2>2. Sequence(records') /\ Len(records') = Len(records) + 1
    BY <2>1, OneMore DEF HeldInv
  <2>3. at \in 1..Len(joined) /\ at \in Nat /\ Len(records) = at - 1
    BY <2>1 DEF HeldInv
  <2> QED
    BY <2>1, <2>2, <2>3 DEF HeldInv, RowLimit
<1>5. CASE UNCHANGED <<offset, mappings, batch, byId, joined, at, records>>
           /\ (phase \in {"metrics", "over"} <=> phase' \in {"metrics", "over"})
           /\ phase' \in {"links", "ids", "listing", "join", "metrics", "over"}
           /\ listing' \in {"whole", "short", "failed"} /\ UNCHANGED source
  BY <1>5 DEF HeldInv, RowLimit
<1>6. CASE \E n \in 0..PageSize : ReadListing(n)
  BY <1>5, <1>6 DEF ReadListing, HeldInv
<1>7. CASE \/ Retry \/ Wake \/ GiveUpRows \/ AllAsked \/ FailListing \/ Complete \/ Arrive
           \/ UNCHANGED vars
  BY <1>5, <1>7 DEF Retry, Wake, GiveUpRows, AllAsked, FailListing, Complete, Arrive, vars,
                    HeldInv
<1>8. CASE \/ Gather \/ Ask
           \/ \E i \in DOMAIN fetch :
                WakeFetch(i) \/ \E a \in {"stars", "temporary", "refused"} : Respond(i, a)
  BY <1>5, <1>8 DEF Gather, Ask, WakeFetch, Respond, harvested, HeldInv
<1> QED
  BY <1>1, <1>2, <1>3, <1>4, <1>6, <1>7, <1>8 DEF Next, Work

\* The run stays within its limit and its dataset, works on its papers one after
\* the other and records each, whatever the servers answer.
THEOREM TypeCorrect == Spec => []TypeOK
<1>1. HeldInv /\ ListingInv /\ RequestsOK => TypeOK
  <2>1. ASSUME NEW S, NEW seq \in Seq(S) PROVE ToSet(seq) \subseteq S
    BY DEF ToSet
  <2> QED
    BY <2>1 DEF HeldInv, ListingInv, TypeOK
<1> QED
  BY <1>1, HeldInitially, HeldStep, ListingInitially, ListingStep, RequestsBounded, PTL
     DEF Spec


----------------------------------------------------------------------------
\* What was found is joined.

\* When the listing was read as a whole, it was read up to its end or up to the
\* limit.  Nothing that the join is made from changes after it.
JoinInv ==
  /\ phase = "listing" => ~Enough
  /\ phase \in {"join", "metrics", "over"} /\ listing = "whole" /\ ~Enough =>
       Len(listed) >= Least(limit, arrived + Len(Listing))
  /\ phase \in {"metrics", "over"} => joined = Join

\* A page that is as long as it was asked to be ends the listing only there.
LEMMA WholeListing ==
  ASSUME HeldInv, ListingInv, JoinInv, NEW n \in 0..PageSize, ReadListing(n),
         phase' = "join", listing' = "whole"
  PROVE  Len(listed') >= Least(limit, arrived + Len(Listing))
<1> DEFINE papers == From(Current, Len(listed), n)
<1>1. /\ Current \in Seq(Paper) /\ Len(Current) = arrived + Len(Listing)
      /\ listed \in Seq(Paper) /\ limit \in Nat /\ arrived \in Nat
      /\ Len(Listing) \in Nat /\ PageSize \in Nat /\ n \in Nat
  BY CurrentIs, HarvestAssumption DEF ListingInv, HeldInv
<1>2. PICK L \in Nat : L = Len(listed)
  BY <1>1
<1>3. PICK C \in Nat : C = Len(Current)
  BY <1>1
<1>4. L <= C
  BY <1>1, <1>2, <1>3 DEF ListingInv, ReadUpTo
<1>5. papers \in Seq(Paper) /\ Len(papers) = Least(L + n, C) - L
  <2>1. From(Current, L, n) \in Seq(Paper)
    BY <1>1, FromIs
  <2>2. PICK now \in Seq(Paper) : now = Current
    BY <1>1
  <2>3. L <= Len(now) => Len(From(now, L, n)) = Least(L + n, Len(now)) - L
    BY <1>1, FromIs
  <2> QED
    BY <1>2, <1>3, <1>4, <2>1, <2>2, <2>3
<1>6. /\ listed' = listed \o papers /\ n <= Wanted
      /\ n < Wanted => listing' = "short"
      /\ Len(papers) < Wanted \/ Len(listed') >= limit
  BY DEF ReadListing, Start, Missing
<1> HIDE DEF papers
<1>7. Len(listed') = L + Len(papers)
  <2>1. Len(listed \o papers) = Len(listed) + Len(papers)
    BY <1>1, <1>5, ConcatProperties
  <2> QED
    BY <1>2, <1>6, <2>1
<1>8. Wanted = Least(PageSize, limit - L)
  BY <1>2 DEF Wanted, Missing
<1>9. n = Wanted
  BY <1>1, <1>2, <1>6, <1>8 DEF Least
<1>10. Least(L + n, C) \in Nat /\ (Least(L + n, C) - L < n => Least(L + n, C) = C)
  BY <1>1 DEF Least
<1>11. Len(listed') = C \/ Len(listed') >= limit
  BY <1>5, <1>6, <1>7, <1>9, <1>10
<1>12. Len(listed') \in Nat
  BY <1>4, <1>5, <1>7, <1>10
<1> QED
  BY <1>1, <1>3, <1>11, <1>12 DEF Least

LEMMA JoinInitially == Init => JoinInv
  BY DEF Init, JoinInv

LEMMA JoinStep == HeldInv /\ ListingInv /\ JoinInv /\ [Next]_vars => JoinInv'
<1> SUFFICES ASSUME HeldInv, ListingInv, JoinInv, [Next]_vars PROVE JoinInv'
  OBVIOUS
<1> USE DEF source
<1>1. ASSUME NEW n \in 0..PageSize, ReadListing(n) PROVE JoinInv'
  <2>1. /\ phase = "listing" /\ phase' \in {"listing", "join"}
        /\ UNCHANGED <<limit, arrived, byId>>
    BY <1>1 DEF ReadListing
  <2>2. ~Enough'
    BY <2>1 DEF JoinInv, Enough
  <2>3. phase' = "join" /\ listing' = "whole" =>
          Len(listed') >= Least(limit, arrived + Len(Listing))
    BY <1>1, WholeListing
  <2> QED
    BY <2>1, <2>2, <2>3 DEF JoinInv
<1>2. CASE phase \in {"links", "ids"} /\ phase' \in {"links", "ids"}
  BY <1>2 DEF JoinInv
<1>3. CASE AllAsked
  BY <1>3 DEF AllAsked, JoinInv, Enough
<1>4. CASE FailListing
  BY <1>4 DEF FailListing, JoinInv, Enough
<1>5. CASE JoinPapers
  BY <1>5 DEF JoinPapers, JoinInv, Enough, Join, Papers, Union
<1>6. CASE Arrive
  BY <1>6 DEF Arrive, JoinInv, Enough
<1>7. CASE /\ UNCHANGED <<limit, recent, arrived, byId, listed, listing, joined>>
           /\ phase' = phase \/ (phase = "metrics" /\ phase' = "over")
  BY <1>7 DEF JoinInv, Enough, Join, Papers, Union
<1>8. CASE Retry \/ Wake \/ Complete \/ UNCHANGED vars
  BY <1>7, <1>8 DEF Retry, Wake, Complete, vars
<1>9. CASE \/ Gather \/ Ask \/ Build
           \/ \E i \in DOMAIN fetch :
                WakeFetch(i) \/ \E a \in {"stars", "temporary", "refused"} : Respond(i, a)
  BY <1>7, <1>9 DEF Gather, Ask, WakeFetch, Respond, Build, harvested
<1>10. CASE ReadRows \/ GiveUpRows \/ \E answered \in SUBSET ToSet(Batch) : ReadBatch(answered)
  BY <1>2, <1>10 DEF ReadRows, GiveUpRows, ReadBatch
<1> QED
  BY <1>1, <1>3, <1>4, <1>5, <1>6, <1>8, <1>9, <1>10 DEF Next, Work

LEMMA EntriesOfBoth ==
  ASSUME NEW S, NEW a \in Seq(S), NEW b \in Seq(S)
  PROVE  ToSet(a \o b) = ToSet(a) \cup ToSet(b)
<1>1. PICK both : both = a \o b
  OBVIOUS
<1>2. PICK m \in Nat : m = Len(a)
  OBVIOUS
<1>3. PICK k \in Nat : k = Len(b)
  OBVIOUS
<1>4. /\ DOMAIN both = 1..(m + k) /\ DOMAIN a = 1..m /\ DOMAIN b = 1..k
      /\ \A i \in 1..(m + k) : both[i] = IF i <= m THEN a[i] ELSE b[i - m]
  BY <1>1, <1>2, <1>3, ConcatProperties
<1>5. \A i \in 1..m : i \in 1..(m + k) /\ both[i] = a[i]
  BY <1>4
<1>6. \A i \in 1..k : i + m \in 1..(m + k) /\ both[i + m] = b[i]
  BY <1>4
<1>7. \A i \in 1..(m + k) : \/ i \in 1..m /\ both[i] = a[i]
                            \/ i - m \in 1..k /\ both[i] = b[i - m]
  <2>1. ASSUME NEW i \in 1..(m + k), i <= m PROVE i \in 1..m
    BY <2>1
  <2>2. ASSUME NEW i \in 1..(m + k), ~(i <= m) PROVE i - m \in 1..k
    BY <2>2
  <2> QED
    BY <1>4, <2>1, <2>2
<1>8. ToSet(both) = {both[i] : i \in 1..(m + k)}
  BY <1>4 DEF ToSet
<1>9. ToSet(a) = {a[i] : i \in 1..m} /\ ToSet(b) = {b[i] : i \in 1..k}
  BY <1>4 DEF ToSet
<1>10. ToSet(both) \subseteq ToSet(a) \cup ToSet(b)
  BY <1>7, <1>8, <1>9
<1>11. ToSet(a) \subseteq ToSet(both)
  BY <1>5, <1>8, <1>9
<1>12. ToSet(b) \subseteq ToSet(both)
  BY <1>6, <1>8, <1>9
<1> QED
  BY <1>1, <1>10, <1>11, <1>12

\* Every paper that was found is among those that are joined.
LEMMA ListedAreFound ==
  ASSUME HeldInv, ListingInv
  PROVE  ToSet(listed) \subseteq ToSet(Union)
<1> DEFINE new == {i \in DOMAIN listed : /\ listed[i] \notin ToSet(byId)
                                         /\ \A j \in 1..(i - 1) : listed[j] # listed[i]}
           others == Picked(listed, new)
<1>1. byId \in Seq(Paper) /\ listed \in Seq(Paper) /\ DOMAIN listed = 1..Len(listed)
  BY DEF HeldInv, ListingInv
<1>2. /\ others \in Seq(Paper)
      /\ ToSet(others) = {listed[x] : x \in {y \in DOMAIN listed : y \in new}}
  BY <1>1, PickedEntries
<1>3. ASSUME NEW p \in ToSet(listed) PROVE p \in ToSet(byId) \cup ToSet(others)
  <2> DEFINE places == {i \in DOMAIN listed : listed[i] = p}
  <2>1. places \subseteq Nat /\ places # {}
    BY <1>1 DEF ToSet
  <2> HIDE DEF places
  <2>2. PICK i \in places : \A j \in places : i <= j
    BY <2>1, LeastNumber
  <2>3. i \in DOMAIN listed /\ listed[i] = p /\ i \in Nat
    BY <2>1, <2>2 DEF places
  <2>4. ASSUME NEW j \in 1..(i - 1) PROVE listed[j] # listed[i]
    <3>1. j \in DOMAIN listed /\ ~(i <= j)
      BY <1>1, <2>3
    <3> QED
      BY <2>2, <2>3, <3>1 DEF places
  <2> QED
    BY <1>2, <2>3, <2>4
<1>4. Union = byId \o others
  BY DEF Union
<1> HIDE DEF others
<1>5. ToSet(byId \o others) = ToSet(byId) \cup ToSet(others)
  BY <1>1, <1>2, EntriesOfBoth
<1> QED
  BY <1>3, <1>4, <1>5

\* A sequence with the first m papers of the listing is at least as long.
LEMMA AtLeastAsLong ==
  ASSUME NEW S, NEW seq \in Seq(S), NEW m \in 0..Len(Listing),
         \A i \in 1..m : Listing[i] \in ToSet(seq)
  PROVE  m <= Len(seq)
<1>1. PICK l \in Nat : l = Len(seq) /\ DOMAIN seq = 1..l
  OBVIOUS
<1>2. m \in Nat /\ 1..m \subseteq DOMAIN Listing
  BY HarvestAssumption
<1> DEFINE f == [i \in 1..m |-> CHOOSE k \in 1..l : seq[k] = Listing[i]]
<1>3. ASSUME NEW i \in 1..m PROVE f[i] \in 1..l /\ seq[f[i]] = Listing[i]
  <2>1. \E k \in 1..l : seq[k] = Listing[i]
    BY <1>1 DEF ToSet
  <2> QED
    BY <2>1
<1> HIDE DEF f
<1>4. f \in [1..m -> 1..l]
  BY <1>3 DEF f
<1>5. \A i, j \in 1..m : f[i] = f[j] => i = j
  <2> SUFFICES ASSUME NEW i \in 1..m, NEW j \in 1..m, f[i] = f[j] PROVE i = j
    OBVIOUS
  <2>1. Listing[i] = Listing[j] /\ i \in DOMAIN Listing /\ j \in DOMAIN Listing
    BY <1>2, <1>3
  <2> QED
    BY <2>1, HarvestAssumption DEF IsInjective
<1>6. IsFiniteSet(1..m) /\ Cardinality(1..m) = m /\ IsFiniteSet(1..l) /\ Cardinality(1..l) = l
  <2>1. \A k \in Nat : IsFiniteSet(1..k) /\ Cardinality(1..k) = k
    <3>1. ASSUME NEW k \in Nat PROVE IsFiniteSet(1..k) /\ Cardinality(1..k) = k
      <4>1. Cardinality(1..k) = IF 1 > k THEN 0 ELSE k - 1 + 1
        BY FS_Interval
      <4>2. (IF 1 > k THEN 0 ELSE k - 1 + 1) = k
        OBVIOUS
      <4> QED
        BY <4>1, <4>2, FS_Interval
    <3> QED
      BY <3>1
  <2> QED
    BY <1>1, <1>2, <2>1
<1>7. f \in Injection(1..m, 1..l)
  BY <1>4, <1>5 DEF Injection, IsInjective
<1>8. Cardinality(1..m) <= Cardinality(1..l)
  BY <1>6, <1>7, FS_Injection
<1> QED
  BY <1>1, <1>6, <1>8


\* Papers found by id are the beginning of what is joined.
LEMMA IdsFirst ==
  ASSUME HeldInv, ListingInv, joined = Join, listing # "failed"
  PROVE  LET found == Those(byId, recent)
             ids == First(found, limit)
         IN ids = First(joined, Len(ids))
<1>1. byId \in Seq(Paper) /\ listed \in Seq(Paper) /\ limit \in Nat
  BY HarvestAssumption DEF HeldInv, ListingInv
<1>2. PICK others \in Seq(Paper) : Union = byId \o others
  <2>1. PICK new : new = {i \in DOMAIN listed :
                             /\ listed[i] \notin ToSet(byId)
                             /\ \A j \in 1..(i - 1) : listed[j] # listed[i]}
    OBVIOUS
  <2>2. Picked(listed, new) \in Seq(Paper) /\ Union = byId \o Picked(listed, new)
    BY <1>1, <2>1, PickedEntries DEF Union
  <2> QED
    BY <2>2
<1>3. PICK found \in Seq(Paper) : found = Those(byId, recent)
  BY <1>1, ThoseEntries
<1>4. PICK rest \in Seq(Paper) : Those(Papers, recent) = found \o rest
  <2>1. Begins(Paper, Those(byId, recent), Those(byId \o others, recent))
    BY <1>1, ThoseOfBoth
  <2>2. Papers = byId \o others
    BY <1>2 DEF Papers
  <2> QED
    BY <1>3, <2>1, <2>2 DEF Begins
<1>5. PICK ids \in Seq(Paper) : ids = First(found, limit)
  BY <1>1, FirstIs
<1>6. PICK f \in Nat : f = Len(found)
  OBVIOUS
<1>7. /\ Len(ids) = Least(limit, f) /\ Least(limit, f) \in Nat
      /\ \A i \in 1..Least(limit, f) : ids[i] = found[i]
  <2>1. Least(limit, f) \in Nat
    BY <1>1 DEF Least
  <2> QED
    BY <1>1, <1>5, <1>6, <2>1, FirstIs
<1>8. PICK n \in Nat : n = Len(ids)
  OBVIOUS
<1>9. PICK all \in Seq(Paper) : all = found \o rest
  BY ConcatProperties
<1>10. PICK a \in Nat : a = Len(all)
  OBVIOUS
<1>11. f <= a /\ \A i \in 1..f : all[i] = found[i]
  BY <1>6, <1>9, <1>10, ConcatProperties
<1>12. /\ joined \in Seq(Paper) /\ Len(joined) = Least(limit, a)
       /\ \A i \in 1..Least(limit, a) : joined[i] = all[i]
  BY <1>4, <1>9, <1>10, JoinIs
<1>13. n <= f /\ n <= Least(limit, a) /\ Least(limit, a) \in Nat
  BY <1>1, <1>7, <1>8, <1>11 DEF Least
<1>14. PICK front \in Seq(Paper) : front = First(joined, n)
  BY <1>12, FirstIs
<1>15. Len(front) = n /\ \A i \in 1..n : front[i] = joined[i]
  <2>1. Least(n, Len(joined)) = n
    BY <1>12, <1>13 DEF Least
  <2>2. /\ Len(front) = Least(n, Len(joined))
        /\ \A i \in 1..Least(n, Len(joined)) : front[i] = joined[i]
    BY <1>12, <1>14, FirstIs
  <2> QED
    BY <2>1, <2>2
<1>16. \A i \in 1..n : front[i] = ids[i]
  <2>1. \A i \in 1..n : i \in 1..f /\ i \in 1..Least(limit, a)
    BY <1>13
  <2> QED
    BY <1>7, <1>8, <1>11, <1>12, <1>15, <2>1
<1>17. front = ids
  BY <1>8, <1>15, <1>16, SeqEqual
<1> QED
  BY <1>3, <1>5, <1>8, <1>14, <1>17

\* A listing that was read as a whole fills the run, but for what was submitted
\* meanwhile.
LEMMA ListingFills ==
  ASSUME HeldInv, ListingInv, JoinInv, phase \in {"metrics", "over"}, listing = "whole",
         recent = Paper, ~Enough
  PROVE  Len(joined) + arrived >= Least(limit, Len(Listing))
<1>1. PICK m : ReadUpTo(m)
  BY DEF ListingInv
<1>2. PICK fits \in Seq(Paper) : fits = Those(Papers, recent)
  BY JoinIs
<1>3. ToSet(fits) = ToSet(Union)
  <2>1. Papers = Union /\ Papers \in Seq(Paper)
    BY JoinIs DEF Papers
  <2>2. PICK papers \in Seq(Paper) : papers = Papers
    BY <2>1
  <2>3. ToSet(Those(papers, recent)) = ToSet(papers) \cap recent
    BY ThoseEntries
  <2>4. ToSet(papers) \subseteq Paper
    BY DEF ToSet
  <2> QED
    BY <1>2, <2>1, <2>2, <2>3, <2>4
<1>4. m \in 0..Len(Listing) /\ \A i \in 1..m : Listing[i] \in ToSet(fits)
  BY <1>1, <1>3, ListedAreFound DEF ReadUpTo
<1>5. m <= Len(fits)
  BY <1>4, AtLeastAsLong
<1>6. PICK l \in Nat : l = Len(Listing)
  BY HarvestAssumption
<1>7. PICK k \in Nat : k = Len(fits)
  OBVIOUS
<1>8. PICK r \in Nat : r = Len(listed)
  BY DEF ListingInv
<1>9. /\ Len(joined) = Least(limit, k) /\ r >= Least(limit, arrived + l)
      /\ r <= arrived + m /\ m <= k
  BY <1>1, <1>2, <1>5, <1>6, <1>7, <1>8, JoinIs DEF JoinInv, ReadUpTo
<1>10. limit \in Nat /\ arrived \in Nat /\ m \in Nat
  BY <1>4, HarvestAssumption DEF HeldInv, ListingInv
<1>11. \A lim, arr, p, q, s, t \in Nat :
         q >= Least(lim, arr + s) /\ q <= arr + p /\ p <= t =>
           Least(lim, t) + arr >= Least(lim, s)
  BY DEF Least
<1> QED
  BY <1>6, <1>9, <1>10, <1>11

\* No paper that was found is lost in the join, for another reason than the
\* limit, the date or a listing that failed.
THEOREM NothingFoundIsLost == Spec => []FoundIsJoined
<1>1. HeldInv /\ ListingInv /\ JoinInv => FoundIsJoined
  BY IdsFirst, ListingFills DEF FoundIsJoined, JoinInv
<1> QED
  BY <1>1, HeldInitially, HeldStep, ListingInitially, ListingStep, JoinInitially, JoinStep,
     PTL DEF Spec


----------------------------------------------------------------------------
\* What a record says follows the dataset.

ReposIn(rows) == {row.repo : row \in ToSet(rows)}

\* Ranking leaves out no repository and adds none.
LEMMA RankedKeeps ==
  ASSUME NEW S, NEW rows \in Seq(S)
  PROVE  /\ Ranked(rows) \in Seq(S) /\ ToSet(Ranked(rows)) \subseteq ToSet(rows)
         /\ ReposIn(Ranked(rows)) = ReposIn(rows)
<1> DEFINE new == {i \in DOMAIN rows : \A k \in 1..(i - 1) : rows[k].repo # rows[i].repo}
           official == {i \in new : rows[i].official}
           a == Picked(rows, official)
           b == Picked(rows, new \ official)
<1>1. /\ a \in Seq(S) /\ ToSet(a) = {rows[x] : x \in {y \in DOMAIN rows : y \in official}}
      /\ b \in Seq(S) /\ ToSet(b) = {rows[x] : x \in {y \in DOMAIN rows : y \in new \ official}}
  BY PickedEntries
<1>2. Ranked(rows) = a \o b
  BY DEF Ranked
<1>3. ASSUME NEW row \in ToSet(rows) PROVE \E i \in new : rows[i].repo = row.repo
  <2> DEFINE places == {i \in DOMAIN rows : rows[i].repo = row.repo}
  <2>1. DOMAIN rows = 1..Len(rows) /\ Len(rows) \in Nat
    OBVIOUS
  <2>2. places \subseteq Nat /\ places # {}
    BY <2>1 DEF ToSet
  <2> HIDE DEF places
  <2>3. PICK i \in places : \A j \in places : i <= j
    BY <2>2, LeastNumber
  <2>4. i \in DOMAIN rows /\ rows[i].repo = row.repo /\ i \in Nat
    BY <2>2, <2>3 DEF places
  <2>5. ASSUME NEW k \in 1..(i - 1) PROVE rows[k].repo # rows[i].repo
    <3>1. k \in DOMAIN rows /\ ~(i <= k)
      BY <2>1, <2>4
    <3> QED
      BY <2>3, <2>4, <3>1 DEF places
  <2> QED
    BY <2>4, <2>5
<1> HIDE DEF a, b
<1>4. a \o b \in Seq(S) /\ ToSet(a \o b) = ToSet(a) \cup ToSet(b)
  BY <1>1, ConcatProperties, EntriesOfBoth
<1>5. ToSet(a) \cup ToSet(b) = {rows[x] : x \in new}
  BY <1>1
<1> HIDE DEF official
<1>6. {rows[x] : x \in new} \subseteq ToSet(rows)
  BY DEF ToSet
<1>7. {rows[x].repo : x \in new} = ReposIn(rows)
  BY <1>3, <1>6 DEF ReposIn
<1>8. ToSet(Ranked(rows)) = {rows[x] : x \in new} /\ Ranked(rows) \in Seq(S)
  BY <1>2, <1>4, <1>5
<1> HIDE DEF new
<1>9. ReposIn(Ranked(rows)) = {rows[x].repo : x \in new}
  BY <1>8 DEF ReposIn
<1> QED
  BY <1>6, <1>7, <1>8, <1>9

\* The greatest of some positions, and the first with the greatest score.
LEMMA Greatest ==
  ASSUME NEW n \in Nat, NEW T, T \subseteq 1..n, T # {}
  PROVE  \E x \in T : \A y \in T : x >= y
<1> DEFINE U == {n - x : x \in T}
<1>1. U \subseteq Nat /\ U # {}
  <2>1. ASSUME NEW x \in T PROVE n - x \in Nat
    <3>1. x \in 1..n
      OBVIOUS
    <3> QED
      BY <3>1
  <2> QED
    BY <2>1
<1> HIDE DEF U
<1>2. PICK u \in U : \A v \in U : u <= v
  BY <1>1, LeastNumber
<1>3. PICK x \in T : u = n - x
  BY DEF U
<1>4. ASSUME NEW y \in T PROVE x >= y
  <2>1. n - y \in U
    BY DEF U
  <2>2. n - x <= n - y /\ x \in Nat /\ y \in Nat
    BY <1>2, <1>3, <2>1
  <2> QED
    BY <2>2
<1> QED
  BY <1>4

Best(score, T, i) ==
  \A j \in T : score[i] > score[j] \/ (score[i] = score[j] /\ i <= j)

LEMMA BestExists ==
  ASSUME NEW n \in Nat, NEW T, T \subseteq 1..n, T # {},
         NEW score, \A i \in T : score[i] \in Nat
  PROVE  \E i \in T : Best(score, T, i)
<1> DEFINE Upto(k) == T \cap (1..k)
           Has(k) == \E i \in Upto(k) : Best(score, Upto(k), i)
           Q == {k \in 0..n : Upto(k) = {} \/ Has(k)}
<1>1. 0 \in Q
  OBVIOUS
<1>2. ASSUME NEW k \in 1..n, k - 1 \in Q PROVE k \in Q
  <2>1. \A j : j \in 1..k <=> j \in 1..(k - 1) \/ j = k
    OBVIOUS
  <2>2. CASE k \notin T
    <3>1. Upto(k) = Upto(k - 1)
      BY <2>1, <2>2
    <3>2. CASE Upto(k - 1) = {}
      BY <3>1, <3>2
    <3>3. CASE Upto(k - 1) # {}
      <4>1. PICK i \in Upto(k - 1) : Best(score, Upto(k - 1), i)
        BY <1>2, <3>3
      <4>2. Best(score, Upto(k), i) /\ i \in Upto(k)
        BY <3>1, <4>1
      <4> QED
        BY <4>2
    <3> QED
      BY <3>2, <3>3
  <2>3. CASE k \in T /\ Upto(k - 1) = {}
    <3>1. Upto(k) = {k}
      BY <2>1, <2>3
    <3>2. Best(score, {k}, k)
      BY <2>3 DEF Best
    <3>3. k \in Upto(k) /\ Best(score, Upto(k), k)
      BY <3>1, <3>2
    <3> QED
      BY <3>3
  <2>4. CASE k \in T /\ Upto(k - 1) # {}
    <3>1. PICK i \in Upto(k - 1) : Best(score, Upto(k - 1), i)
      BY <1>2, <2>4
    <3>2. Upto(k) = Upto(k - 1) \cup {k}
      BY <2>1, <2>4
    <3>3. i \in Nat /\ i < k /\ score[i] \in Nat /\ score[k] \in Nat
      BY <2>4
    <3>4. CASE score[k] > score[i]
      <4>1. ASSUME NEW j \in Upto(k) PROVE score[k] > score[j] \/ (score[k] = score[j] /\ k <= j)
        <5>1. CASE j = k
          BY <3>3, <5>1
        <5>2. CASE j # k
          <6>1. j \in Upto(k - 1) /\ score[j] \in Nat
            BY <3>2, <5>2
          <6>2. score[i] >= score[j]
            BY <3>1, <3>3, <6>1 DEF Best
          <6> QED
            BY <3>3, <3>4, <6>1, <6>2
        <5> QED
          BY <5>1, <5>2
      <4>2. Best(score, Upto(k), k) /\ k \in Upto(k)
        BY <2>4, <4>1 DEF Best
      <4> QED
        BY <4>2
    <3>5. CASE ~(score[k] > score[i])
      <4>1. score[i] > score[k] \/ (score[i] = score[k] /\ i <= k)
        BY <3>3, <3>5
      <4>2. Best(score, Upto(k), i) /\ i \in Upto(k)
        BY <3>1, <3>2, <4>1 DEF Best
      <4> QED
        BY <4>2
    <3> QED
      BY <3>4, <3>5
  <2> QED
    BY <2>2, <2>3, <2>4
<1> HIDE DEF Q
<1>3. 0..n \subseteq Q
  BY <1>1, <1>2, UpToN
<1>4. n \in Q
  BY <1>3
<1>5. Upto(n) = T
  OBVIOUS
<1> QED
  BY <1>4, <1>5 DEF Q


\* The links of a paper are those of its id or, when there are none, those of a
\* key with its title.
LEMMA LinksAre ==
  ASSUME HeldInv, NEW p \in Paper, NEW rows, rows = LinksOf(p)
  PROVE  /\ Sequence(rows)
         /\ \A row \in ToSet(rows) : row.repo \in Repo
         /\ RowsOf(dataset, offset, p) # {} => ToSet(rows) = RowsOf(dataset, offset, p)
         /\ RowsOf(dataset, offset, p) = {} =>
              \A row \in ToSet(rows) :
                \E i, k \in 1..offset : /\ row = dataset[i] /\ dataset[k].key = dataset[i].key
                                        /\ dataset[k].title = Title(p)
<1> DEFINE byKey == {i \in DOMAIN mappings : mappings[i].key = p}
           byTitle == {i \in DOMAIN mappings : mappings[i].title = Title(p)}
<1>1. /\ \A i \in DOMAIN mappings : LinkOK(mappings[i], dataset, offset)
      /\ DOMAIN mappings = 1..Len(mappings) /\ Len(mappings) \in Nat
      /\ \A y \in 1..offset : None \notin {dataset[y].key, dataset[y].repo} =>
                                \E i \in DOMAIN mappings : mappings[i].key = dataset[y].key
  BY SequenceIs DEF HeldInv, Follows, Sequence
<1>2. \A y \in 1..offset : dataset[y].repo \in Repo \cup {None}
  <2>1. dataset \in Dataset /\ offset \in Nat /\ offset <= Len(dataset)
    BY DEF HeldInv, RowLimit
  <2>2. DOMAIN dataset = 1..Len(dataset) /\ Len(dataset) \in Nat
    BY <2>1, HarvestAssumption
  <2>3. 1..offset \subseteq DOMAIN dataset
    BY <2>1, <2>2
  <2> QED
    BY <2>1, <2>3, HarvestAssumption
<1>3. p # None
  BY HarvestAssumption
<1>4. \A key : \A row \in RowsOf(dataset, offset, key) : row.repo \in Repo
  BY <1>2 DEF RowsOf
<1>5. CASE byKey # {}
  <2>1. byKey \subseteq Nat
    BY <1>1
  <2>2. \E i \in byKey : \A j \in byKey : i <= j
    <3> HIDE DEF byKey
    <3> QED
      BY <1>5, <2>1, LeastNumber
  <2>3. Min(byKey) \in byKey
    BY <2>2 DEF Min
  <2>4. rows = mappings[Min(byKey)].repos
    BY <1>5 DEF LinksOf
  <2>5. PICK i : i = Min(byKey)
    OBVIOUS
  <2>6. i \in DOMAIN mappings /\ mappings[i].key = p /\ rows = mappings[i].repos
    BY <2>3, <2>4, <2>5
  <2>7. Sequence(rows) /\ ToSet(rows) = RowsOf(dataset, offset, p)
    BY <1>1, <2>6 DEF LinkOK
  <2>8. RowsOf(dataset, offset, p) # {}
    <3>1. PICK y \in 1..offset : dataset[y].key = p /\ dataset[y].repo # None
      BY <1>1, <2>6 DEF LinkOK
    <3> QED
      BY <3>1 DEF RowsOf
  <2> QED
    BY <1>4, <2>7, <2>8
<1>6. CASE byKey = {} /\ byTitle # {}
  <2>1. byTitle \subseteq 1..Len(mappings)
    BY <1>1
  <2>2. \E i \in byTitle : \A j \in byTitle : i >= j
    <3> HIDE DEF byTitle
    <3> QED
      BY <1>1, <1>6, <2>1, Greatest
  <2>3. Max(byTitle) \in byTitle
    BY <2>2 DEF Max
  <2>4. rows = mappings[Max(byTitle)].repos
    BY <1>6 DEF LinksOf
  <2>5. PICK i : i = Max(byTitle)
    OBVIOUS
  <2>6. i \in DOMAIN mappings /\ mappings[i].title = Title(p) /\ rows = mappings[i].repos
    BY <2>3, <2>4, <2>5
  <2>7. Sequence(rows) /\ ToSet(rows) = RowsOf(dataset, offset, mappings[i].key)
    BY <1>1, <2>6 DEF LinkOK
  <2>8. PICK k \in 1..offset : /\ dataset[k].key = mappings[i].key
                               /\ dataset[k].title = Title(p)
    BY <1>1, <2>6 DEF LinkOK
  <2>9. RowsOf(dataset, offset, p) = {}
    BY <1>1, <1>3, <1>6 DEF RowsOf
  <2>10. \A row \in ToSet(rows) : \E j \in 1..offset :
           row = dataset[j] /\ dataset[j].key = mappings[i].key
    BY <2>7 DEF RowsOf
  <2> QED
    BY <1>4, <2>7, <2>8, <2>9, <2>10
<1>7. CASE byKey = {} /\ byTitle = {}
  <2>1. rows = <<>>
    BY <1>7 DEF LinksOf
  <2>2. RowsOf(dataset, offset, p) = {}
    BY <1>1, <1>3, <1>7 DEF RowsOf
  <2> QED
    BY <2>1, <2>2 DEF Sequence, ToSet
<1> QED
  BY <1>5, <1>6, <1>7

----------------------------------------------------------------------------
\* The repositories are asked for while a paper is in work, and as they are ranked.
WorkInv ==
  /\ repositories # <<>> => InWork /\ repositories = Ranked(Links)
  /\ DOMAIN fetch = DOMAIN repositories

LEMMA WorkStep == WorkInv /\ [Next]_vars => WorkInv'
<1> SUFFICES ASSUME WorkInv, [Next]_vars PROVE WorkInv'
  OBVIOUS
<1> USE DEF source, harvested
<1>1. CASE Gather
  BY <1>1 DEF Gather, WorkInv, InWork, Links, LinksOf
<1>2. CASE Build
  BY <1>2 DEF Build, WorkInv
<1>3. CASE /\ UNCHANGED <<phase, mappings, joined, at, repositories>>
           /\ DOMAIN fetch' = DOMAIN fetch
  BY <1>3 DEF WorkInv, InWork, Links, LinksOf
<1>4. CASE \/ Ask
           \/ \E i \in DOMAIN fetch :
                WakeFetch(i) \/ \E a \in {"stars", "temporary", "refused"} : Respond(i, a)
  <2>1. DOMAIN fetch' = DOMAIN fetch
    BY <1>4 DEF Ask, WakeFetch, Respond
  <2> QED
    BY <1>3, <1>4, <2>1 DEF Ask, WakeFetch, Respond
<1>5. CASE Retry \/ Wake \/ Arrive \/ UNCHANGED vars
  BY <1>3, <1>5 DEF Retry, Wake, Arrive, vars
<1>6. CASE ~InWork /\ UNCHANGED <<repositories, fetch>>
  BY <1>6 DEF WorkInv
<1>7. CASE \/ ReadRows \/ GiveUpRows \/ AllAsked \/ FailListing \/ JoinPapers \/ Complete
           \/ \E answered \in SUBSET ToSet(Batch) : ReadBatch(answered)
           \/ \E n \in 0..PageSize : ReadListing(n)
  BY <1>6, <1>7 DEF ReadRows, GiveUpRows, AllAsked, FailListing, JoinPapers, Complete,
                    ReadBatch, ReadListing, InWork
<1> QED
  BY <1>1, <1>2, <1>4, <1>5, <1>7 DEF Next, Work


Score == [i \in DOMAIN repositories |-> Stars(repositories[i].repo)]

LEMMA MostStarsIn ==
  ASSUME Sequence(repositories), \A i \in DOMAIN repositories : repositories[i].repo \in Repo,
         NEW known, known \subseteq DOMAIN repositories, known # {}
  PROVE  MostStars(known) \in known
<1>1. DOMAIN repositories = 1..Len(repositories) /\ Len(repositories) \in Nat
  BY SequenceIs DEF Sequence
<1>2. \A i \in known : Score[i] \in Nat
  BY HarvestAssumption DEF Score
<1>3. \E i \in known : Best(Score, known, i)
  BY <1>1, <1>2, BestExists
<1>4. \E i \in known : \A j \in known :
        \/ Stars(repositories[i].repo) > Stars(repositories[j].repo)
        \/ Stars(repositories[i].repo) = Stars(repositories[j].repo) /\ i <= j
  BY <1>3 DEF Best, Score
<1> QED
  BY <1>4 DEF MostStars

\* What RecordsFollowDataset says of one record.
Follow(r) ==
  LET mine == {i \in DOMAIN ReadTo : ReadTo[i].key = r.paper /\ ReadTo[i].repo # None}
  IN /\ mine # {} => r.repos = {ReadTo[i].repo : i \in mine}
     /\ mine = {} => \A repo \in r.repos : \E i \in DOMAIN ReadTo :
                       /\ ReadTo[i].repo = repo
                       /\ \E k \in DOMAIN ReadTo : /\ ReadTo[k].key = ReadTo[i].key
                                                  /\ ReadTo[k].title = Title(r.paper)
     /\ {r.stars, r.primary} \subseteq r.repos \cup {None}

LEMMA RecordFollows ==
  ASSUME HeldInv, WorkInv, Build
  PROVE  Follow(Record)
<1>1. /\ InWork /\ at \in DOMAIN joined /\ (repositories # <<>> \/ Links = <<>>)
  BY DEF Build, InWork
<1>2. PICK p \in Paper : p = joined[at]
  BY <1>1 DEF HeldInv
<1>3. PICK rows : rows = Links /\ rows = LinksOf(p)
  BY <1>2 DEF Links
<1>4. /\ Sequence(rows) /\ \A row \in ToSet(rows) : row.repo \in Repo
      /\ RowsOf(dataset, offset, p) # {} => ToSet(rows) = RowsOf(dataset, offset, p)
      /\ RowsOf(dataset, offset, p) = {} =>
           \A row \in ToSet(rows) :
             \E i, k \in 1..offset : /\ row = dataset[i] /\ dataset[k].key = dataset[i].key
                                     /\ dataset[k].title = Title(p)
  BY <1>3, LinksAre
<1>5. /\ Sequence(repositories) /\ ToSet(repositories) \subseteq ToSet(rows)
      /\ ReposIn(repositories) = ReposIn(rows)
  <2>1. CASE repositories = <<>>
    BY <1>1, <1>3, <2>1 DEF Sequence, ToSet, ReposIn
  <2>2. CASE repositories # <<>>
    <3>1. PICK S : S = ToSet(rows)
      OBVIOUS
    <3>2. rows \in Seq(S) /\ repositories = Ranked(rows)
      BY <1>3, <1>4, <2>2, <3>1 DEF Sequence, WorkInv
    <3> QED
      BY <3>2, RankedKeeps, SequenceIs
  <2> QED
    BY <2>1, <2>2
<1>6. /\ \A i \in DOMAIN repositories : repositories[i].repo \in Repo
      /\ ReposIn(repositories) = {repositories[i].repo : i \in DOMAIN repositories}
  BY <1>4, <1>5 DEF ToSet, ReposIn
<1>7. /\ DOMAIN ReadTo = 1..offset
      /\ \A i \in 1..offset : ReadTo[i] = dataset[i]
  <2>1. dataset \in Dataset /\ offset \in Nat /\ offset <= Len(dataset)
    BY DEF HeldInv, RowLimit
  <2>2. PICK S : S = ToSet(dataset)
    OBVIOUS
  <2>3. dataset \in Seq(S) /\ Len(dataset) \in Nat
    BY <2>1, <2>2, HarvestAssumption
  <2>4. \A i \in 1..offset : dataset[i] \in S
    BY <2>1, <2>3
  <2>5. /\ SubSeq(dataset, 1, offset) \in Seq(S) /\ Len(SubSeq(dataset, 1, offset)) = offset
        /\ \A i \in 1..offset : SubSeq(dataset, 1, offset)[i] = dataset[i]
    BY <2>1, <2>4, SubSeqProperties
  <2> QED
    BY <2>5 DEF ReadTo
<1>8. PICK r : r = Record
  OBVIOUS
<1>9. r.paper = p /\ r.repos = ReposIn(rows)
  BY <1>2, <1>5, <1>6, <1>8 DEF Record
<1>10. {r.stars, r.primary} \subseteq r.repos \cup {None}
  <2>1. Answered \subseteq DOMAIN repositories
    BY DEF Answered, WorkInv
  <2>2. Primary \in ReposIn(rows) \cup {None}
    <3>1. \A known \in SUBSET Answered : known # {} =>
             repositories[MostStars(known)].repo \in ReposIn(rows)
      BY <1>5, <1>6, <2>1, MostStarsIn
    <3>2. {i \in Answered : repositories[i].official} \in SUBSET Answered
      OBVIOUS
    <3> QED
      BY <3>1, <3>2 DEF Primary
  <2>3. repositories # <<>> => repositories[1].repo \in ReposIn(rows)
    <3>1. DOMAIN repositories = 1..Len(repositories) /\ Len(repositories) \in Nat
      BY <1>5, SequenceIs DEF Sequence
    <3>2. repositories # <<>> => 1 \in DOMAIN repositories
      BY <1>5, <3>1 DEF Sequence
    <3> QED
      BY <1>5, <1>6, <3>2
  <2>4. /\ r.stars = Primary
        /\ r.primary = IF Primary # None \/ repositories = <<>> THEN Primary
                       ELSE repositories[1].repo
    BY <1>8 DEF Record
  <2> QED
    BY <1>9, <2>2, <2>3, <2>4
<1>11. PICK mine : mine = {i \in 1..offset : dataset[i].key = p /\ dataset[i].repo # None}
  OBVIOUS
<1>12. RowsOf(dataset, offset, p) = {dataset[i] : i \in mine} /\ mine \subseteq 1..offset
  BY <1>11 DEF RowsOf
<1>13. mine = {i \in DOMAIN ReadTo : ReadTo[i].key = r.paper /\ ReadTo[i].repo # None}
  BY <1>7, <1>9, <1>11
<1>14. mine # {} => r.repos = {ReadTo[i].repo : i \in mine}
  <2>1. {ReadTo[i].repo : i \in mine} = {dataset[i].repo : i \in mine}
    BY <1>7, <1>12
  <2>2. mine # {} => ToSet(rows) = {dataset[i] : i \in mine}
    <3>1. mine # {} => RowsOf(dataset, offset, p) # {}
      BY <1>12
    <3> QED
      BY <1>4, <1>12, <3>1
  <2>3. mine # {} => ReposIn(rows) = {dataset[i].repo : i \in mine}
    <3>1. {row.repo : row \in {dataset[i] : i \in mine}} = {dataset[i].repo : i \in mine}
      OBVIOUS
    <3> QED
      BY <2>2, <3>1 DEF ReposIn
  <2> QED
    BY <1>9, <2>1, <2>3
<1>15. ASSUME mine = {}, NEW repo \in r.repos
       PROVE  \E i \in DOMAIN ReadTo : /\ ReadTo[i].repo = repo
                                       /\ \E k \in DOMAIN ReadTo :
                                            /\ ReadTo[k].key = ReadTo[i].key
                                            /\ ReadTo[k].title = Title(r.paper)
  <2>1. PICK row \in ToSet(rows) : repo = row.repo
    BY <1>9 DEF ReposIn
  <2>2. PICK i \in 1..offset, k \in 1..offset :
          /\ row = dataset[i] /\ dataset[k].key = dataset[i].key /\ dataset[k].title = Title(p)
    BY <1>4, <1>12, <1>15
  <2> QED
    BY <1>7, <1>9, <2>1, <2>2
<1> QED
  BY <1>8, <1>10, <1>13, <1>14, <1>15 DEF Follow

\* Every record has exactly the repositories that the rows read link to its
\* paper, on whatever pages they were, and its stars are those of one of them.
THEOREM RecordsAreRight == Spec => []RecordsFollowDataset
<1>1. RecordsFollowDataset <=> \A r \in ToSet(records) : Follow(r)
  BY DEF RecordsFollowDataset, Follow
<1>2. Init => WorkInv /\ RecordsFollowDataset
  BY DEF Init, WorkInv, RecordsFollowDataset, ToSet
<1>3. HeldInv /\ WorkInv /\ RecordsFollowDataset /\ [Next]_vars => RecordsFollowDataset'
  <2> SUFFICES ASSUME HeldInv, WorkInv, RecordsFollowDataset, [Next]_vars
               PROVE  RecordsFollowDataset'
    OBVIOUS
  <2>1. CASE Build
    <3>1. /\ records' = Append(records, Record) /\ dataset' = dataset /\ offset' = offset
      BY <2>1 DEF Build, harvested, source
    <3>2. ToSet(records') = ToSet(records) \cup {Record}
      BY <3>1, OneMore DEF HeldInv
    <3>3. \A r \in ToSet(records') : Follow(r)
      BY <1>1, <2>1, <3>2, RecordFollows
    <3>4. ReadTo' = ReadTo
      BY <3>1 DEF ReadTo
    <3>5. \A r : Follow(r)' <=> Follow(r)
      BY <3>4 DEF Follow
    <3>6. RecordsFollowDataset' <=> \A r \in ToSet(records') : Follow(r)'
      BY DEF RecordsFollowDataset, Follow
    <3> QED
      BY <3>3, <3>5, <3>6
  <2>2. CASE ReadRows
    <3>1. records = <<>> /\ records' = records
      BY <2>2, SequenceIs DEF ReadRows, HeldInv, Sequence
    <3> QED
      BY <3>1 DEF RecordsFollowDataset, ToSet
  <2>3. CASE UNCHANGED <<records, dataset, offset>>
    <3>1. ReadTo' = ReadTo
      BY <2>3 DEF ReadTo
    <3> QED
      BY <2>3, <3>1 DEF RecordsFollowDataset
  <2>4. Build \/ ReadRows \/ UNCHANGED <<records, dataset, offset>>
    BY DEF Next, Work, Retry, Wake, GiveUpRows, ReadBatch, AllAsked, ReadListing, FailListing,
           JoinPapers, Gather, Ask, Respond, WakeFetch, Complete, Arrive, vars, source, harvested
  <2> QED
    BY <2>1, <2>2, <2>3, <2>4
<1> QED
  BY <1>2, <1>3, HeldInitially, HeldStep, ListingInitially, ListingStep, WorkStep, PTL
     DEF Spec
=============================================================================
