------------------------ MODULE EntityResolverProofs ------------------------
(***************************************************************************)
(* Proofs about entity resolution, for any names, any conversions of names  *)
(* and any similarity of names.                                             *)
(***************************************************************************)
EXTENDS EntityResolver, TLAPS

\* What resolve gives is one of its signals, the first that knows a name, or
\* nothing.
LEMMA ResolveCases ==
  ASSUME NEW g, NEW q
  PROVE  \/ Resolve(g, q).name = NoName /\ Resolve(g, q).confidence = 0
         \/ \E i \in Hits(g, q) :
              /\ \A j \in Hits(g, q) : i <= j
              /\ Resolve(g, q).name = Signals(g, q)[i].name
              /\ Resolve(g, q).confidence = Signals(g, q)[i].confidence
              /\ Resolve(g, q).tier = Signals(g, q)[i].tier
              /\ Norm[q.raw] # Empty \/ q.company_domain # NoName
<1>1. CASE EmptyInput(q) \/ Hits(g, q) = {}
  BY <1>1 DEF Resolve, Unresolved, Result, Signal
<1>2. CASE ~EmptyInput(q) /\ Hits(g, q) # {}
  <2>1. \E i \in Hits(g, q) : \A j \in Hits(g, q) : i <= j
    BY <1>2 DEF Hits
  <2> DEFINE i == FirstHit(g, q)
  <2>2. i \in Hits(g, q) /\ \A j \in Hits(g, q) : i <= j
    BY <2>1 DEF FirstHit
  <2>3. Resolve(g, q) = Result(Signals(g, q)[i], Id[Signals(g, q)[i].name])
    BY <1>2 DEF Resolve
  <2> QED
    BY <1>2, <2>2, <2>3 DEF Result, EmptyInput
<1> QED
  BY <1>1, <1>2

\* The shape of a graph: names, each normalized name with its entity.
Entry == [norm : Normal, canonical : Name]
Shaped(g) == g \in [canonical : [Lowered -> Known], aliases : [Name -> SUBSET Name],
                     normalized : Seq(Entry)]

\* Scores are numbers.
LEMMA ScoreType ==
  ASSUME ConversionsAssumption, NEW g, Shaped(g), NEW n \in Known,
         NEW i \in DOMAIN g.normalized
  PROVE  ScoreAt(g, Norm[n], i) \in 0..100
<1>1. g.normalized[i] \in Entry
  BY DEF Shaped
<1>2. g.normalized[i].norm \in Normal /\ Norm[n] \in Normal
  BY <1>1 DEF Entry, Normal
<1> QED
  BY <1>2 DEF ScoreAt, ConversionsAssumption

\* Every signal that knows a name carries a confidence of at least 85 %.
LEMMA SignalIsConfident ==
  ASSUME ConversionsAssumption, NEW g, Shaped(g), NEW q \in Query, NEW i \in Hits(g, q)
  PROVE  /\ Signals(g, q)[i].confidence \in ContextualThreshold..100
<1>1. CASE i \in 1..5
  BY <1>1 DEF Signals, Signal, ContextualThreshold
<1>2. CASE i = 6
  <2>1. Signals(g, q)[6] = Fuzzy(g, Norm[q.raw])
    BY DEF Signals
  <2>2. Fuzzy(g, Norm[q.raw]).name # NoName
    BY <1>2, <2>1 DEF Hits
  <2>3. Close(g, Norm[q.raw]) # {}
    BY <2>2 DEF Fuzzy, Signal
  <2>4. PICK j \in Close(g, Norm[q.raw]) :
               Fuzzy(g, Norm[q.raw]).confidence = ScoreAt(g, Norm[q.raw], j)
    BY <2>3 DEF Fuzzy, Signal
  <2>5. ScoreAt(g, Norm[q.raw], j) \in 0..100
    BY ScoreType DEF Close, Query
  <2> QED
    BY <1>2, <2>1, <2>4, <2>5 DEF Close, ContextualThreshold
<1> QED
  BY <1>1, <1>2 DEF Hits

\* A name is only ever one of those the resolver can give.
LEMMA SignalIsCanonical ==
  ASSUME ConversionsAssumption, NEW g, Shaped(g), NEW q \in Query, NEW i \in Hits(g, q)
  PROVE  Signals(g, q)[i].name \in Canonicals(g)
<1> DEFINE N == Norm[q.raw]
<1>1. ASSUME NEW n \in Known, GetCanonical(g, n) # NoName
      PROVE  GetCanonical(g, n) \in Canonicals(g)
  <2>1. n \in Name /\ GetCanonical(g, n) = g.canonical[Key[n]]
    BY <1>1 DEF GetCanonical, Known
  <2>2. Key[n] \in Lowered
    BY <2>1 DEF Lowered
  <2> QED
    BY <1>1, <2>1, <2>2 DEF Canonicals
<1>2. ASSUME Exact(g, N) # NoName PROVE Exact(g, N) \in Canonicals(g)
  <2> DEFINE E == {g.normalized[k] : k \in DOMAIN g.normalized}
  <2>1. \E e \in E : e.norm = N
    BY <1>2 DEF Exact
  <2>2. Exact(g, N) = (CHOOSE e \in E : e.norm = N).canonical
    BY <1>2 DEF Exact
  <2>3. (CHOOSE e \in E : e.norm = N) \in E
    BY <2>1
  <2>4. PICK k \in DOMAIN g.normalized : Exact(g, N) = g.normalized[k].canonical
    BY <2>2, <2>3
  <2> QED
    BY <1>2, <2>4 DEF Canonicals
<1>3. ASSUME Fuzzy(g, N).name # NoName PROVE Fuzzy(g, N).name \in Canonicals(g)
  <2>1. Close(g, N) # {}
    BY <1>3 DEF Fuzzy, Signal
  <2>2. PICK k \in Close(g, N) : Fuzzy(g, N).name = g.normalized[k].canonical
    BY <2>1 DEF Fuzzy, Signal
  <2> QED
    BY <1>3, <2>2 DEF Canonicals, Close
<1>4. Signals(g, q)[i].name # NoName /\ i \in 1..6
  BY DEF Hits
<1>5. \/ Signals(g, q)[i].name = Exact(g, N)
      \/ Signals(g, q)[i].name = Fuzzy(g, N).name
      \/ \E n \in Known : Signals(g, q)[i].name = GetCanonical(g, n)
  <2>1. Domain(q) \in Known /\ q.raw \in Known /\ q.github_org \in Known /\ q.yc_slug \in Known
    BY DEF Query, Domain
  <2> QED
    BY <1>4, <2>1 DEF Signals, Signal
<1> QED
  BY <1>1, <1>2, <1>3, <1>4, <1>5

\* A resolution is either certain enough for every pipeline or no resolution.
\* Its confidence is at least 85 % and its name is registered under its own key,
\* and startups, products and jobs, whose gate of 0.8 turns nothing down that
\* resolve has let through, write the same name, id, confidence and tier.  A
\* product that is not resolved is left without a name.
THEOREM ResolvedIsConfident ==
  ASSUME ConversionsAssumption, NEW g, Shaped(g), Closed(g), NEW q \in Query
  PROVE  LET r == Resolve(g, q) IN
         /\ IsResolved(r) =>
              /\ r.confidence \in ContextualThreshold..100
              /\ r.name \in Name /\ GetCanonical(g, r.name) = r.name
              /\ ProductName(r) = StartupName(q.raw, r)
              /\ JobName(q.raw, r) = StartupName(q.raw, r)
         /\ ~IsResolved(r) => r.confidence = 0 /\ ProductName(r).name = NoName
<1> DEFINE r == Resolve(g, q)
<1>1. CASE r.name = NoName /\ r.confidence = 0
  BY <1>1 DEF IsResolved, Confident, ProductName, Logged
<1>2. CASE \E i \in Hits(g, q) : /\ r.name = Signals(g, q)[i].name
                                 /\ r.confidence = Signals(g, q)[i].confidence
  <2>1. PICK i \in Hits(g, q) : /\ r.name = Signals(g, q)[i].name
                                /\ r.confidence = Signals(g, q)[i].confidence
    BY <1>2
  <2>2. r.confidence \in ContextualThreshold..100
    BY <2>1, SignalIsConfident
  <2>3. r.name \in Canonicals(g)
    BY <2>1, SignalIsCanonical
  <2>4. r.name \in Name /\ g.canonical[Key[r.name]] = r.name
    BY <2>3 DEF Closed
  <2>5. r.name # NoName
    BY <2>4 DEF ConversionsAssumption
  <2> HIDE DEF r
  <2>6. IsResolved(r) /\ Confident(r)
    BY <2>2, <2>5 DEF IsResolved, Confident, ContextualThreshold, ConfidenceGate
  <2> QED
    BY <2>2, <2>4, <2>5, <2>6 DEF GetCanonical, ProductName, StartupName, JobName, r
<1> QED
  BY <1>1, <1>2, ResolveCases

\* In a closed graph the name in a record resolves to itself, unless nothing is
\* left of it when it is normalized: names written by one run can be resolved
\* again by another.
THEOREM ResolutionIsStable ==
  ASSUME ConversionsAssumption, NEW g, Shaped(g), Closed(g), NEW q \in Query
  PROVE  Stable(g, q)
<1> DEFINE c == Resolve(g, q).name
           p == Plain(c)
<1> SUFFICES ASSUME c # NoName, Norm[c] # Empty
             PROVE  Resolve(g, p).name = c
  BY DEF Stable, IsResolved
<1>1. c \in Canonicals(g)
  BY ResolveCases, SignalIsCanonical
<1>2. c \in Name /\ g.canonical[Key[c]] = c
  BY <1>1 DEF Closed
<1> HIDE DEF c
<1>3. p.raw = c /\ Domain(p) = NoName /\ p.company_domain = NoName
  BY DEF Plain, Domain
<1>4. Signals(g, p)[1].name = NoName /\ Signals(g, p)[2].name = c
  BY <1>2, <1>3 DEF Signals, Signal, GetCanonical
<1>5. 2 \in Hits(g, p) /\ \A j \in Hits(g, p) : 2 <= j
  BY <1>4 DEF Hits
<1>6. FirstHit(g, p) = 2
  <2>1. \A i \in Hits(g, p) : (\A j \in Hits(g, p) : i <= j) => i = 2
    BY <1>5 DEF Hits
  <2> QED
    BY <1>5, <2>1 DEF FirstHit
<1>7. ~EmptyInput(p)
  BY <1>3 DEF EmptyInput
<1> QED
  BY <1>4, <1>5, <1>6, <1>7 DEF Resolve, Result

\* A typed graph without foreign keys: what add_alias leaves registered.
LEMMA AddAliasKeepsClosed ==
  ASSUME ConversionsAssumption, NEW g, Shaped(g), Closed(g),
         NEW c \in Name, NEW a \in Name, Harmless(g, c, a)
  PROVE  /\ Shaped(AddAlias(g, c, a)) /\ Closed(AddAlias(g, c, a))
         /\ AddAlias(g, c, a).canonical[Key[c]] = c
<1> DEFINE h == AddAlias(g, c, a)
<1>1. h = [canonical |-> [k \in Lowered |-> IF k \in {Key[a], Key[c]} THEN c ELSE g.canonical[k]],
           aliases |-> [g.aliases EXCEPT ![c] = @ \cup {a}],
           normalized |-> g.normalized]
  BY DEF AddAlias, Shaped
<1>2. Key[a] \in Lowered /\ Key[c] \in Lowered
  BY DEF Lowered
<1>3. Shaped(h)
  BY <1>1, <1>2 DEF Shaped, Known
<1>4. \A k \in Lowered : h.canonical[k] = IF k \in {Key[a], Key[c]} THEN c ELSE g.canonical[k]
  BY <1>1, <1>2 DEF Shaped
<1>5. ASSUME NEW e \in Canonicals(h) PROVE e \in Name /\ h.canonical[Key[e]] = e
  <2>1. e = c \/ e \in Canonicals(g)
    BY <1>1, <1>4, <1>5 DEF Canonicals
  <2>2. e \in Name
    BY <2>1 DEF Closed
  <2>3. Key[e] \in Lowered
    BY <2>2 DEF Lowered
  <2> QED
    BY <1>4, <2>1, <2>2, <2>3 DEF Closed, Harmless
<1> QED
  BY <1>2, <1>3, <1>4, <1>5 DEF Closed

\* An assignment to the dictionary of normalized names adds one entity to it.
LEMMA AssignedType ==
  ASSUME NEW entries \in Seq(Entry), NEW n \in Normal, NEW c \in Name
  PROVE  /\ Assigned(entries, n, c) \in Seq(Entry)
         /\ \A i \in DOMAIN Assigned(entries, n, c) :
              \/ Assigned(entries, n, c)[i].canonical = c
              \/ i \in DOMAIN entries /\ Assigned(entries, n, c)[i] = entries[i]
<1> DEFINE new == Assigned(entries, n, c)
<1>1. CASE \E i \in DOMAIN entries : entries[i].norm = n
  <2>1. new = [i \in DOMAIN entries |->
                 IF entries[i].norm = n THEN [entries[i] EXCEPT !.canonical = c]
                 ELSE entries[i]]
    BY <1>1 DEF Assigned
  <2>2. \A i \in DOMAIN entries : entries[i] \in Entry
    OBVIOUS
  <2>3. \A i \in DOMAIN entries : [entries[i] EXCEPT !.canonical = c] \in Entry
    BY <2>2 DEF Entry
  <2>4. DOMAIN new = 1..Len(entries) /\ \A i \in DOMAIN entries : new[i] \in Entry
    BY <2>1, <2>2, <2>3
  <2>5. \A i \in DOMAIN entries : new[i] = entries[i] \/ new[i].canonical = c
    BY <2>1, <2>2 DEF Entry
  <2>6. new \in [1..Len(entries) -> Entry]
    BY <2>1, <2>4
  <2>7. new \in Seq(Entry)
    BY <2>6
  <2> QED
    BY <2>4, <2>5, <2>7
<1>2. CASE ~ \E i \in DOMAIN entries : entries[i].norm = n
  <2> DEFINE e == [norm |-> n, canonical |-> c]
  <2>1. new = Append(entries, e) /\ e \in Entry
    BY <1>2 DEF Assigned, Entry
  <2> QED
    BY <2>1
<1> QED
  BY <1>1, <1>2

\* Registering a normalized name for an entity that is known under its own
\* name.  Only these two fields matter to resolve.
LEMMA AssignKeepsClosed ==
  ASSUME ConversionsAssumption, NEW g, Shaped(g), Closed(g),
         NEW c \in Name, NEW n \in Normal, g.canonical[Key[c]] = c,
         NEW h, h = [g EXCEPT !.normalized = Assigned(@, n, c)]
  PROVE  Shaped(h) /\ Closed(h)
<1>0. h.canonical = g.canonical /\ h.normalized = Assigned(g.normalized, n, c)
  BY DEF Shaped
<1>1. Shaped(h)
  BY AssignedType DEF Shaped
<1>2. ASSUME NEW e \in Canonicals(h) PROVE e = c \/ e \in Canonicals(g)
  <2>1. CASE \E k \in Lowered : e = h.canonical[k]
    BY <1>0, <1>2, <2>1 DEF Canonicals
  <2>2. CASE \E i \in DOMAIN h.normalized : e = h.normalized[i].canonical
    <3>1. PICK i \in DOMAIN h.normalized : e = h.normalized[i].canonical
      BY <2>2
    <3>2. e = c \/ (i \in DOMAIN g.normalized /\ e = g.normalized[i].canonical)
      BY <1>0, <3>1, AssignedType DEF Shaped
    <3> QED
      BY <1>2, <3>2 DEF Canonicals
  <2> QED
    BY <1>2, <2>1, <2>2 DEF Canonicals
<1> QED
  BY <1>0, <1>1, <1>2 DEF Closed

\* Every step of building a resolver keeps its graph closed, if the alias is
\* neither the name of another entity nor spelled like one.
THEOREM BuildingKeepsClosed ==
  ASSUME ConversionsAssumption, NEW g, Shaped(g), Closed(g), NEW c \in Name
  PROVE  /\ Harmless(g, c, c) => Shaped(AddSeed(g, c)) /\ Closed(AddSeed(g, c))
         /\ \A a \in Name : Harmless(g, c, a) =>
              Shaped(AddDefault(g, <<c, a>>)) /\ Closed(AddDefault(g, <<c, a>>))
<1>1. ASSUME Harmless(g, c, c), Norm[c] # Empty
      PROVE  Shaped(AddSeed(g, c)) /\ Closed(AddSeed(g, c))
  <2> DEFINE f == AddAlias(g, c, c)
             h == AddSeed(g, c)
  <2>1. Shaped(f) /\ Closed(f) /\ f.canonical[Key[c]] = c
    BY <1>1, AddAliasKeepsClosed
  <2>2. h = [f EXCEPT !.normalized = Assigned(@, Norm[c], c)]
    <3> DEFINE X == Assigned(g.normalized, Norm[c], c)
               k == [g EXCEPT !.normalized = X]
    <3> HIDE DEF X
    <3>1. k.canonical = g.canonical /\ k.aliases = g.aliases /\ k.normalized = X
      BY DEF Shaped
    <3>2. h = AddAlias(k, c, c)
      BY <1>1 DEF AddSeed, X
    <3> HIDE DEF k
    <3>3. h = [canonical |-> f.canonical, aliases |-> f.aliases, normalized |-> X]
      BY <3>1, <3>2 DEF AddAlias
    <3>4. f.normalized = g.normalized
      BY DEF AddAlias
    <3> HIDE DEF f, h
    <3>5. [f EXCEPT !.normalized = X]
            = [canonical |-> f.canonical, aliases |-> f.aliases, normalized |-> X]
      BY <2>1 DEF Shaped
    <3> QED
      BY <3>3, <3>4, <3>5 DEF X
  <2>3. Norm[c] \in Normal
    BY DEF Normal, Known
  <2> HIDE DEF f, h
  <2>4. Shaped(h) /\ Closed(h)
    BY <2>1, <2>2, <2>3, AssignKeepsClosed
  <2> QED
    BY <2>4 DEF h
<1>2. ASSUME NEW a \in Name, Harmless(g, c, a)
      PROVE  Shaped(AddDefault(g, <<c, a>>)) /\ Closed(AddDefault(g, <<c, a>>))
  <2> DEFINE f == AddAlias(g, c, a)
             h == AddDefault(g, <<c, a>>)
  <2>1. Shaped(f) /\ Closed(f) /\ f.canonical[Key[c]] = c
    BY <1>2, AddAliasKeepsClosed
  <2>2. CASE Norm[a] = Empty
    BY <2>1, <2>2 DEF AddDefault
  <2>3. CASE Norm[a] # Empty
    <3>1. h = [f EXCEPT !.normalized = Assigned(@, Norm[a], c)]
      BY <2>3 DEF AddDefault
    <3>3. Norm[a] \in Normal
      BY DEF Normal, Known
    <3> HIDE DEF f, h
    <3>4. Shaped(h) /\ Closed(h)
      BY <2>1, <3>1, <3>3, AssignKeepsClosed
    <3> QED
      BY <3>4 DEF h
  <2> QED
    BY <2>2, <2>3
<1>3. Norm[c] = Empty => AddSeed(g, c) = g
  BY DEF AddSeed
<1> QED
  BY <1>1, <1>2, <1>3
=============================================================================
