----------------------- MODULE LLMOrchestratorProofs -----------------------
(***************************************************************************)
(* Proofs about concurrent extractions and the circuit breakers, the cache  *)
(* and the lists that they share, for any number of extractions, providers  *)
(* and documents and any threshold, cooldown and number of retries.         *)
(***************************************************************************)
EXTENDS LLMOrchestrator, SequenceTheorems, WellFoundedInduction, TLAPS

USE BreakerAssumption DEF BreakerAssumption

\* A breaker whose state and count agree.
Sound(b) == /\ b \in Breaker
            /\ b.state = "CLOSED" <=> b.failure_count < FailureThreshold

AllSound(br) == br \in [Provider -> Breaker] /\ \A p \in Provider : Sound(br[p])

\* Every operation of circuit_breaker.py, and time, keeps a breaker sound.
\* RecordFailure does so without its test for HALF_OPEN: a breaker that is not
\* CLOSED already has a full count.
LEMMA OperationsKeepSound ==
  ASSUME NEW b, Sound(b)
  PROVE  /\ Sound(AfterCanExecute(b)) /\ Sound(RecordSuccess(b))
         /\ Sound(RecordFailure(b)) /\ Sound(Age(b))
<1>1. Sound(AfterCanExecute(b))
  BY DEF Sound, Breaker, AfterCanExecute, CanExecute
<1>2. Sound(RecordSuccess(b))
  BY DEF Sound, Breaker, RecordSuccess
<1>3. Sound(RecordFailure(b))
  BY DEF Sound, Breaker, RecordFailure
<1>4. Sound(Age(b))
  BY DEF Sound, Breaker, Age
<1> QED
  BY <1>1, <1>2, <1>3, <1>4

\* Replacing one breaker by a sound one keeps all of them sound.
LEMMA UpdateKeepsSound ==
  ASSUME NEW br, AllSound(br), NEW p
  PROVE  /\ AllSound([br EXCEPT ![p] = AfterCanExecute(@)])
         /\ AllSound([br EXCEPT ![p] = RecordSuccess(@)])
         /\ AllSound([br EXCEPT ![p] = RecordFailure(@)])
<1>1. \A c : Sound(c) => AllSound([br EXCEPT ![p] = c])
  BY DEF AllSound, Sound
<1>2. CASE p \in Provider
  BY <1>1, <1>2, OperationsKeepSound DEF AllSound
<1>3. CASE p \notin Provider
  <2>1. \A c : [br EXCEPT ![p] = c] = br
    BY <1>3 DEF AllSound
  <2> QED
    BY <2>1
<1> QED
  BY <1>2, <1>3

\* The code between two awaits hands on the breakers it was given, but for the
\* one that can_execute may turn to HALF_OPEN.
LEMMA TryProvidersKeepsSound ==
  ASSUME NEW x, NEW t, NEW p, NEW br, NEW ca, NEW he, AllSound(br),
         TryProviders(x, t, p, br, ca, he)
  PROVE  AllSound(breaker')
<1>1. CASE breaker' = br
  BY <1>1
<1>2. CASE breaker' # br
  <2>1. PICK q : breaker' = [br EXCEPT ![q] = AfterCanExecute(@)]
    BY <1>2 DEF TryProviders
  <2> QED
    BY <2>1, UpdateKeepsSound
<1> QED
  BY <1>1, <1>2

\* The chunk loop hands on sound breakers as well.
LEMMA NextChunkKeepsSound ==
  ASSUME NEW x, NEW t, NEW br, NEW ca, NEW he, AllSound(br),
         NextChunk(x, t, br, ca, he)
  PROVE  AllSound(breaker')
<1>1. \/ breaker' = br
      \/ \E t2 : TryProviders(x, t2, 1, br, ca, he)
  BY DEF NextChunk, Finish
<1> QED
  BY <1>1, TryProvidersKeepsSound

\* All breakers stay sound, for any number of extractions.
LEMMA SoundBreakers == Spec => []AllSound(breaker)
<1>1. Init => AllSound(breaker)
  <2>1. Sound(NewBreaker)
    BY DEF NewBreaker, Sound, Breaker
  <2> QED
    BY <2>1 DEF Init, AllSound, Sound
<1>2. AllSound(breaker) /\ [Next]_vars => AllSound(breaker)'
  <2> SUFFICES ASSUME AllSound(breaker), [Next]_vars PROVE AllSound(breaker')
    OBVIOUS
  <2>1. ASSUME NEW x, NEW d, NEW strict, Extract(x, d, strict)
        PROVE  AllSound(breaker')
    <3>1. \/ breaker' = breaker
          \/ \E t : NextChunk(x, t, breaker, cache, heap)
      BY <2>1 DEF Extract
    <3> QED
      BY <3>1, NextChunkKeepsSound
  <2>2. ASSUME NEW x, NEW answer, Answer(x, answer) PROVE AllSound(breaker')
    <3> DEFINE br == [breaker EXCEPT ![task[x].provider] = RecordSuccess(@)]
    <3>1. \E t, ca, he : NextChunk(x, t, br, ca, he)
      BY <2>2 DEF Answer
    <3>2. AllSound(br)
      BY UpdateKeepsSound
    <3> HIDE DEF br
    <3> QED
      BY <3>1, <3>2, NextChunkKeepsSound
  <2>3. ASSUME NEW x, NEW retryable, Fails(x, retryable) PROVE AllSound(breaker')
    <3> DEFINE br == [breaker EXCEPT ![task[x].provider] = RecordFailure(@)]
    <3>1. breaker' = br \/ \E t, p : TryProviders(x, t, p, br, cache, heap)
      BY <2>3 DEF Fails
    <3>2. AllSound(br)
      BY UpdateKeepsSound
    <3> HIDE DEF br
    <3> QED
      BY <3>1, <3>2, TryProvidersKeepsSound
  <2>4. CASE Tick
    BY <2>4, OperationsKeepSound DEF Tick, AllSound, Sound
  <2>5. CASE (\E x \in Extraction : Wake(x)) \/ UNCHANGED vars
    BY <2>5 DEF Wake, vars
  <2> QED
    BY <2>1, <2>2, <2>3, <2>4, <2>5 DEF Next, Respond
<1> QED
  BY <1>1, <1>2, PTL DEF Spec

\* However many extractions share the breakers, and whatever the order of their
\* calls, failures, probes and late answers: a breaker is CLOSED exactly while
\* it has counted fewer failures than the threshold.
THEOREM BreakersConsistent == Spec => []BreakerConsistent
<1>1. AllSound(breaker) => BreakerConsistent
  BY DEF AllSound, Sound, BreakerConsistent
<1> QED
  BY <1>1, SoundBreakers, PTL

----------------------------------------------------------------------------
\* Facts about the data of the model.

\* Min, of a set of naturals.
LEMMA MinIsLeast ==
  ASSUME NEW S \in SUBSET Nat, S # {}
  PROVE  Min(S) \in S /\ \A y \in S : Min(S) <= y
<1>1. PICK m \in S : \A y \in S : ~(<<y, m>> \in OpToRel(<, Nat))
  BY NatLessThanWellFounded, WFMin
<1>2. \A y \in S : m <= y
  <2> SUFFICES ASSUME NEW y \in S PROVE m <= y
    OBVIOUS
  <2>1. ~(y < m)
    <3> SUFFICES ASSUME y < m PROVE <<y, m>> \in OpToRel(<, Nat)
      BY <1>1
    <3> QED
      BY DEF OpToRel
  <2> QED
    BY <2>1
<1> QED
  BY <1>1, <1>2 DEF Min

\* A payload is a list, an array or empty.
Value == Object \cup {Array, Nothing}

\* Lists, arrays and empty payloads are told apart, and so are the two kinds
\* of cache keys.
LEMMA Values ==
  /\ Nothing \notin Object /\ Array \notin Object /\ Array # Nothing
  /\ \A o \in Object : o[1] \in Extraction /\ o[2] \in ChunkKey
  BY DEF Object, Nothing, Array

\* The same for keys.
LEMMA Keys ==
  /\ \A d \in Doc : <<d>> \in DocKey /\ <<d>> \notin ChunkKey
  /\ \A k \in DocKey : \E d \in Doc : k = <<d>>
  /\ \A d, e : <<d>> = <<e>> => d = e
  BY DEF DocKey, ChunkKey

\* The chunks of a document have keys of their own.
LEMMA ChunkKeys ==
  ASSUME NEW t, t.doc \in Doc, NEW i \in 1..Len(ChunksOf[t.doc])
  PROVE  KeyAt(t, i) \in ChunkKey /\ KeyAt(t, i) = <<ChunksOf[t.doc][i], i>>
<1>1. ChunksOf[t.doc] \in Seq(Text)
  BY OrchestratorAssumption DEF OrchestratorAssumption
<1>2. ChunksOf[t.doc][i] \in Text
  BY <1>1
<1>3. i \in Position
  BY DEF Position
<1> QED
  BY <1>2, <1>3 DEF KeyAt, ChunkKey

----------------------------------------------------------------------------
\* The inductive invariant of the extractions.

Facts(d) == {ChunksOf[d][i] : i \in 1..Len(ChunksOf[d])}

\* A list that was made for a chunk of this document.
OfDoc(o, d) == \E i \in 1..Len(ChunksOf[d]) : o[2] = <<ChunksOf[d][i], i>>

\* No two documents have the same chunk at the same position.
DistinctChunks ==
  \A d, e \in Doc : \A i \in (1..Len(ChunksOf[d])) \cap (1..Len(ChunksOf[e])) :
    ChunksOf[d][i] = ChunksOf[e][i] => d = e

\* What a list holds was found in the document it was made for, ...
HeapOK(he) ==
  /\ he \in [Object -> SUBSET Text]
  /\ DistinctChunks => \A o \in Object, d \in Doc : OfDoc(o, d) => he[o] \subseteq Facts(d)

\* ... the cache has the lists of a chunk and of a document under their keys, ...
CacheOK(ca, he) ==
  /\ ca \in [DocKey \cup ChunkKey -> Value]
  /\ \A k \in ChunkKey : ca[k] \in Object => ca[k][2] = k /\ he[ca[k]] # {}
  /\ \A d \in Doc : ca[<<d>>] \in Object => OfDoc(ca[<<d>>], d)

\* ... and keeps something for every chunk that has been answered.
Kept(ca, he) == UseCache => \A x \in Extraction, k \in ChunkKey :
                               he[<<x, k>>] # {} => ca[k] # Nothing

StoreOK(ca, he) == HeapOK(he) /\ CacheOK(ca, he) /\ Kept(ca, he)

Task == [pc : {"idle", "calling", "sleeping"}, doc : Doc \cup {NoDoc}, strict : BOOLEAN,
         chunk : Nat, provider : Nat, attempt : Nat, payloads : Seq(Value),
         last : {0} \cup Provider, tried : SUBSET Provider]

\* A list collected for chunk i of d was made for it, by whomever.
InPlace(o, d, i, he) == o \in Object => o[2] = <<ChunksOf[d][i], i>> /\ he[o] # {}

\* An extraction in the chunk loop, whose next chunk is t.chunk; ...
Walking(t, he) ==
  /\ t \in Task /\ t.doc \in Doc
  /\ t.chunk \in 1..(Len(ChunksOf[t.doc]) + 1)
  /\ Len(t.payloads) = t.chunk - 1
  /\ \A i \in 1..Len(t.payloads) : InPlace(t.payloads[i], t.doc, i, he)

\* ... in the provider loop, about to look at provider p; its own list for the
\* chunk is still to be made; ...
AtProvider(x, t, p, he) ==
  /\ Walking(t, he) /\ t.chunk <= Len(ChunksOf[t.doc])
  /\ 1..(p - 1) \subseteq t.tried
  /\ UseCache => he[<<x, KeyOf(t)>>] = {}

\* ... and between two calls.
Waiting(x, t, he) ==
  /\ AtProvider(x, t, t.provider, he)
  /\ t.pc \in {"calling", "sleeping"} /\ t.provider \in Provider
  /\ t.attempt \in 1..MaxRetries
  /\ t.pc = "sleeping" => t.attempt < MaxRetries

TasksOK == /\ task \in [Extraction -> Task]
           /\ \A x \in Extraction : task[x].pc # "idle" => Waiting(x, task[x], heap)

Outcome == [kind : {"none", "result", "model", "invalid result", "cached", "ValidationError",
                    "LLMError", "AttributeError"},
            doc : Doc \cup {NoDoc}, payload : Value, provider : {0} \cup Provider]

\* What extract has returned is a list of the document it was called for.
OutcomesOK == /\ outcome \in [Extraction -> Outcome]
              /\ \A x \in Extraction : outcome[x].payload \in Object =>
                   outcome[x].doc \in Doc /\ OfDoc(outcome[x].payload, outcome[x].doc)

ExtractInv == StoreOK(cache, heap) /\ TasksOK /\ OutcomesOK

\* What a step of x may do to the lists: none becomes empty, and none of another
\* extraction is made.
HeapGrows(x, he, he2) ==
  /\ \A o \in Object : he[o] # {} => he2[o] # {}
  /\ \A y \in Extraction \ {x}, k \in ChunkKey : he[<<y, k>>] = {} => he2[<<y, k>>] = {}

\* The collected payloads stay in place when lists grow,
LEMMA WalkingStays ==
  ASSUME NEW t, NEW he, NEW he2, NEW x, Walking(t, he), HeapGrows(x, he, he2)
  PROVE  Walking(t, he2)
<1>1. \A i \in 1..Len(t.payloads) : InPlace(t.payloads[i], t.doc, i, he2)
  BY DEF Walking, HeapGrows, InPlace
<1> QED
  BY <1>1 DEF Walking

\* and so do the other extractions.
LEMMA WaitingStays ==
  ASSUME NEW y \in Extraction, NEW t, NEW he, NEW he2, NEW x, y # x,
         Waiting(y, t, he), HeapGrows(x, he, he2)
  PROVE  Waiting(y, t, he2)
<1>1. Walking(t, he2) /\ KeyOf(t) \in ChunkKey
  <2>1. Walking(t, he) /\ t.chunk \in 1..Len(ChunksOf[t.doc])
    <3>1. Len(ChunksOf[t.doc]) \in Nat
      BY OrchestratorAssumption DEF OrchestratorAssumption, Waiting, AtProvider, Walking
    <3> QED
      BY <3>1 DEF Waiting, AtProvider, Walking
  <2> QED
    BY <2>1, WalkingStays, ChunkKeys DEF Walking, KeyOf
<1> QED
  BY <1>1 DEF Waiting, AtProvider, HeapGrows

\* A step in which x goes on to t, and the lists at most grow, keeps the tasks.
LEMMA OneTaskMoves ==
  ASSUME TasksOK, NEW x \in Extraction, HeapGrows(x, heap, heap'), NEW t \in Task,
         task' = [task EXCEPT ![x] = t], t.pc # "idle" => Waiting(x, t, heap')
  PROVE  TasksOK'
<1>1. task' \in [Extraction -> Task] /\ task'[x] = t
  BY DEF TasksOK
<1>2. ASSUME NEW y \in Extraction, y # x, task'[y].pc # "idle" PROVE Waiting(y, task'[y], heap')
  BY <1>2, WaitingStays DEF TasksOK
<1> QED
  BY <1>1, <1>2 DEF TasksOK

\* extract ends, with an outcome of the kind it should be.
LEMMA ReturnKeeps ==
  ASSUME TasksOK, OutcomesOK, NEW x \in Extraction, HeapGrows(x, heap, heap'),
         NEW kind \in {"result", "model", "invalid result", "cached", "ValidationError",
                       "LLMError", "AttributeError"},
         NEW d \in Doc, NEW payload \in Value, payload \in Object => OfDoc(payload, d),
         NEW provider \in {0} \cup Provider, Return(x, kind, d, payload, provider)
  PROVE  TasksOK' /\ OutcomesOK'
<1>1. IdleTask \in Task /\ IdleTask.pc = "idle"
  <2>1. <<>> \in Seq(Value)
    BY EmptySeq
  <2> QED
    BY <2>1 DEF IdleTask, Task
<1>2. TasksOK'
  BY <1>1, OneTaskMoves DEF Return
<1>3. [kind |-> kind, doc |-> d, payload |-> payload, provider |-> provider] \in Outcome
  BY DEF Outcome
<1>4. OutcomesOK'
  BY <1>3 DEF OutcomesOK, Return
<1> QED
  BY <1>2, <1>4

\* The provider loop leaves x waiting for a provider, or ends with LLMError.
LEMMA TryProvidersKeeps ==
  ASSUME TasksOK, OutcomesOK, NEW x \in Extraction, NEW t, NEW p \in 1..(Len(Chain) + 1),
         NEW br, NEW ca, NEW he, StoreOK(ca, he), HeapGrows(x, heap, he),
         AtProvider(x, t, p, he), TryProviders(x, t, p, br, ca, he)
  PROVE  ExtractInv'
<1> DEFINE usable == Usable(br, p)
           q == Min(usable)
           t2 == [t EXCEPT !.pc = "calling", !.provider = q, !.attempt = 1,
                           !.tried = @ \cup (p..(q - 1))]
<1>0. Len(Chain) \in Nat /\ Provider = 1..Len(Chain) /\ MaxRetries \in Nat \ {0}
  BY OrchestratorAssumption DEF OrchestratorAssumption, Provider
<1>1. cache' = ca /\ heap' = he
  BY DEF TryProviders
<1>2. CASE usable = {}
  <2>1. Return(x, "LLMError", t.doc, Nothing, 0) /\ t.doc \in Doc
    BY <1>2 DEF TryProviders, AtProvider, Walking
  <2> QED
    BY <1>1, <2>1, ReturnKeeps, Values DEF ExtractInv, Value
<1>3. CASE usable # {}
  <2>1. usable \in SUBSET Nat /\ usable \subseteq p..Len(Chain)
    BY <1>0 DEF Usable
  <2>2. q \in p..Len(Chain)
    BY <1>3, <2>1, MinIsLeast
  <2>3. q \in Provider /\ q \in Nat /\ p..(q - 1) \subseteq Provider
    BY <1>0, <2>2
  <2>4. task' = [task EXCEPT ![x] = t2] /\ UNCHANGED outcome
    BY <1>3 DEF TryProviders
  <2>5. t \in Task /\ Walking(t, he)
    BY DEF AtProvider, Walking
  <2> HIDE DEF q, usable
  <2>6. /\ t2 \in Task /\ t2.pc = "calling" /\ t2.provider = q /\ t2.attempt = 1
        /\ t2.doc = t.doc /\ t2.chunk = t.chunk /\ t2.payloads = t.payloads
        /\ t2.tried = t.tried \cup (p..(q - 1))
    BY <2>3, <2>5 DEF Task
  <2>7. 1..(q - 1) \subseteq t2.tried
    BY <1>0, <2>2, <2>3, <2>6 DEF AtProvider
  <2>8. KeyOf(t2) = KeyOf(t)
    BY <2>6 DEF KeyOf, KeyAt
  <2>9. AtProvider(x, t2, q, he)
    BY <2>5, <2>6, <2>7, <2>8 DEF AtProvider, Walking
  <2>10. Waiting(x, t2, he)
    BY <1>0, <2>3, <2>6, <2>9 DEF Waiting
  <2>11. TasksOK'
    BY <1>1, <2>4, <2>6, <2>10, OneTaskMoves
  <2> QED
    BY <1>1, <2>4, <2>11 DEF ExtractInv, OutcomesOK
<1> QED
  BY <1>2, <1>3

\* Merging: the result is one of the collected lists, or an array, or empty,
\* and the only list that changes.  It grows, by what was found in the same
\* document.
LEMMA MergeKeeps ==
  ASSUME NEW x, NEW t, NEW ca, NEW he, StoreOK(ca, he), Walking(t, he)
  PROVE  /\ MergedList(t.payloads) \in Value
         /\ MergedList(t.payloads) \in Object => OfDoc(MergedList(t.payloads), t.doc)
         /\ StoreOK(ca, Merge(t.payloads, he))
         /\ HeapGrows(x, he, Merge(t.payloads, he))
         /\ MergedList(t.payloads) \in Object => Merge(t.payloads, he)[MergedList(t.payloads)] # {}
<1> DEFINE ps == t.payloads
           list == MergedList(ps)
           full == {i \in DOMAIN ps : ps[i] # Nothing}
           before == {i \in DOMAIN ps :
                        ps[i] # Nothing /\ \A j \in Unmergeable(ps) : i < j}
           all == UNION {he[ps[i]] : i \in before}
           he2 == Merge(ps, he)
<1>0. /\ ps \in Seq(Value) /\ DOMAIN ps = 1..Len(ps) /\ Len(ps) \in Nat
      /\ \A i \in DOMAIN ps : ps[i] \in Value /\ InPlace(ps[i], t.doc, i, he)
      /\ t.doc \in Doc /\ Len(ps) = t.chunk - 1 /\ t.chunk \in 1..(Len(ChunksOf[t.doc]) + 1)
  BY DEF Walking, Task
<1>1. Len(ChunksOf[t.doc]) \in Nat
  BY <1>0, OrchestratorAssumption DEF OrchestratorAssumption
<1>2. \A i \in DOMAIN ps : ps[i] \in Object => OfDoc(ps[i], t.doc) /\ he[ps[i]] # {}
  BY <1>0, <1>1 DEF InPlace, OfDoc
<1>3. CASE full = {}
  <2>1. list = Nothing /\ he2 = he
    BY <1>3 DEF MergedList, Merge
  <2> QED
    BY <2>1, Values DEF Value, HeapGrows
<1>4. CASE full # {}
  <2> DEFINE m == Min(full)
  <2>1. full \in SUBSET Nat
    BY <1>0
  <2>2. m \in full /\ \A i \in full : m <= i
    BY <1>4, <2>1, MinIsLeast
  <2> HIDE DEF m
  <2>3. list = ps[m]
    BY <1>4 DEF MergedList, m
  <2>4. m \in DOMAIN ps /\ list \in Value /\ list # Nothing
    BY <1>0, <2>2, <2>3
  <2>5. CASE list = Array
    <3>1. he2 = he
      BY <2>5 DEF Merge
    <3> QED
      BY <2>4, <2>5, <3>1, Values DEF HeapGrows
  <2>6. CASE list # Array
    <3>1. list \in Object /\ OfDoc(list, t.doc) /\ he[list] # {}
      BY <1>2, <2>3, <2>4, <2>6 DEF Value
    <3>2. he2 = [he EXCEPT ![list] = all]
      BY <2>4, <2>6 DEF Merge
    <3>3. he \in [Object -> SUBSET Text]
      BY DEF StoreOK, HeapOK
    <3>4. m \in before
      <4>1. ASSUME NEW j \in Unmergeable(ps) PROVE m < j
        <5>1. j \in full /\ ps[j] = Array
          BY Values DEF Unmergeable
        <5>2. m # j
          BY <2>3, <2>6, <5>1
        <5> QED
          BY <1>0, <2>1, <2>2, <5>1, <5>2
      <4> QED
        BY <2>3, <2>4, <4>1
    <3>5. \A i \in before : ps[i] \in Object
      <4> SUFFICES ASSUME NEW i \in before, ps[i] = Array PROVE FALSE
        BY <1>0 DEF Value
      <4>1. i \in Nat /\ i \in 1..Len(ps)
        BY <1>0
      <4>2. Len(ps) > 1
        <5>1. m # i /\ m \in 1..Len(ps)
          BY <1>0, <2>3, <2>4, <2>6
        <5> QED
          BY <1>0, <4>1, <5>1
      <4>3. i \in Unmergeable(ps)
        BY <4>2 DEF Unmergeable
      <4>4. i < i
        BY <4>3
      <4> QED
        BY <4>1, <4>4
    <3>6. all \in SUBSET Text
      BY <3>3, <3>5
    <3>7. he[list] \subseteq all
      BY <2>3, <3>4
    <3>8. he2 \in [Object -> SUBSET Text] /\ he2[list] = all
      BY <3>1, <3>2, <3>3, <3>6
    <3>9. \A o \in Object : o # list => he2[o] = he[o]
      BY <3>2, <3>3
    <3>10. HeapOK(he2)
      <4> SUFFICES ASSUME DistinctChunks, NEW o \in Object, NEW d \in Doc, OfDoc(o, d)
                   PROVE  he2[o] \subseteq Facts(d)
        BY <3>8 DEF HeapOK
      <4>1. CASE o # list
        BY <3>9, <4>1 DEF StoreOK, HeapOK
      <4>2. CASE o = list
        <5>1. d = t.doc
          <6>1. PICK i \in 1..Len(ChunksOf[d]) : list[2] = <<ChunksOf[d][i], i>>
            BY <4>2 DEF OfDoc
          <6>2. PICK j \in 1..Len(ChunksOf[t.doc]) : list[2] = <<ChunksOf[t.doc][j], j>>
            BY <3>1 DEF OfDoc
          <6>3. i = j /\ ChunksOf[d][i] = ChunksOf[t.doc][j]
            BY <6>1, <6>2
          <6> QED
            BY <1>0, <6>3 DEF DistinctChunks
        <5>2. \A i \in before : he[ps[i]] \subseteq Facts(t.doc)
          BY <1>0, <1>2, <3>5 DEF StoreOK, HeapOK
        <5> QED
          BY <3>8, <4>2, <5>1, <5>2
      <4> QED
        BY <4>1, <4>2
    <3>11. \A o \in Object : he[o] # {} <=> he2[o] # {}
      BY <3>1, <3>7, <3>8, <3>9
    <3>12. CacheOK(ca, he2)
      BY <3>11 DEF StoreOK, CacheOK
    <3>13. Kept(ca, he2) /\ HeapGrows(x, he, he2)
      BY <3>11 DEF StoreOK, Kept, HeapGrows, Object
    <3> HIDE DEF he2, all, before
    <3> QED
      BY <2>4, <3>1, <3>8, <3>7, <3>10, <3>12, <3>13 DEF StoreOK, he2
  <2> QED
    BY <2>5, <2>6
<1> QED
  BY <1>3, <1>4

\* When all chunks have a payload, extract ends with what it should return, or
\* raises because an array cannot be merged.
LEMMA FinishKeeps ==
  ASSUME TasksOK, OutcomesOK, NEW x \in Extraction, NEW t, NEW br, NEW ca, NEW he,
         StoreOK(ca, he), HeapGrows(x, heap, he), Walking(t, he), Finish(x, t, br, ca, he)
  PROVE  ExtractInv'
<1> DEFINE list == MergedList(t.payloads)
           he2 == Merge(t.payloads, he)
<1>1. /\ list \in Value /\ (list \in Object => OfDoc(list, t.doc))
      /\ StoreOK(ca, he2) /\ HeapGrows(x, he, he2)
      /\ t.doc \in Doc /\ t.last \in {0} \cup Provider
  BY MergeKeeps DEF Walking, Task
<1>2. 1 \in Provider
  BY OrchestratorAssumption DEF OrchestratorAssumption, Provider
<1>3. heap' = he2 /\ HeapGrows(x, heap, he2)
  BY <1>1 DEF Finish, HeapGrows, Object
<1>4. CASE Unmergeable(t.payloads) # {}
  <2>1. cache' = ca /\ Return(x, "AttributeError", t.doc, Nothing, 0)
    BY <1>4 DEF Finish
  <2>2. TasksOK' /\ OutcomesOK'
    BY <1>1, <1>3, <2>1, ReturnKeeps, Values DEF Value
  <2> QED
    BY <1>1, <1>3, <2>1, <2>2 DEF ExtractInv
<1>5. CASE Unmergeable(t.payloads) = {}
  <2>1. /\ cache' = IF UseCache /\ list # Nothing THEN [ca EXCEPT ![<<t.doc>>] = list] ELSE ca
        /\ \E kind \in {"result", "model", "invalid result"} :
             Return(x, kind, t.doc, list, IF t.last = 0 THEN 1 ELSE t.last)
    BY <1>5 DEF Finish
  <2>2. TasksOK' /\ OutcomesOK'
    BY <1>1, <1>2, <1>3, <2>1, ReturnKeeps
  <2>3. ca \in [DocKey \cup ChunkKey -> Value] /\ <<t.doc>> \in DocKey /\ <<t.doc>> \notin ChunkKey
    BY <1>1, Keys DEF StoreOK, CacheOK
  <2>4. CASE cache' = [ca EXCEPT ![<<t.doc>>] = list]
    <3>1. cache' \in [DocKey \cup ChunkKey -> Value] /\ cache'[<<t.doc>>] = list
      BY <1>1, <2>3, <2>4
    <3>2. \A k \in ChunkKey : cache'[k] = ca[k]
      BY <2>3, <2>4
    <3>3. \A d \in Doc : d # t.doc => cache'[<<d>>] = ca[<<d>>]
      BY <2>3, <2>4, Keys
    <3>4. CacheOK(cache', he2)
      BY <1>1, <3>1, <3>2, <3>3 DEF StoreOK, CacheOK
    <3>5. Kept(cache', he2)
      BY <1>1, <3>2 DEF StoreOK, Kept
    <3> QED
      BY <1>1, <1>3, <2>2, <3>4, <3>5 DEF ExtractInv, StoreOK
  <2>5. CASE cache' = ca
    BY <1>1, <1>3, <2>2, <2>5 DEF ExtractInv
  <2> QED
    BY <2>1, <2>4, <2>5
<1> QED
  BY <1>4, <1>5

\* Counting from the chunk at c, the item at i is the one at i - (c - 1).
LEMMA CountedFrom ==
  ASSUME NEW c \in Nat, c >= 1, NEW n \in Nat, NEW i \in 1..n, ~(i <= c - 1)
  PROVE  i - (c - 1) \in 1..(n + 1 - c) /\ c + (i - (c - 1)) - 1 = i
OBVIOUS

\* The cached payloads of the chunks that are there belong in their places.
LEMMA CachedInPlace ==
  ASSUME NEW t, NEW ca, NEW he, StoreOK(ca, he), Walking(t, he),
         NEW upto \in (t.chunk - 1)..Len(ChunksOf[t.doc])
  PROVE  LET all == t.payloads \o CachedPayloads(t, upto, ca)
         IN /\ all \in Seq(Value) /\ Len(all) = upto
            /\ \A i \in 1..Len(all) : InPlace(all[i], t.doc, i, he)
<1> DEFINE cached == CachedPayloads(t, upto, ca)
           n == upto + 1 - t.chunk
           all == t.payloads \o cached
<1>0. /\ t.payloads \in Seq(Value) /\ t.doc \in Doc /\ Len(t.payloads) = t.chunk - 1
      /\ Len(ChunksOf[t.doc]) \in Nat /\ t.chunk \in Nat /\ t.chunk >= 1
      /\ \A i \in 1..Len(t.payloads) : InPlace(t.payloads[i], t.doc, i, he)
  BY OrchestratorAssumption DEF OrchestratorAssumption, Walking, Task
<1>1. upto \in Nat /\ upto <= Len(ChunksOf[t.doc]) /\ n \in Nat
  BY <1>0
<1>2. \A i \in 1..n : /\ t.chunk + i - 1 \in 1..Len(ChunksOf[t.doc])
                      /\ cached[i] = ca[KeyAt(t, t.chunk + i - 1)]
  BY <1>0, <1>1 DEF CachedPayloads
<1>3. ASSUME NEW i \in 1..n
      PROVE  cached[i] \in Value /\ InPlace(cached[i], t.doc, t.chunk + i - 1, he)
  <2> DEFINE k == KeyAt(t, t.chunk + i - 1)
  <2>1. k \in ChunkKey /\ k = <<ChunksOf[t.doc][t.chunk + i - 1], t.chunk + i - 1>>
    BY <1>0, <1>2, ChunkKeys
  <2> QED
    BY <1>2, <2>1 DEF StoreOK, CacheOK, InPlace
<1>4. cached \in Seq(Value) /\ Len(cached) = n
  <2>1. cached \in [1..n -> Value]
    BY <1>3 DEF CachedPayloads
  <2> QED
    BY <1>1, <2>1
<1>5. /\ all \in Seq(Value) /\ Len(all) = upto
      /\ \A i \in 1..upto : all[i] = IF i <= t.chunk - 1 THEN t.payloads[i]
                                     ELSE cached[i - (t.chunk - 1)]
  <2>1. /\ all \in Seq(Value) /\ Len(all) = Len(t.payloads) + Len(cached)
        /\ \A i \in 1..(Len(t.payloads) + Len(cached)) :
             all[i] = IF i <= Len(t.payloads) THEN t.payloads[i]
                      ELSE cached[i - Len(t.payloads)]
    BY <1>0, <1>4, ConcatProperties
  <2>2. Len(t.payloads) + Len(cached) = upto
    BY <1>0, <1>1, <1>4
  <2> QED
    BY <1>0, <2>1, <2>2
<1>6. ASSUME NEW i \in 1..upto PROVE InPlace(all[i], t.doc, i, he)
  <2>1. CASE i <= t.chunk - 1
    BY <1>0, <1>5, <2>1
  <2>2. CASE ~(i <= t.chunk - 1)
    <3> DEFINE j == i - (t.chunk - 1)
    <3>1. j \in 1..n /\ t.chunk + j - 1 = i
      BY <1>0, <1>1, <2>2, CountedFrom, Zenon
    <3>2. all[i] = cached[j]
      BY <1>5, <2>2
    <3> QED
      BY <1>3, <3>1, <3>2
  <2> QED
    BY <2>1, <2>2
<1> QED
  BY <1>5, <1>6

\* The chunk loop leaves x waiting for a chunk that it has no payload of, or
\* ends.
LEMMA NextChunkKeeps ==
  ASSUME TasksOK, OutcomesOK, NEW x \in Extraction, NEW t, NEW br, NEW ca, NEW he,
         StoreOK(ca, he), HeapGrows(x, heap, he), Walking(t, he), NextChunk(x, t, br, ca, he)
  PROVE  ExtractInv'
<1> DEFINE n == Len(ChunksOf[t.doc])
           missing == {i \in t.chunk..n : ~UseCache \/ ca[KeyAt(t, i)] = Nothing}
           upto == IF missing = {} THEN n ELSE Min(missing) - 1
           t2 == [t EXCEPT !.payloads = @ \o CachedPayloads(t, upto, ca), !.chunk = upto + 1,
                           !.tried = {}]
<1>0. n \in Nat /\ t.chunk \in Nat /\ t.chunk >= 1 /\ t.chunk <= n + 1 /\ t \in Task /\ t.doc \in Doc
  BY OrchestratorAssumption DEF OrchestratorAssumption, Walking
<1>1. missing # {} => Min(missing) \in missing
  <2>1. missing \in SUBSET Nat
    BY <1>0
  <2> QED
    BY <2>1, MinIsLeast
<1>2. upto \in (t.chunk - 1)..n /\ upto + 1 \in Nat
  BY <1>0, <1>1
<1> HIDE DEF upto
<1>3. /\ t2 \in Task /\ t2.doc = t.doc /\ t2.chunk = upto + 1 /\ t2.tried = {}
      /\ t2.payloads = t.payloads \o CachedPayloads(t, upto, ca)
  <2>1. t.payloads \o CachedPayloads(t, upto, ca) \in Seq(Value)
    BY <1>2, CachedInPlace
  <2> QED
    BY <1>0, <1>2, <2>1 DEF Task
<1>4. Walking(t2, he)
  <2> DEFINE all == t.payloads \o CachedPayloads(t, upto, ca)
  <2>1. Len(all) = upto /\ \A i \in 1..Len(all) : InPlace(all[i], t.doc, i, he)
    BY <1>2, CachedInPlace, Zenon
  <2>2. /\ Len(t2.payloads) = upto
        /\ \A i \in 1..Len(t2.payloads) : InPlace(t2.payloads[i], t2.doc, i, he)
    BY <1>3, <2>1, Zenon
  <2> QED
    BY <1>0, <1>2, <1>3, <2>2 DEF Walking
<1> HIDE DEF t2
<1>5. CASE missing = {}
  <2>1. Finish(x, t2, br, ca, he)
    BY <1>5 DEF NextChunk, t2, upto
  <2> QED
    BY <1>4, <2>1, FinishKeeps
<1>6. CASE missing # {}
  <2>1. TryProviders(x, t2, 1, br, ca, he)
    BY <1>6 DEF NextChunk, t2, upto
  <2>2. upto + 1 \in missing
    BY <1>0, <1>1, <1>6 DEF upto
  <2>3. KeyOf(t2) = KeyAt(t, upto + 1) /\ KeyOf(t2) \in ChunkKey
    BY <1>0, <1>3, <2>2, ChunkKeys DEF KeyOf, KeyAt
  <2>4. UseCache => he[<<x, KeyOf(t2)>>] = {}
    BY <2>2, <2>3 DEF StoreOK, Kept
  <2>5. AtProvider(x, t2, 1, he)
    BY <1>0, <1>3, <1>4, <2>2, <2>4 DEF AtProvider
  <2>6. 1 \in 1..(Len(Chain) + 1)
    BY OrchestratorAssumption DEF OrchestratorAssumption
  <2> QED
    BY <2>1, <2>5, <2>6, TryProvidersKeeps
<1> QED
  BY <1>5, <1>6

\* What the invariant says of x before its step.
LEMMA Given ==
  ASSUME ExtractInv, NEW x \in Extraction
  PROVE  /\ StoreOK(cache, heap) /\ TasksOK /\ OutcomesOK /\ HeapGrows(x, heap, heap)
         /\ task \in [Extraction -> Task] /\ task[x] \in Task
<1>1. StoreOK(cache, heap) /\ TasksOK /\ OutcomesOK
  BY DEF ExtractInv
<1>2. HeapGrows(x, heap, heap)
  BY DEF HeapGrows
<1>3. task \in [Extraction -> Task]
  BY <1>1 DEF TasksOK
<1> QED
  BY <1>1, <1>2, <1>3

\* And of x between two calls.
LEMMA GivenWaiting ==
  ASSUME ExtractInv, NEW x \in Extraction, task[x].pc # "idle"
  PROVE  LET t == task[x]
         IN /\ Waiting(x, t, heap) /\ AtProvider(x, t, t.provider, heap) /\ Walking(t, heap)
            /\ t.doc \in Doc /\ Len(ChunksOf[t.doc]) \in Nat /\ ChunksOf[t.doc] \in Seq(Text)
            /\ t.chunk \in 1..Len(ChunksOf[t.doc]) /\ t.provider \in Provider
            /\ Provider = 1..Len(Chain) /\ Len(Chain) \in Nat
            /\ MaxRetries \in Nat /\ t.attempt \in 1..MaxRetries
<1>1. Waiting(x, task[x], heap)
  BY Given DEF TasksOK
<1>2. AtProvider(x, task[x], task[x].provider, heap) /\ Walking(task[x], heap)
  BY <1>1 DEF Waiting, AtProvider
<1>3. /\ task[x].doc \in Doc /\ ChunksOf[task[x].doc] \in Seq(Text)
      /\ Len(ChunksOf[task[x].doc]) \in Nat
  BY <1>2, OrchestratorAssumption DEF OrchestratorAssumption, Walking
<1>4. task[x].chunk \in 1..Len(ChunksOf[task[x].doc])
  BY <1>2, <1>3 DEF AtProvider, Walking
<1>5. Provider = 1..Len(Chain) /\ Len(Chain) \in Nat /\ MaxRetries \in Nat
  BY OrchestratorAssumption DEF OrchestratorAssumption, Provider
<1>6. task[x].provider \in Provider /\ task[x].attempt \in 1..MaxRetries
  BY <1>1 DEF Waiting
<1> QED
  BY <1>1, <1>2, <1>3, <1>4, <1>5, <1>6

\* extract is called.
LEMMA ExtractKeeps ==
  ASSUME ExtractInv, NEW x \in Extraction, NEW d \in Doc, NEW strict \in StrictChoice,
         Extract(x, d, strict)
  PROVE  ExtractInv'
<1> DEFINE hit == cache[<<d>>]
           t == [IdleTask EXCEPT !.doc = d, !.strict = strict, !.chunk = 1]
<1>0. /\ StoreOK(cache, heap) /\ TasksOK /\ OutcomesOK /\ HeapGrows(x, heap, heap)
      /\ Len(ChunksOf[d]) \in Nat /\ strict \in BOOLEAN
  BY Given, OrchestratorAssumption DEF OrchestratorAssumption
<1>1. CASE UseCache /\ hit # Nothing
  <2>1. /\ \E kind \in {"cached", "ValidationError", "model"} : Return(x, kind, d, hit, 0)
        /\ UNCHANGED <<breaker, cache, heap>>
    BY <1>1 DEF Extract
  <2>2. hit \in Value /\ (hit \in Object => OfDoc(hit, d))
    BY <1>0, Keys DEF StoreOK, CacheOK
  <2>3. TasksOK' /\ OutcomesOK'
    BY <1>0, <2>1, <2>2, ReturnKeeps
  <2> QED
    BY <1>0, <2>1, <2>3 DEF ExtractInv
<1>2. CASE ~(UseCache /\ hit # Nothing)
  <2>1. NextChunk(x, t, breaker, cache, heap)
    BY <1>2 DEF Extract
  <2>2. <<>> \in Seq(Value) /\ Len(<<>>) = 0
    BY EmptySeq
  <2>3. /\ t \in Task /\ t.doc = d /\ t.chunk = 1 /\ t.payloads = <<>>
    BY <1>0, <2>2 DEF IdleTask, Task
  <2> HIDE DEF t
  <2>4. Walking(t, heap)
    BY <1>0, <2>2, <2>3 DEF Walking
  <2> QED
    BY <1>0, <2>1, <2>4, NextChunkKeeps
<1> QED
  BY <1>1, <1>2

\* A provider answers: the payload is a new list, kept in the cache, and the
\* last of those collected.
LEMMA AnswerKeeps ==
  ASSUME ExtractInv, NEW x \in Extraction, task[x].pc = "calling",
         NEW answer \in {"payload", "array", "empty"}, Answer(x, answer)
  PROVE  ExtractInv'
<1> DEFINE t == task[x]
           k == KeyOf(t)
           br == [breaker EXCEPT ![t.provider] = RecordSuccess(@)]
<1>0. /\ StoreOK(cache, heap) /\ TasksOK /\ OutcomesOK /\ Waiting(x, t, heap)
      /\ AtProvider(x, t, t.provider, heap) /\ Walking(t, heap) /\ t \in Task /\ t.doc \in Doc
      /\ Len(ChunksOf[t.doc]) \in Nat /\ t.provider \in Provider
  BY Given, GivenWaiting
<1>1. t.chunk \in 1..Len(ChunksOf[t.doc]) /\ Len(t.payloads) = t.chunk - 1 /\ t.payloads \in Seq(Value)
  BY <1>0 DEF AtProvider, Walking, Task
<1>2. /\ k \in ChunkKey /\ k = <<ChunksOf[t.doc][t.chunk], t.chunk>>
      /\ ObjectOf(x) = <<x, k>> /\ ObjectOf(x) \in Object /\ ObjectOf(x)[2] = k
      /\ ChunksOf[t.doc][t.chunk] \in Text
  <2>1. k \in ChunkKey /\ k = <<ChunksOf[t.doc][t.chunk], t.chunk>>
    BY <1>0, <1>1, ChunkKeys DEF KeyOf
  <2>2. ChunksOf[t.doc][t.chunk] \in Text
    BY <1>0, <1>1, OrchestratorAssumption DEF OrchestratorAssumption
  <2> QED
    BY <2>1, <2>2 DEF ObjectOf, Object
<1>3. PICK o \in {ObjectOf(x), Array, Nothing} :
        NextChunk(x, [t EXCEPT !.last = t.provider, !.payloads = Append(@, o), !.chunk = @ + 1],
                  br, StoreChunk(t, o), NewList(t, o))
  BY DEF Answer
<1> DEFINE ca == StoreChunk(t, o)
           he == NewList(t, o)
           t2 == [t EXCEPT !.last = t.provider, !.payloads = Append(@, o), !.chunk = @ + 1]
<1>4. o \in Value /\ (o \in Object => o = ObjectOf(x))
  BY <1>2, <1>3, Values DEF Value
<1>5. /\ he \in [Object -> SUBSET Text]
      /\ \A p \in Object : p # o => he[p] = heap[p]
      /\ o \in Object => he[o] = {ChunksOf[t.doc][t.chunk]}
  <2>1. heap \in [Object -> SUBSET Text]
    BY <1>0 DEF StoreOK, HeapOK
  <2> QED
    BY <1>2, <1>4, <2>1, Values DEF NewList, Value
<1>6. /\ ca \in [DocKey \cup ChunkKey -> Value]
      /\ \A j \in DocKey \cup ChunkKey : j # k => ca[j] = cache[j]
      /\ ca[k] \in {cache[k], o} /\ (cache[k] # Nothing => ca[k] # Nothing)
      /\ UseCache /\ o # Nothing => ca[k] = o
  <2>1. cache \in [DocKey \cup ChunkKey -> Value]
    BY <1>0 DEF StoreOK, CacheOK
  <2> QED
    BY <1>2, <1>4, <2>1 DEF StoreChunk
<1> HIDE DEF ca, he
<1>7. HeapGrows(x, heap, he)
  BY <1>2, <1>4, <1>5 DEF HeapGrows, Object
<1>8. HeapOK(he)
  <2> SUFFICES ASSUME DistinctChunks, NEW p \in Object, NEW d \in Doc, OfDoc(p, d)
               PROVE  he[p] \subseteq Facts(d)
    BY <1>5 DEF HeapOK
  <2>1. CASE p # o
    BY <1>0, <1>5, <2>1 DEF StoreOK, HeapOK
  <2>2. CASE p = o
    <3>1. PICK i \in 1..Len(ChunksOf[d]) : o[2] = <<ChunksOf[d][i], i>>
      BY <2>2 DEF OfDoc
    <3>2. i = t.chunk /\ ChunksOf[d][i] = ChunksOf[t.doc][t.chunk]
      BY <1>2, <1>4, <2>2, <3>1
    <3> QED
      BY <1>5, <2>2, <3>2 DEF Facts
  <2> QED
    BY <2>1, <2>2
<1>9. CacheOK(ca, he)
  <2>1. \A j \in ChunkKey : ca[j] \in Object => ca[j][2] = j /\ he[ca[j]] # {}
    <3> SUFFICES ASSUME NEW j \in ChunkKey, ca[j] \in Object
                 PROVE  ca[j][2] = j /\ he[ca[j]] # {}
      OBVIOUS
    <3>1. CASE ca[j] = cache[j]
      BY <1>0, <1>7, <3>1 DEF StoreOK, CacheOK, HeapGrows
    <3>2. CASE ca[j] # cache[j]
      BY <1>2, <1>4, <1>5, <1>6, <3>2
    <3> QED
      BY <3>1, <3>2
  <2>2. \A d \in Doc : ca[<<d>>] = cache[<<d>>]
    BY <1>2, <1>6, Keys
  <2> QED
    BY <1>0, <1>6, <2>1, <2>2 DEF StoreOK, CacheOK
<1>10. Kept(ca, he)
  <2> SUFFICES ASSUME UseCache, NEW y \in Extraction, NEW j \in ChunkKey, he[<<y, j>>] # {}
               PROVE  ca[j] # Nothing
    BY DEF Kept
  <2>0. <<y, j>> \in Object
    BY DEF Object
  <2>1. CASE <<y, j>> = o
    <3>1. j = k /\ o # Nothing
      BY <1>2, <1>4, <2>0, <2>1, Values
    <3> QED
      BY <1>6, <3>1
  <2>2. CASE <<y, j>> # o
    <3>1. cache[j] # Nothing
      BY <1>0, <1>5, <2>0, <2>2 DEF StoreOK, Kept
    <3> QED
      BY <1>6, <3>1
  <2> QED
    BY <2>1, <2>2
<1>11. Walking(t2, he)
  <2>1. /\ Append(t.payloads, o) \in Seq(Value)
        /\ Len(Append(t.payloads, o)) = t.chunk
        /\ Append(t.payloads, o)[t.chunk] = o
        /\ \A i \in 1..(t.chunk - 1) : Append(t.payloads, o)[i] = t.payloads[i]
    BY <1>1, <1>4
  <2>2. t2 \in Task
    <3>1. t.chunk + 1 \in Nat
      BY <1>0, <1>1
    <3> QED
      BY <1>0, <2>1, <3>1 DEF Task
  <2>3. t2.doc = t.doc /\ t2.chunk = t.chunk + 1 /\ t2.payloads = Append(t.payloads, o)
    BY <1>0 DEF Task
  <2>4. \A i \in 1..(t.chunk - 1) : InPlace(t.payloads[i], t.doc, i, he)
    BY <1>0, <1>1, <1>7, WalkingStays DEF Walking
  <2>5. InPlace(o, t.doc, t.chunk, he)
    BY <1>2, <1>4, <1>5 DEF InPlace
  <2>6. \A i \in 1..t.chunk : InPlace(t2.payloads[i], t.doc, i, he)
    <3> SUFFICES ASSUME NEW i \in 1..t.chunk PROVE InPlace(t2.payloads[i], t.doc, i, he)
      OBVIOUS
    <3>1. CASE i = t.chunk
      BY <2>1, <2>3, <2>5, <3>1, Zenon
    <3>2. CASE i # t.chunk
      <4>1. i \in 1..(t.chunk - 1)
        BY <1>1, <3>2
      <4> QED
        BY <2>1, <2>3, <2>4, <4>1, Zenon
    <3> QED
      BY <3>1, <3>2
  <2>7. t2.chunk \in 1..(Len(ChunksOf[t2.doc]) + 1) /\ Len(t2.payloads) = t2.chunk - 1
    <3>1. /\ t.chunk \in Nat /\ Len(ChunksOf[t.doc]) \in Nat
          /\ t.chunk >= 1 /\ t.chunk <= Len(ChunksOf[t.doc])
      BY <1>0, <1>1
    <3>2. \A c, n \in Nat : c >= 1 /\ c <= n => c + 1 \in 1..(n + 1) /\ (c + 1) - 1 = c
      OBVIOUS
    <3>3. Len(t2.payloads) = t.chunk
      BY <2>1, <2>3, Zenon
    <3> QED
      BY <2>3, <3>1, <3>2, <3>3, Zenon
  <2> HIDE DEF t2
  <2>8. \A i \in 1..Len(t2.payloads) : InPlace(t2.payloads[i], t2.doc, i, he)
    BY <2>1, <2>3, <2>6
  <2> QED
    BY <1>0, <2>2, <2>3, <2>7, <2>8 DEF Walking
<1> QED
  BY <1>0, <1>3, <1>7, <1>8, <1>9, <1>10, <1>11, NextChunkKeeps DEF StoreOK, ca, he

\* A provider raises: x sleeps, goes on to the next provider, or ends.
LEMMA FailsKeeps ==
  ASSUME ExtractInv, NEW x \in Extraction, task[x].pc = "calling", NEW retryable \in BOOLEAN,
         Fails(x, retryable)
  PROVE  ExtractInv'
<1> DEFINE t == task[x]
           br == [breaker EXCEPT ![t.provider] = RecordFailure(@)]
<1>0. /\ StoreOK(cache, heap) /\ TasksOK /\ OutcomesOK /\ Waiting(x, t, heap) /\ t \in Task
      /\ HeapGrows(x, heap, heap) /\ t.provider \in 1..Len(Chain) /\ Len(Chain) \in Nat
  BY Given, GivenWaiting
<1>1. CASE retryable /\ MayRetry(t)
  <2> DEFINE t2 == [t EXCEPT !.pc = "sleeping"]
  <2>1. task' = [task EXCEPT ![x] = t2] /\ UNCHANGED <<cache, heap, outcome>>
    BY <1>0, <1>1 DEF Fails, TasksOK
  <2>2. t2 \in Task /\ KeyOf(t2) = KeyOf(t)
    BY <1>0 DEF Task, KeyOf, KeyAt
  <2>3. Waiting(x, t2, heap)
    BY <1>0, <1>1, <2>2 DEF Waiting, AtProvider, Walking, MayRetry, Task
  <2>4. TasksOK'
    BY <1>0, <2>1, <2>2, <2>3, OneTaskMoves
  <2> QED
    BY <1>0, <2>1, <2>4 DEF ExtractInv, OutcomesOK
<1>2. CASE ~(retryable /\ MayRetry(t))
  <2> DEFINE t2 == [t EXCEPT !.tried = @ \cup {t.provider}]
  <2>1. TryProviders(x, t2, t.provider + 1, br, cache, heap)
    BY <1>2 DEF Fails
  <2>2. /\ t2 \in Task /\ KeyOf(t2) = KeyOf(t) /\ t2.doc = t.doc /\ t2.chunk = t.chunk
        /\ t2.payloads = t.payloads /\ t2.tried = t.tried \cup {t.provider}
    BY <1>0 DEF Task, KeyOf, KeyAt, Provider, OrchestratorAssumption, Waiting
  <2>3. 1..t.provider \subseteq t2.tried
    BY <1>0, <2>2 DEF Waiting, AtProvider
  <2> HIDE DEF t2
  <2>4. t.provider + 1 \in 1..(Len(Chain) + 1) /\ (t.provider + 1) - 1 = t.provider
    BY <1>0
  <2>5. AtProvider(x, t2, t.provider + 1, heap)
    BY <1>0, <2>2, <2>3, <2>4 DEF Waiting, AtProvider, Walking
  <2> QED
    BY <1>0, <2>1, <2>4, <2>5, TryProvidersKeeps
<1> QED
  BY <1>1, <1>2

\* The backoff is over.
LEMMA WakeKeeps ==
  ASSUME ExtractInv, NEW x \in Extraction, Wake(x)
  PROVE  ExtractInv'
<1> DEFINE t == task[x]
           t2 == [t EXCEPT !.pc = "calling", !.attempt = @ + 1]
<1>0. t.pc = "sleeping"
  BY DEF Wake
<1>1. /\ StoreOK(cache, heap) /\ TasksOK /\ OutcomesOK /\ Waiting(x, t, heap) /\ t \in Task
      /\ HeapGrows(x, heap, heap) /\ MaxRetries \in Nat /\ t.attempt \in 1..MaxRetries
      /\ task \in [Extraction -> Task]
  BY <1>0, Given, GivenWaiting
<1>2. task' = [task EXCEPT ![x] = t2] /\ UNCHANGED <<cache, heap, outcome>>
  BY <1>1 DEF Wake
<1>3. t.attempt + 1 \in 1..MaxRetries /\ t.attempt + 1 \in Nat
  BY <1>0, <1>1 DEF Waiting
<1>4. /\ t2 \in Task /\ t2.pc = "calling" /\ t2.attempt = t.attempt + 1 /\ t2.doc = t.doc
      /\ t2.chunk = t.chunk /\ t2.payloads = t.payloads /\ t2.provider = t.provider
      /\ t2.tried = t.tried
  BY <1>1, <1>3 DEF Task
<1> HIDE DEF t2
<1>5. KeyOf(t2) = KeyOf(t)
  BY <1>4 DEF KeyOf, KeyAt
<1>6. AtProvider(x, t2, t2.provider, heap)
  BY <1>1, <1>4, <1>5 DEF Waiting, AtProvider, Walking
<1>7. Waiting(x, t2, heap)
  BY <1>1, <1>3, <1>4, <1>6 DEF Waiting
<1>8. TasksOK'
  BY <1>1, <1>2, <1>4, <1>7, OneTaskMoves
<1> QED
  BY <1>1, <1>2, <1>8 DEF ExtractInv, OutcomesOK

\* At the start nothing is cached and nobody extracts.
LEMMA ExtractInitially == Init => ExtractInv
<1> SUFFICES ASSUME Init PROVE ExtractInv
  OBVIOUS
<1>1. Nothing \in Value /\ Nothing \notin Object
  BY Values DEF Value
<1>2. HeapOK(heap)
  BY DEF Init, HeapOK
<1>3. CacheOK(cache, heap)
  <2>1. cache \in [DocKey \cup ChunkKey -> Value] /\ \A k \in DocKey \cup ChunkKey : cache[k] = Nothing
    BY <1>1 DEF Init
  <2> QED
    BY <1>1, <2>1, Keys DEF CacheOK
<1>4. Kept(cache, heap)
  BY DEF Init, Kept, Object
<1>5. TasksOK
  <2>1. <<>> \in Seq(Value)
    BY EmptySeq
  <2>2. IdleTask \in Task /\ IdleTask.pc = "idle"
    BY <2>1 DEF IdleTask, Task
  <2> QED
    BY <2>2 DEF Init, TasksOK
<1>6. OutcomesOK
  <2>1. NoOutcome \in Outcome /\ NoOutcome.payload \notin Object
    BY <1>1 DEF NoOutcome, Outcome
  <2> QED
    BY <2>1 DEF Init, OutcomesOK
<1> QED
  BY <1>2, <1>3, <1>4, <1>5, <1>6 DEF ExtractInv, StoreOK

\* Nothing that ExtractInv speaks of changes.
LEMMA UnchangedKeeps ==
  ASSUME ExtractInv, UNCHANGED <<cache, heap, task, outcome>>
  PROVE  ExtractInv'
<1>1. StoreOK(cache', heap') /\ TasksOK' /\ OutcomesOK'
  BY DEF ExtractInv, TasksOK, OutcomesOK
<1> QED
  BY <1>1 DEF ExtractInv

\* Every answer of a provider is a payload, an array or empty.
LEMMA RespondCases ==
  ASSUME NEW x, Respond(x)
  PROVE  /\ task[x].pc = "calling"
         /\ \/ \E answer \in {"payload", "array", "empty"} : Answer(x, answer)
            \/ \E retryable \in BOOLEAN : Fails(x, retryable)
<1>1. CASE \E answer \in Answers(Chain[task[x].provider]) : Answer(x, answer)
  BY <1>1 DEF Answers, Payload, Respond
<1>2. CASE \E error \in Errors(Chain[task[x].provider]) : Fails(x, error = "retryable")
  <2>1. PICK error : Fails(x, error = "retryable")
    BY <1>2
  <2> QED
    BY <2>1 DEF Respond
<1> QED
  BY <1>1, <1>2 DEF Respond

\* Every step of every extraction.
LEMMA ExtractStep == ExtractInv /\ [Next]_vars => ExtractInv'
<1> SUFFICES ASSUME ExtractInv, [Next]_vars PROVE ExtractInv'
  OBVIOUS
<1>1. ASSUME NEW x \in Extraction, Respond(x) PROVE ExtractInv'
  BY <1>1, RespondCases, AnswerKeeps, FailsKeeps
<1>2. CASE Tick \/ UNCHANGED vars
  BY <1>2, UnchangedKeeps DEF Tick, vars
<1> QED
  BY <1>1, <1>2, ExtractKeeps, WakeKeeps DEF Next

LEMMA ExtractInvariant == Spec => []ExtractInv
  BY ExtractInitially, ExtractStep, PTL DEF Spec

----------------------------------------------------------------------------
\* What follows.

\* Every variable has its type, whatever the documents and the chain.
THEOREM TypeCorrect == Spec => []TypeOK
<1>1. AllSound(breaker) /\ ExtractInv => TypeOK
  <2> SUFFICES ASSUME AllSound(breaker), ExtractInv PROVE TypeOK
    OBVIOUS
  <2>1. breaker \in [Provider -> Breaker]
    BY DEF AllSound
  <2>2. /\ cache \in [DocKey \cup ChunkKey -> Object \cup {Array, Nothing}]
        /\ heap \in [Object -> SUBSET Text]
    BY DEF ExtractInv, StoreOK, HeapOK, CacheOK, Value
  <2>3. ASSUME NEW x \in Extraction
        PROVE  /\ task[x].pc \in {"idle", "calling", "sleeping"}
               /\ task[x].last \in {0} \cup Provider /\ task[x].tried \subseteq Provider
    BY <2>3, Given DEF Task
  <2>4. ASSUME NEW x \in Extraction, task[x].pc # "idle"
        PROVE  /\ task[x].doc \in Doc /\ task[x].chunk \in 1..Len(ChunksOf[task[x].doc])
               /\ task[x].provider \in Provider /\ task[x].attempt \in 1..MaxRetries
    BY <2>4, GivenWaiting
  <2>5. ASSUME NEW x \in Extraction
        PROVE  /\ outcome[x].kind \in {"none", "result", "model", "invalid result",
                                       "cached", "ValidationError", "LLMError", "AttributeError"}
               /\ outcome[x].payload \in Object \cup {Array, Nothing}
               /\ outcome[x].provider \in {0} \cup Provider
    BY <2>5 DEF ExtractInv, OutcomesOK, Outcome, Value
  <2> QED
    BY <2>1, <2>2, <2>3, <2>4, <2>5 DEF TypeOK
<1> QED
  BY <1>1, SoundBreakers, ExtractInvariant, PTL

\* However the chunks of a document were obtained, from its own provider calls,
\* from the cache, or from the extraction of another document with the same
\* chunk: its payloads are collected in the order of its chunks, none skipped.
THEOREM CollectedInOrder == Spec => []PayloadsInOrder
<1>1. ExtractInv => PayloadsInOrder
  <2> SUFFICES ASSUME ExtractInv, NEW x \in Extraction, task[x].pc # "idle"
               PROVE  LET t == task[x] IN
                      /\ Len(t.payloads) = t.chunk - 1
                      /\ \A i \in DOMAIN t.payloads :
                           \/ t.payloads[i] \in {Array, Nothing}
                           \/ t.payloads[i][2] = <<ChunksOf[t.doc][i], i>>
    BY DEF PayloadsInOrder
  <2>1. Walking(task[x], heap) /\ task[x].payloads \in Seq(Value)
    BY Given, GivenWaiting DEF Task
  <2>2. DOMAIN task[x].payloads = 1..Len(task[x].payloads)
    BY <2>1
  <2>3. \A i \in DOMAIN task[x].payloads : task[x].payloads[i] \in Value
    BY <2>1
  <2> QED
    BY <2>1, <2>2, <2>3 DEF Walking, InPlace, Value
<1> QED
  BY <1>1, ExtractInvariant, PTL

\* With the cache, no extraction ever asks a provider for a chunk that it has
\* had an answer with facts for, however its calls failed or were repeated.
THEOREM ChunkAskedOnce == Spec => []NoReplay
<1>1. ExtractInv => NoReplay
  BY GivenWaiting DEF NoReplay, AtProvider, ObjectOf
<1> QED
  BY <1>1, ExtractInvariant, PTL

\* If no two documents share a chunk at the same position, extract returns only
\* what was found in the document itself: merging in place, into lists that the
\* cache and earlier results refer to, does no harm.
THEOREM OnlyOwnFacts ==
  ASSUME DistinctChunks
  PROVE  Spec => []OwnFactsOnly
<1>1. ExtractInv => OwnFactsOnly
  <2> SUFFICES ASSUME ExtractInv, NEW x \in Extraction, outcome[x].payload \in Object
               PROVE  heap[outcome[x].payload] \subseteq Facts(outcome[x].doc)
    BY DEF OwnFactsOnly, Facts
  <2>1. outcome[x].doc \in Doc /\ OfDoc(outcome[x].payload, outcome[x].doc)
    BY DEF ExtractInv, OutcomesOK
  <2> QED
    BY <2>1 DEF ExtractInv, StoreOK, HeapOK
<1> QED
  BY <1>1, ExtractInvariant, PTL

\* The others stay where they are.
Apart(x) == \A y \in Extraction : y # x => task'[y] = task[y] /\ outcome'[y] = outcome[y]

\* Whatever an extraction's step comes to, it changes its own entries only.
LEMMA StaysApart ==
  ASSUME ExtractInv, NEW x \in Extraction
  PROVE  /\ \A t, o : /\ task' = [task EXCEPT ![x] = t]
                      /\ outcome' = [outcome EXCEPT ![x] = o] \/ UNCHANGED outcome
                      => Apart(x)
         /\ \A kind, d, payload, p :
              Return(x, kind, d, payload, p) => Apart(x) /\ outcome'[x].kind = kind
         /\ \A t, p, br, ca, he : TryProviders(x, t, p, br, ca, he) => Apart(x)
<1>1. ASSUME NEW t, NEW o, task' = [task EXCEPT ![x] = t],
             outcome' = [outcome EXCEPT ![x] = o] \/ UNCHANGED outcome
      PROVE  Apart(x)
  <2>1. task \in [Extraction -> Task] /\ outcome \in [Extraction -> Outcome]
    BY DEF ExtractInv, TasksOK, OutcomesOK
  <2> QED
    BY <1>1, <2>1 DEF Apart
<1>2. ASSUME NEW kind, NEW d, NEW payload, NEW p, Return(x, kind, d, payload, p)
      PROVE  Apart(x) /\ outcome'[x].kind = kind
  <2>1. outcome'[x] = [kind |-> kind, doc |-> d, payload |-> payload, provider |-> p]
    BY <1>2 DEF Return, ExtractInv, OutcomesOK
  <2>2. outcome'[x].kind = kind
    BY <2>1
  <2>3. Apart(x)
    BY <1>1, <1>2 DEF Return
  <2> QED
    BY <2>2, <2>3
<1>3. ASSUME NEW t, NEW p, NEW br, NEW ca, NEW he, TryProviders(x, t, p, br, ca, he)
      PROVE  Apart(x)
  <2>1. \/ \E kind, d, payload, q : Return(x, kind, d, payload, q)
        \/ \E t2 : task' = [task EXCEPT ![x] = t2] /\ UNCHANGED outcome
    BY <1>3 DEF TryProviders
  <2> QED
    BY <1>1, <1>2, <2>1
<1> QED
  BY <1>1, <1>2, <1>3

\* The provider loop ends with LLMError only when no breaker from p on lets a
\* call through.
LEMMA TryExhausted ==
  ASSUME ExtractInv, NEW x \in Extraction, NEW t, NEW p, NEW br, NEW ca, NEW he,
         TryProviders(x, t, p, br, ca, he), task'[x].pc = "idle", "pc" \in DOMAIN t
  PROVE  \A q \in p..Len(Chain) : ~CanExecute(breaker'[q])
<1>1. CASE Usable(br, p) = {}
  BY <1>1 DEF TryProviders, Usable
<1>2. CASE Usable(br, p) # {}
  <2>1. PICK q : task' = [task EXCEPT ![x] = [t EXCEPT !.pc = "calling", !.provider = q,
                                               !.attempt = 1, !.tried = @ \cup (p..(q - 1))]]
    BY <1>2 DEF TryProviders
  <2>2. task'[x] = [t EXCEPT !.pc = "calling", !.provider = q,
                             !.attempt = 1, !.tried = @ \cup (p..(q - 1))]
    BY <2>1, Given
  <2>3. task'[x].pc = "calling"
    BY <2>2
  <2> QED
    BY <2>3
<1> QED
  BY <1>1, <1>2

\* The chunk loop, too, raises LLMError only when no breaker does.
LEMMA NextChunkExhausted ==
  ASSUME ExtractInv, NEW x \in Extraction, NEW t, NEW br, NEW ca, NEW he,
         NextChunk(x, t, br, ca, he), "pc" \in DOMAIN t
  PROVE  /\ Apart(x)
         /\ task'[x].pc = "idle" /\ outcome'[x].kind = "LLMError" =>
              \A q \in Provider : ~CanExecute(breaker'[q])
<1>1. CASE \E t2 : Finish(x, t2, br, ca, he)
  <2>1. PICK t2 : Finish(x, t2, br, ca, he)
    BY <1>1
  <2>2. CASE Unmergeable(t2.payloads) # {}
    <3>1. Return(x, "AttributeError", t2.doc, Nothing, 0)
      BY <2>1, <2>2 DEF Finish
    <3> QED
      BY <3>1, StaysApart
  <2>3. CASE ~(Unmergeable(t2.payloads) # {})
    <3> DEFINE kind == IF ~t2.strict THEN "result"
                       ELSE IF t2.doc \in InvalidDoc \/ MergedList(t2.payloads) = Array
                            THEN "invalid result" ELSE "model"
               last == IF t2.last = 0 THEN 1 ELSE t2.last
    <3>1. kind # "LLMError"
      OBVIOUS
    <3> HIDE DEF kind, last
    <3>2. Return(x, kind, t2.doc, MergedList(t2.payloads), last)
      BY <2>1, <2>3 DEF Finish, kind, last
    <3> QED
      BY <3>1, <3>2, StaysApart
  <2> QED
    BY <2>2, <2>3
<1>2. CASE \E t2 : "pc" \in DOMAIN t2 /\ TryProviders(x, t2, 1, br, ca, he)
  <2>1. Provider = 1..Len(Chain)
    BY OrchestratorAssumption DEF OrchestratorAssumption, Provider
  <2> QED
    BY <1>2, <2>1, StaysApart, TryExhausted
<1> QED
  BY <1>1, <1>2 DEF NextChunk

\* extract raises LLMError only when one chunk has exhausted the whole chain:
\* every provider was called for it without success, or had its breaker open.
\* "tried" holds what the provider loop has passed, since the last answer.
THEOREM FailsWhenExhausted == Spec => FailsOnlyWhenExhausted
<1>1. ASSUME ExtractInv, [Next]_vars
      PROVE  \A x \in Extraction :
               /\ outcome'[x].kind = "LLMError" /\ task'[x].pc = "idle"
               /\ task'[x] # task[x] \/ outcome'[x] # outcome[x]
               =>
                 \A p \in Provider :
                   \/ task[x].pc = "calling" /\ p \in task[x].tried \cup {task[x].provider}
                   \/ ~CanExecute(breaker[p]) \/ ~CanExecute(breaker'[p])
  <2> DEFINE Failed(x) == outcome'[x].kind = "LLMError" /\ task'[x].pc = "idle"
             Passed(x, p) == task[x].pc = "calling" /\ p \in task[x].tried \cup {task[x].provider}
             Exhausted(x) == Failed(x) =>
                               \A p \in Provider : Passed(x, p) \/ ~CanExecute(breaker'[p])
  <2>1. ASSUME NEW x \in Extraction, NEW d \in Doc, NEW strict \in StrictChoice,
               Extract(x, d, strict)
        PROVE  Apart(x) /\ Exhausted(x)
    <3>1. CASE \E kind \in {"cached", "ValidationError", "model"} :
                 Return(x, kind, d, cache[<<d>>], 0)
      <4>1. PICK kind \in {"cached", "ValidationError", "model"} :
              Return(x, kind, d, cache[<<d>>], 0)
        BY <3>1
      <4>2. kind # "LLMError"
        BY <4>1
      <4> QED
        BY <1>1, <4>1, <4>2, StaysApart
    <3>2. CASE \E t : "pc" \in DOMAIN t /\ NextChunk(x, t, breaker, cache, heap)
      BY <3>2, <1>1, NextChunkExhausted
    <3> QED
      BY <2>1, <3>1, <3>2 DEF Extract, IdleTask
  <2>2. ASSUME NEW x \in Extraction, NEW answer \in {"payload", "array", "empty"},
               Answer(x, answer)
        PROVE  Apart(x) /\ Exhausted(x)
    <3>1. \E t, br, ca, he : "pc" \in DOMAIN t /\ NextChunk(x, t, br, ca, he)
      BY <2>2, <1>1, Given DEF Answer, Task
    <3> QED
      BY <1>1, <3>1, NextChunkExhausted
  <2>3. ASSUME NEW x \in Extraction, task[x].pc = "calling", NEW retryable \in BOOLEAN,
               Fails(x, retryable)
        PROVE  Apart(x) /\ Exhausted(x)
    <3>1. CASE task' = [task EXCEPT ![x].pc = "sleeping"] /\ UNCHANGED outcome
      <4>1. task' = [task EXCEPT ![x] = [task[x] EXCEPT !.pc = "sleeping"]] /\ task[x] \in Task
        BY <1>1, <3>1, Given
      <4>2. task'[x].pc = "sleeping"
        BY <1>1, <4>1, Given DEF Task
      <4> QED
        BY <1>1, <3>1, <4>1, <4>2, StaysApart
    <3>2. CASE \E t, br : "pc" \in DOMAIN t
                          /\ TryProviders(x, t, task[x].provider + 1, br, cache, heap)
      <4>1. Apart(x)
        BY <1>1, <3>2, StaysApart
      <4>2. Failed(x) => \A q \in (task[x].provider + 1)..Len(Chain) : ~CanExecute(breaker'[q])
        BY <1>1, <3>2, TryExhausted
      <4>3. 1..(task[x].provider - 1) \subseteq task[x].tried /\ task[x].provider \in Provider
            /\ Provider = 1..Len(Chain) /\ Len(Chain) \in Nat
        BY <1>1, <2>3, GivenWaiting DEF AtProvider
      <4>4. ASSUME NEW p \in Provider
            PROVE  Passed(x, p) \/ p \in (task[x].provider + 1)..Len(Chain)
        BY <2>3, <4>3
      <4> QED
        BY <4>1, <4>2, <4>4
    <3> QED
      BY <1>1, <2>3, <3>1, <3>2, Given DEF Fails, Task
  <2>4. ASSUME NEW x \in Extraction, Wake(x) PROVE Apart(x) /\ Exhausted(x)
    <3>1. task' = [task EXCEPT ![x] = [task[x] EXCEPT !.pc = "calling", !.attempt = @ + 1]]
          /\ UNCHANGED outcome /\ task[x] \in Task
      BY <1>1, <2>4, Given DEF Wake
    <3>2. task'[x].pc = "calling"
      BY <1>1, <3>1, Given DEF Task
    <3> QED
      BY <1>1, <3>1, <3>2, StaysApart
  <2>5. ASSUME NEW x \in Extraction, Respond(x) PROVE Apart(x) /\ Exhausted(x)
    BY <2>2, <2>3, <2>5, RespondCases
  <2>6. CASE UNCHANGED <<task, outcome>>
    BY <2>6
  <2>7. CASE \E x \in Extraction : Apart(x) /\ Exhausted(x)
    BY <2>7 DEF Apart
  <2>8. (\E x \in Extraction : Apart(x) /\ Exhausted(x)) \/ UNCHANGED <<task, outcome>>
    <3> HIDE DEF Exhausted
    <3> QED
      BY <1>1, <2>1, <2>4, <2>5 DEF Next, Tick, vars
  <2> QED
    BY <2>6, <2>7, <2>8
<1> QED
  BY <1>1, ExtractInvariant, PTL DEF Spec, FailsOnlyWhenExhausted
=============================================================================
