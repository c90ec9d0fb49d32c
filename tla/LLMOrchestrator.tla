--------------------------- MODULE LLMOrchestrator ---------------------------
(***************************************************************************)
(* LLMOrchestrator.extract (llm/orchestrator.py): extractions that run as   *)
(* concurrent tasks of one event loop and share the circuit breakers and    *)
(* the extraction cache.  A task gives up control only while it awaits a    *)
(* provider and while it sleeps before a retry; all the code in between,    *)
(* which walks over cached chunks and providers whose breaker is open, is   *)
(* part of the step that resumed it.                                        *)
(*                                                                          *)
(* A payload is a dictionary with one list-valued field; the list is an     *)
(* object of "heap", because _merge_chunk_payloads puts the list of the     *)
(* first chunk into the merged payload and extends it there.  What a        *)
(* provider finds in a chunk is represented by the chunk's text.            *)
(*                                                                          *)
(* The providers (llm/providers.py) are what their calls can come to: an    *)
(* answer, or an exception that is retryable or final.  Their semaphores    *)
(* only delay calls, whose answers come in any order here anyway.           *)
(***************************************************************************)
EXTENDS CircuitBreaker, LLMProviders, Sequences, FiniteSetsExt

CONSTANTS Extraction,    \* the concurrent callers of extract
          Doc, Text,     \* documents, and the texts of their chunks
          ChunksOf,      \* SemanticChunker.chunk of every document
          Chain,         \* providers, the fallback chain
          MaxRetries,    \* max_retries
          InvalidDoc,    \* documents whose payload fails output_model
          UseCache,      \* use_cache
          StrictChoice,  \* may callers pass an output_model, or none
          NoDoc

ASSUME OrchestratorAssumption ==
  /\ ChunksOf \in [Doc -> Seq(Text)]   \* no chunk when the text is empty
  /\ Chain \in Seq(LLMProvider) /\ Chain # <<>>
  /\ \A p, q \in DOMAIN Chain : Chain[p].name = Chain[q].name => p = q
  /\ MaxRetries \in Nat \ {0}
  /\ InvalidDoc \subseteq Doc /\ NoDoc \notin Doc
  /\ UseCache \in BOOLEAN /\ StrictChoice \subseteq BOOLEAN

VARIABLES breaker,  \* circuit_breakers
          cache,    \* ExtractionCache._cache
          heap,     \* the lists that payloads refer to
          task,     \* where every extraction is
          outcome   \* what its last call returned or raised

vars == <<breaker, cache, heap, task, outcome>>

Provider == DOMAIN Chain
Position == UNION {1..Len(ChunksOf[d]) : d \in Doc}
ChunkKey == Text \X Position    \* sha256 of chunk text, schema, "-chunk-<idx>"
DocKey == {<<d>> : d \in Doc}   \* sha256 of the whole text
Object == Extraction \X ChunkKey
Nothing == <<>>                 \* an empty payload, or no cache entry
Array == <<"array">>            \* a payload that is no dictionary

\* Mutant: the key leaves out the chunk's text.
KeyAt_PositionOnly(t, i) == <<CHOOSE x \in Text : TRUE, i>>
KeyAt(t, i) == <<ChunksOf[t.doc][i], i>>
KeyOf(t) == KeyAt(t, t.chunk)
ObjectOf(x) == <<x, KeyOf(task[x])>>

IdleTask == [pc |-> "idle", doc |-> NoDoc, strict |-> FALSE, chunk |-> 0, provider |-> 0,
             attempt |-> 0, payloads |-> <<>>, last |-> 0, tried |-> {}]
NoOutcome == [kind |-> "none", doc |-> NoDoc, payload |-> Nothing, provider |-> 0]

TypeOK ==
  /\ breaker \in [Provider -> Breaker]
  /\ cache \in [DocKey \cup ChunkKey -> Object \cup {Array, Nothing}]
  /\ heap \in [Object -> SUBSET Text]
  /\ \A x \in Extraction :
       /\ task[x].pc \in {"idle", "calling", "sleeping"}
       /\ task[x].pc # "idle" =>
            /\ task[x].doc \in Doc /\ task[x].chunk \in 1..Len(ChunksOf[task[x].doc])
            /\ task[x].provider \in Provider /\ task[x].attempt \in 1..MaxRetries
            /\ task[x].last \in {0} \cup Provider /\ task[x].tried \subseteq Provider
       /\ outcome[x].kind \in {"none", "result", "model", "invalid result",
                               "cached", "ValidationError", "LLMError", "AttributeError"}
       /\ outcome[x].payload \in Object \cup {Array, Nothing}
       /\ outcome[x].provider \in {0} \cup Provider

Init ==
  /\ breaker = [p \in Provider |-> NewBreaker]
  /\ cache = [k \in DocKey \cup ChunkKey |-> Nothing]
  /\ heap = [o \in Object |-> {}]
  /\ task = [x \in Extraction |-> IdleTask]
  /\ outcome = [x \in Extraction |-> NoOutcome]

----------------------------------------------------------------------------
\* The pieces of extract between two awaits.  br, ca and he are the breakers,
\* the cache and the heap as the earlier part of the step has left them.

Return(x, kind, d, payload, provider) ==
  /\ task' = [task EXCEPT ![x] = IdleTask]
  /\ outcome' = [outcome EXCEPT ![x] =
       [kind |-> kind, doc |-> d, payload |-> payload, provider |-> provider]]

\* _merge_chunk_payloads: the first non-empty payload's list takes the items
\* of the others, in place, up to an array, which has no items(); a single
\* payload is returned as it is.
Unmergeable(payloads) == {i \in DOMAIN payloads : Len(payloads) > 1 /\ payloads[i] = Array}
MergedList(payloads) ==
  LET full == {i \in DOMAIN payloads : payloads[i] # Nothing}
  IN IF full = {} THEN Nothing ELSE payloads[Min(full)]
Merge(payloads, he) ==
  LET list == MergedList(payloads)
      full == {i \in DOMAIN payloads :
                 payloads[i] # Nothing /\ \A j \in Unmergeable(payloads) : i < j}
  IN IF list \in {Array, Nothing} THEN he
     ELSE [he EXCEPT ![list] = UNION {he[payloads[i]] : i \in full}]

\* All chunks have a payload: merge, validate, cache, return, unless merging
\* raises.
Finish(x, t, br, ca, he) ==
  LET list == MergedList(t.payloads)
      kind == IF ~t.strict THEN "result"
              ELSE IF t.doc \in InvalidDoc \/ list = Array THEN "invalid result" ELSE "model"
  IN /\ heap' = Merge(t.payloads, he)
     /\ breaker' = br
     /\ IF Unmergeable(t.payloads) # {}
        THEN cache' = ca /\ Return(x, "AttributeError", t.doc, Nothing, 0)
        ELSE /\ cache' = IF UseCache /\ list # Nothing
                         THEN [ca EXCEPT ![<<t.doc>>] = list] ELSE ca
             /\ Return(x, kind, t.doc, list, IF t.last = 0 THEN 1 ELSE t.last)

\* Mutant: an open breaker ends the loop instead of being skipped.
Usable_Break(br, p) == {q \in {p} \cap Provider : CanExecute(br[q])}
Usable(br, p) == {q \in p..Len(Chain) : CanExecute(br[q])}

\* The provider loop, from provider p on: the first one whose breaker lets the
\* request through is called; when there is none, the extraction fails.
TryProviders(x, t, p, br, ca, he) ==
  LET usable == Usable(br, p)
      q == Min(usable)
  IN /\ cache' = ca
     /\ heap' = he
     /\ IF usable = {}
        THEN /\ breaker' = br
             /\ Return(x, "LLMError", t.doc, Nothing, 0)
        ELSE /\ breaker' = [br EXCEPT ![q] = AfterCanExecute(@)]
             /\ task' = [task EXCEPT ![x] =
                  [t EXCEPT !.pc = "calling", !.provider = q, !.attempt = 1,
                            !.tried = @ \cup (p..(q - 1))]]
             /\ UNCHANGED outcome

\* The payloads of the cached chunks t.chunk..upto.
\* Mutant: "continue" without appending the cached payload.
CachedPayloads_Skip(t, upto, ca) == <<>>
CachedPayloads(t, upto, ca) ==
  [i \in 1..(upto + 1 - t.chunk) |-> ca[KeyAt(t, t.chunk + i - 1)]]

\* The chunk loop, from chunk t.chunk on: cached chunks are taken as they are.
NextChunk(x, t, br, ca, he) ==
  LET n == Len(ChunksOf[t.doc])
      missing == {i \in t.chunk..n : ~UseCache \/ ca[KeyAt(t, i)] = Nothing}
      upto == IF missing = {} THEN n ELSE Min(missing) - 1
      t2 == [t EXCEPT !.payloads = @ \o CachedPayloads(t, upto, ca), !.chunk = upto + 1,
                      !.tried = {}]
  IN IF missing = {} THEN Finish(x, t2, br, ca, he)
     ELSE TryProviders(x, t2, 1, br, ca, he)

----------------------------------------------------------------------------
\* extract is called: a document hit in the cache answers at once, and with an
\* output_model that hit is validated again and may raise ValidationError.
Extract(x, d, strict) ==
  LET hit == cache[<<d>>] IN
  /\ task[x].pc = "idle"
  /\ IF UseCache /\ hit # Nothing
     THEN /\ Return(x, IF ~strict THEN "cached"
                       ELSE IF d \in InvalidDoc \/ hit = Array THEN "ValidationError" ELSE "model",
                    d, hit, 0)
          /\ UNCHANGED <<breaker, cache, heap>>
     ELSE NextChunk(x, [IdleTask EXCEPT !.doc = d, !.strict = strict, !.chunk = 1],
                    breaker, cache, heap)

\* A non-empty chunk payload goes into the cache.
\* Mutant: only whole documents are cached.
StoreChunk_Never(t, o) == cache
StoreChunk(t, o) == IF UseCache /\ o # Nothing
                    THEN [cache EXCEPT ![KeyOf(t)] = o] ELSE cache

\* The payload is a new list.
NewList(t, o) == IF o \in {Array, Nothing} THEN heap
                 ELSE [heap EXCEPT ![o] = {ChunksOf[t.doc][t.chunk]}]

\* The provider answers with a payload.
Answer(x, answer) ==
  LET t == task[x]
      o == CASE answer = "payload" -> ObjectOf(x)
             [] answer = "array" -> Array
             [] answer = "empty" -> Nothing
      br == [breaker EXCEPT ![t.provider] = RecordSuccess(@)]
  IN NextChunk(x, [t EXCEPT !.last = t.provider, !.payloads = Append(@, o), !.chunk = @ + 1],
               br, StoreChunk(t, o), NewList(t, o))

\* Mutant: one attempt too many.
MayRetry_OffByOne(t) == t.attempt <= MaxRetries
MayRetry(t) == t.attempt < MaxRetries

\* The provider raises: sleep before a retry, or go on to the next provider.
Fails(x, retryable) ==
  LET t == task[x]
      br == [breaker EXCEPT ![t.provider] = RecordFailure(@)]
  IN IF retryable /\ MayRetry(t)
     THEN /\ task' = [task EXCEPT ![x].pc = "sleeping"]
          /\ breaker' = br
          /\ UNCHANGED <<cache, heap, outcome>>
     ELSE TryProviders(x, [t EXCEPT !.tried = @ \cup {t.provider}],
                       t.provider + 1, br, cache, heap)

\* The backoff, or the provider's Retry-After, is over: call again.  The retry
\* loop does not ask the circuit breaker.
\* Mutant: the attempts are not counted.
Wake_Uncounted(x) ==
  /\ task[x].pc = "sleeping"
  /\ task' = [task EXCEPT ![x].pc = "calling"]
  /\ UNCHANGED <<breaker, cache, heap, outcome>>
Wake(x) ==
  /\ task[x].pc = "sleeping"
  /\ task' = [task EXCEPT ![x].pc = "calling", ![x].attempt = @ + 1]
  /\ UNCHANGED <<breaker, cache, heap, outcome>>

Tick == /\ breaker' = [p \in Provider |-> Age(breaker[p])]
        /\ UNCHANGED <<cache, heap, task, outcome>>

Respond(x) ==
  /\ task[x].pc = "calling"
  /\ \/ \E answer \in Answers(Chain[task[x].provider]) : Answer(x, answer)
     \/ \E error \in Errors(Chain[task[x].provider]) : Fails(x, error = "retryable")

Next == \/ \E x \in Extraction, d \in Doc, strict \in StrictChoice : Extract(x, d, strict)
        \/ \E x \in Extraction : Respond(x) \/ Wake(x)
        \/ Tick

Spec == Init /\ [][Next]_vars

\* A provider call returns or raises (the HTTP clients have timeouts) and a
\* sleep ends; nothing makes a caller call extract again.
FairSpec == Spec /\ \A x \in Extraction : WF_vars(Respond(x)) /\ WF_vars(Wake(x))

----------------------------------------------------------------------------
\* Properties.

\* A breaker is CLOSED exactly as long as it has counted fewer failures than
\* the threshold, however the calls of many extractions interleave: late
\* answers and probes never leave it open with a reset count or the reverse.
BreakerConsistent ==
  \A p \in Provider :
    breaker[p].state = "CLOSED" <=> breaker[p].failure_count < FailureThreshold

\* Chunk replay protection: an extraction never asks a provider for a chunk
\* whose payload it obtained before, in this call or in an earlier one that
\* failed later or was about another document with the same chunk.
NoReplay == UseCache =>
  \A x \in Extraction : task[x].pc # "idle" => heap[ObjectOf(x)] = {}

\* The payloads collected so far are those of the chunks before the current
\* one, each at its own position.
PayloadsInOrder ==
  \A x \in Extraction : task[x].pc # "idle" =>
    LET t == task[x] IN
    /\ Len(t.payloads) = t.chunk - 1
    /\ \A i \in DOMAIN t.payloads :
         t.payloads[i] \in {Array, Nothing} \/ t.payloads[i][2] = <<ChunksOf[t.doc][i], i>>

\* A payload that extract has returned holds only what was found in that
\* document's own chunks, when it is returned and ever after.
OwnFactsOnly ==
  \A x \in Extraction :
    LET r == outcome[x] IN
    r.payload \in Object =>
      heap[r.payload] \subseteq {ChunksOf[r.doc][i] : i \in 1..Len(ChunksOf[r.doc])}

\* extract raises LLMError only when, for one chunk, every provider of the
\* chain was called without success or had its breaker open.
FailsOnlyWhenExhausted ==
  [][\A x \in Extraction :
       /\ outcome'[x].kind = "LLMError" /\ task'[x].pc = "idle"
       /\ task'[x] # task[x] \/ outcome'[x] # outcome[x]
       =>
         \A p \in Provider :
           \/ task[x].pc = "calling" /\ p \in task[x].tried \cup {task[x].provider}
           \/ ~CanExecute(breaker[p]) \/ ~CanExecute(breaker'[p])]_vars

\* Every extraction ends, with a result or with an error.
ExtractionEnds == \A x \in Extraction : task[x].pc # "idle" ~> task[x].pc = "idle"
=============================================================================
