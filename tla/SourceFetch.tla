----------------------------- MODULE SourceFetch -----------------------------
(***************************************************************************)
(* How a pipeline gets its candidates: the crawlers of products and jobs    *)
(* run side by side under asyncio.gather, those of startups and the feeds   *)
(* of news one after the other.  A crawler sends its request under          *)
(* utils/retry.py, reads the page it gets, and makes up for what is missing *)
(* in its own way: with sample records, with numbered inventions, with      *)
(* nothing, or by failing the run.                                          *)
(*                                                                          *)
(* A page is the sequence of its entries.  An entry is "usable", "blank"    *)
(* (no title, or too short a one) or "invalid" (a relative link, a value    *)
(* that is not an object: building the candidate raises).  The length of a  *)
(* sleep is left out; how many there are, and after which answers, is not.  *)
(***************************************************************************)
EXTENDS Naturals, FiniteSets, SequencesExt

CONSTANTS Kind,      \* the pipelines that may run
          Limit,     \* the limits they may be given
          PageOf(_), \* pages the i-th crawler may meet
          Flaky      \* bound: the positions of crawlers whose requests may fail

\* 0 is left out: a startup run with limit 0 takes one candidate.
ASSUME FetchAssumption ==
  /\ Kind \subseteq {"products", "jobs", "startups", "news"}
  /\ Limit \subseteq Nat \ {0}
  /\ \A i \in 1..5 : PageOf(i) \subseteq Seq({"usable", "blank", "invalid"})

VARIABLES kind, limit, \* the pipeline and its limit
          crawler,     \* of every crawler: where it is, its attempt, what it has found
          phase, candidates

vars == <<kind, limit, crawler, phase, candidates>>

----------------------------------------------------------------------------
\* The crawlers, by what distinguishes them:
\*   attempts  max_attempts of the retry policy
\*   json      the body is decoded, and a body that cannot be is asked for again
\*   invalid   an invalid entry loses the page, is skipped, or sends the feed
\*             parser to its regular expression; "loses all": the selector of the
\*             crawler is itself invalid, and parsing raises on every page
\*   failed    what a failed request becomes: substitutes, nothing, an exception
\*   short     a page with too little is padded up to the limit, replaced by
\*             samples when it has nothing, or kept
\*   samples   how many sample records the crawler has

Directory == [attempts |-> 3, json |-> FALSE, invalid |-> "loses page",
              failed |-> "substitutes", short |-> "padded", samples |-> 5]
AIxploria == Directory
AIValley == Directory
Futurepedia == Directory
TopAITools == Directory

HuggingFaceSpaces == [attempts |-> 4, json |-> TRUE, invalid |-> "loses page",
                      failed |-> "nothing", short |-> "kept", samples |-> 0]

JobBoard == [Directory EXCEPT !.short = "samples", !.samples = 3]
AIJobs == JobBoard
\* ".styles_jobListing__..., article" is no CSS selector: select() raises.
WellfoundJobs == [JobBoard EXCEPT !.invalid = "loses all"]
MachineLearningJobs == JobBoard
Jobicy == JobBoard
RemoteOK == JobBoard

YCombinator == [attempts |-> 4, json |-> TRUE, invalid |-> "skipped",
                failed |-> "exception", short |-> "kept", samples |-> 0]
\* The startup pipeline goes on without enrichments when this one raises.
WellfoundEnricher == [attempts |-> 3, json |-> FALSE, invalid |-> "skipped",
                      failed |-> "nothing", short |-> "kept", samples |-> 0]

Feed == [attempts |-> 1, json |-> FALSE, invalid |-> "regex",
         failed |-> "nothing", short |-> "kept", samples |-> 0]

Crawlers(k) ==
  CASE k = "products" -> <<HuggingFaceSpaces, AIxploria, AIValley, Futurepedia, TopAITools>>
    [] k = "jobs" -> <<AIJobs, WellfoundJobs, MachineLearningJobs, Jobicy, RemoteOK>>
    [] k = "startups" -> <<YCombinator, WellfoundEnricher>>
    [] k = "news" -> [i \in 1..5 |-> Feed]

Enriches(k, i) == k = "startups" /\ i = 2
NewsSamples == 5

AtLeastOne(n) == IF n = 0 THEN 1 ELSE n
\* Mutant: the whole limit for everybody.
Share_Whole(k, n) == n
\* per_crawler_limit, per_source_limit
Share(k, n) == IF k = "startups" THEN n ELSE AtLeastOne(n \div Len(Crawlers(k)))

----------------------------------------------------------------------------
\* Reading a page.  What was found in entry j of a page is <<"real", j>>.

Least(a, b) == IF a <= b THEN a ELSE b
First(seq, n) == SubSeq(seq, 1, Least(n, Len(seq)))
InvalidAt(page) == {j \in DOMAIN page : page[j] = "invalid"}
Invalid(page) == InvalidAt(page) # {}
UsableIn(page) ==
  LET found[j \in 0..Len(page)] ==
        IF j = 0 THEN <<>>
        ELSE IF page[j] = "usable" THEN Append(found[j - 1], <<"real", j>>)
        ELSE found[j - 1]
  IN found[Len(page)]

\* A page up to the first of some of its entries.
UpTo(page, seen) ==
  IF seen = {} THEN page ELSE SubSeq(page, 1, Min(seen))
\* The entries the loop goes through before it has n candidates.
Seen(page, n) ==
  UpTo(page, {j \in DOMAIN page : Len(UsableIn(SubSeq(page, 1, j))) = n})

Samples(s, n) == [k \in 1..Least(s.samples, n) |-> <<"sample", k>>]

\* _fallback_candidates: what was found, or samples, then inventions.
\* Mutant: the samples come first, and what was found is cut off.
Padded_SamplesFirst(s, found, n) == First(Samples(s, n) \o found, n)
Padded(s, found, n) ==
  LET base == IF found = <<>> THEN Samples(s, n) ELSE found
  IN base \o [k \in 1..(n - Len(base)) |-> <<"made", Len(base) + k>>]

Fill(s, found, n) ==
  CASE s.short = "padded" /\ Len(found) < n -> Padded(s, found, n)
    [] s.short = "samples" /\ found = <<>> -> Samples(s, n)
    [] OTHER -> found

Nothing == [list |-> <<>>, raised |-> FALSE]
Found(list) == [list |-> list, raised |-> FALSE]

\* Mutant: the except clause is missing.
Failed_Propagates(s, n) == [list |-> <<>>, raised |-> TRUE]
\* What a crawler returns, or raises, when its request or its parser failed.
Failed(s, n) == CASE s.failed = "substitutes" -> Found(Fill(s, <<>>, n))
                  [] s.failed = "nothing" -> Nothing
                  [] s.failed = "exception" -> [list |-> <<>>, raised |-> TRUE]

\* parse_rss_xml: an invalid entry ends the XML pass, what it has found is kept,
\* and the regular expression goes through its matches from the start; an
\* invalid one among them loses the feed.
FeedOf(r, n) ==
  LET seen == Seen(r.page, n)
      matched == First(r.matches, n)
      kept == IF r.answer = "page" THEN UsableIn(UpTo(seen, InvalidAt(seen))) ELSE <<>>
  IN IF r.answer = "page" /\ ~Invalid(seen) THEN Found(UsableIn(seen))
     ELSE IF Invalid(matched) THEN Nothing ELSE Found(kept \o UsableIn(matched))

\* Parsing the page raises.
Loses(s, page, n) == \/ s.invalid = "loses all"
                     \/ s.invalid = "loses page" /\ Invalid(Seen(page, n))

\* fetch_products, fetch_jobs, fetch_startups, fetch_enrichments: the result
\* once the last answer is there.
ResultOf(s, r, n) ==
  IF s.invalid = "regex" /\ r.answer \in {"page", "garbled"} THEN FeedOf(r, n)
  ELSE IF r.answer # "page" THEN Failed(s, n)
  ELSE IF Loses(s, r.page, n) THEN Failed(s, n)
  ELSE Found(Fill(s, UsableIn(Seen(r.page, n)), n))

----------------------------------------------------------------------------
\* A crawler at work.

Waiting == [pc |-> "waiting", attempt |-> 0, page |-> <<>>, list |-> <<>>, raised |-> FALSE]
Requesting == [Waiting EXCEPT !.pc = "requesting", !.attempt = 1]
SideBySide == {"products", "jobs"}
Position == DOMAIN crawler
Over(i) == crawler[i].pc = "over"

Init ==
  /\ kind \in Kind /\ limit \in Limit
  /\ crawler = [i \in 1..Len(Crawlers(kind)) |->
                  IF i = 1 \/ kind \in SideBySide THEN Requesting ELSE Waiting]
  /\ phase = "fetching" /\ candidates = <<>>

\* gather has started all its crawlers; the others start one after the other.
Start(i) ==
  /\ phase = "fetching"
  /\ crawler[i].pc = "waiting"
  /\ \A j \in 1..(i - 1) : Over(j) /\ ~crawler[j].raised
  /\ crawler' = [crawler EXCEPT ![i] = Requesting]
  /\ UNCHANGED <<kind, limit, phase, candidates>>

Retryable(s, r) == r.answer = "temporary" \/ (s.json /\ r.answer = "garbled")

\* Mutant: one attempt too many.
MayRetry_OffByOne(s, attempt) == attempt <= s.attempts
MayRetry(s, attempt) == attempt < s.attempts

\* An answer: a page; a status of the retryable set; another error status or a
\* JSON payload of the wrong shape; an exception of the client, a timeout
\* among them, which is never retried; a body that cannot be decoded.
Respond(i, r) ==
  LET s == Crawlers(kind)[i]
      c == crawler[i]
      result == ResultOf(s, r, Share(kind, limit))
  IN /\ c.pc = "requesting"
     /\ crawler' = [crawler EXCEPT ![i] =
          IF Retryable(s, r) /\ MayRetry(s, c.attempt)
          THEN [c EXCEPT !.pc = "sleeping"]
          ELSE [pc |-> "over", attempt |-> c.attempt,
                page |-> IF r.answer = "page" THEN r.page ELSE <<>>,
                list |-> result.list, raised |-> result.raised]]
     /\ UNCHANGED <<kind, limit, phase, candidates>>

Wake(i) ==
  /\ crawler[i].pc = "sleeping"
  /\ crawler' = [crawler EXCEPT ![i].pc = "requesting", ![i].attempt = @ + 1]
  /\ UNCHANGED <<kind, limit, phase, candidates>>

\* The results in the order of the crawlers, each with its crawler.
\* Mutant: in the order in which the crawlers have answered.
InOrder_ByAttempts(results) ==
  LET order == SortSeq([i \in DOMAIN results |-> i],
                       LAMBDA i, j : crawler[i].attempt < crawler[j].attempt)
  IN FlattenSeq([k \in DOMAIN results |-> [j \in DOMAIN results[order[k]] |->
                  [by |-> order[k], what |-> results[order[k]][j]]]])
InOrder(results) ==
  FlattenSeq([i \in DOMAIN results |->
    [j \in DOMAIN results[i] |-> [by |-> i, what |-> results[i][j]]]])

Gathered ==
  LET found == InOrder([i \in Position |->
                          IF Enriches(kind, i) THEN <<>> ELSE crawler[i].list])
  IN IF kind = "news" /\ found = <<>>
     THEN [k \in 1..Least(NewsSamples, limit) |-> [by |-> 0, what |-> <<"sample", k>>]]
     ELSE found

\* return_exceptions=True: a crawler that raised leaves the others' results
\* alone.  Without gather the exception ends the run.
Gather ==
  /\ phase = "fetching"
  /\ \/ /\ \A i \in Position : Over(i)
        /\ \A i \in Position : ~crawler[i].raised
        /\ phase' = "gathered"
        /\ candidates' = Gathered
     \/ /\ \E i \in Position : crawler[i].raised
        /\ phase' = "failed"
        /\ UNCHANGED candidates
  /\ UNCHANGED <<kind, limit, crawler>>

Answer(name) == [answer |-> name, page |-> <<>>, matches |-> <<>>]
Answers(i) ==
  LET s == Crawlers(kind)[i]
      pages == {[answer |-> "page", page |-> p, matches |-> <<>>] : p \in PageOf(i)}
      feeds == {[answer |-> a, page |-> p, matches |-> m] :
                  a \in {"page", "garbled"}, p \in PageOf(i), m \in PageOf(i) \cup {<<>>}}
      errors == IF i \in Flaky
                THEN {Answer("temporary"), Answer("refused"), Answer("broken")} ELSE {}
      garbled == IF s.json /\ i \in Flaky THEN {Answer("garbled")} ELSE {}
  IN errors \cup garbled \cup
       IF s.invalid = "regex" THEN {r \in feeds : r.matches \in {r.page, <<>>}} ELSE pages

Next == \/ \E i \in Position : Start(i) \/ Wake(i) \/ \E r \in Answers(i) : Respond(i, r)
        \/ Gather

Spec == Init /\ [][Next]_vars

\* A request ends, at the latest by the timeout of its session; a sleep ends.
FairSpec == Spec /\ WF_vars(Next)

----------------------------------------------------------------------------
\* Properties.

TypeOK ==
  /\ kind \in Kind /\ limit \in Limit
  /\ phase \in {"fetching", "gathered", "failed"}
  /\ \A i \in Position :
       /\ crawler[i].pc \in {"waiting", "requesting", "sleeping", "over"}
       /\ crawler[i].attempt \in 0..Crawlers(kind)[i].attempts
       /\ crawler[i].raised => kind = "startups" /\ i = 1

\* The list of candidates does not depend on who answers first: it goes through
\* the crawlers in their order, and what a crawler makes up follows what it has
\* found.  The first candidate of a name
\* wins later, so the order decides what is stored.
InSourceOrder ==
  \A p, q \in DOMAIN candidates : p < q =>
    LET a == candidates[p] b == candidates[q]
    IN /\ a.by <= b.by
       /\ a.by = b.by /\ b.what[1] = "real" => a.what[1] = "real"

\* Substitutes stand in for what is missing and for nothing else: a crawler
\* invents only what is missing up to its share, and no usable entry of a page
\* that could be read is left out while there is room for it.  (No page of
\* Wellfound Jobs can be read: see WellfoundJobs.)
Read(i) == LET page == crawler[i].page
               s == Crawlers(kind)[i]
           IN page # <<>> /\ ~Invalid(page) /\ s.invalid # "loses all"
SubstitutesOnlyForMissing ==
  phase = "gathered" => \A i \in Position :
    LET page == crawler[i].page
        n == Share(kind, limit)
        mine == {p \in DOMAIN candidates : candidates[p].by = i}
        real == {candidates[p].what : p \in {q \in mine : candidates[q].what[1] = "real"}}
        made == {p \in mine : candidates[p].what[1] # "real"}
    IN /\ Read(i) /\ ~Enriches(kind, i) =>
            real = ToSet(UsableIn(page)) \/ Cardinality(real) = n
       /\ made # {} => Cardinality(real) + Cardinality(made) <= n

\* No run gathers more different candidates than its limit, or one for every
\* crawler: small limits are rounded up, and a feed with an invalid entry
\* yields its first entries twice.
WithinLimit ==
  Cardinality(ToSet(candidates)) <= IF Len(Crawlers(kind)) > limit
                                    THEN Len(Crawlers(kind)) ELSE limit

\* Gathering ends, whoever fails, retries or is slow, and fails only when the
\* list of Y Combinator cannot be had.
GatherEnds == <>(phase = "gathered" \/ (phase = "failed" /\ kind = "startups"))
=============================================================================
