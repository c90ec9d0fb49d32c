---------------------------- MODULE PaperHarvest ----------------------------
(***************************************************************************)
(* How the research pipeline collects its papers.  It reads links of papers *)
(* to repositories from a dataset, page by page; asks arXiv for the papers  *)
(* with an id, batch by batch; fills up from arXiv's listing, newest first, *)
(* whose pages shift while it is read; joins papers and links; and asks     *)
(* GitHub for the stars of the repositories of one paper after the other,   *)
(* several at a time.                                                       *)
(*                                                                          *)
(* Ids, titles and repositories are what their normalisation leaves.  What  *)
(* is stored of a record, and when that fails, is in IngestPipeline.        *)
(***************************************************************************)
EXTENDS Naturals, FiniteSets, SequencesExt

CONSTANTS Paper,     \* arXiv ids
          Repo,      \* repositories on GitHub
          Title(_),  \* the title of a paper, as compared by the join
          Stars(_),  \* the stars of a repository
          Dataset,   \* the datasets there may be: sequences of rows
          Listing,   \* arXiv's listing when the run begins, newest first
          Arrivals,  \* bound: papers submitted while the run reads
          Since,     \* the papers published since the date given, for every date
          Limits,    \* limits the run may be given
          PageSize,  \* of the dataset and of the listing
          BatchSize, \* of requests by id
          MaxAttempts, \* of the retry policy
          Slots      \* GitHub requests at a time

\* A row links a repository to a paper, by its id or by another key; a missing
\* key or title, or a repository elsewhere, is None.
None == "none"

ASSUME HarvestAssumption ==
  /\ {PageSize, BatchSize, MaxAttempts, Slots} \cup Limits \subseteq Nat \ {0}
  /\ Since \subseteq SUBSET Paper
  /\ None \notin Paper \cup Repo
  /\ \A r \in Repo : Stars(r) \in Nat
  /\ \A d \in Dataset : /\ d \in Seq(ToSet(d))
                        /\ \A i \in DOMAIN d : d[i].repo \in Repo \cup {None}
  /\ Listing \in Seq(Paper) /\ Arrivals \in Seq(Paper)
  \* arXiv lists a paper once, under the date of its first version.
  /\ IsInjective(Listing) /\ ToSet(Listing) \cap ToSet(Arrivals) = {}

VARIABLES phase, limit, recent, dataset,
          arrived,         \* how many papers have been submitted
          request,         \* the request to the dataset or to arXiv
          offset, mappings, \* rows and links read
          batch, byId,     \* ids asked for, papers got
          listed, listing, \* papers read from the listing, and how that went
          joined, at,      \* the papers of the run, and the one in work
          repositories,    \* of that paper, ranked, once they are asked for
          fetch,           \* of every one of them: its request
          records

vars == <<phase, limit, recent, dataset, arrived, request, offset, mappings, batch,
          byId, listed, listing, joined, at, repositories, fetch, records>>
source == <<limit, recent, dataset>>

Least(a, b) == IF a <= b THEN a ELSE b
First(seq, n) == SubSeq(seq, 1, Least(n, Len(seq)))
From(seq, start, n) == SubSeq(seq, start + 1, Least(start + n, Len(seq)))

\* The entries of a sequence at some places, and those that are in a set.
Picked(seq, places) ==
  LET got[k \in 0..Len(seq)] ==
        IF k = 0 THEN <<>>
        ELSE IF k \in places THEN Append(got[k - 1], seq[k]) ELSE got[k - 1]
  IN got[Len(seq)]
Those(seq, S) == Picked(seq, {i \in DOMAIN seq : seq[i] \in S})

----------------------------------------------------------------------------
\* Links and their join with papers.

\* Mutant: a paper found on an earlier page keeps the links of that page.
Merge_KeepsFirst(links, row) ==
  IF None \in {row.key, row.repo} \/ \E i \in DOMAIN links : links[i].key = row.key
  THEN links
  ELSE Append(links, [key |-> row.key, title |-> row.title, repos |-> <<row>>])
\* A row enters the links under its key, after those that are there.
Merge(links, row) ==
  IF None \in {row.key, row.repo} THEN links
  ELSE IF \E i \in DOMAIN links : links[i].key = row.key
  THEN [i \in DOMAIN links |->
          IF links[i].key = row.key
          THEN [links[i] EXCEPT !.repos = Append(@, row)] ELSE links[i]]
  ELSE Append(links, [key |-> row.key, title |-> row.title, repos |-> <<row>>])

Merged(links, rows) ==
  LET after[k \in 0..Len(rows)] ==
        IF k = 0 THEN links ELSE Merge(after[k - 1], rows[k])
  IN after[Len(rows)]

\* The ids to ask for, in the order of the links.
Ids == First(Those([i \in DOMAIN mappings |-> mappings[i].key], Paper), 2 * limit)

\* The links of a paper: by id, else those of the last key with its title.
LinksOf(p) ==
  LET byKey == {i \in DOMAIN mappings : mappings[i].key = p}
      byTitle == {i \in DOMAIN mappings : mappings[i].title = Title(p)}
  IN IF byKey # {} THEN mappings[Min(byKey)].repos
     ELSE IF byTitle # {} THEN mappings[Max(byTitle)].repos ELSE <<>>

\* _rank_repositories: every repository once, as its first row has it, the
\* official ones first.  How the others are ranked is left out.
Ranked(rows) ==
  LET New == {i \in DOMAIN rows : \A k \in 1..(i - 1) : rows[k].repo # rows[i].repo}
      Official == {i \in New : rows[i].official}
  IN Picked(rows, Official) \o Picked(rows, New \ Official)

\* The links of the paper in work.
Links == LinksOf(joined[at])

\* Papers by id, then those of the listing that are not among them; none when
\* the listing failed.
Union ==
  byId \o Picked(listed, {i \in DOMAIN listed :
                             /\ listed[i] \notin ToSet(byId)
                             /\ \A j \in 1..(i - 1) : listed[j] # listed[i]})
Papers == IF listing = "failed" THEN <<>> ELSE Union
Join == First(Those(Papers, recent), limit)

----------------------------------------------------------------------------
\* One request at a time, under the retry policy.

Asking == [pc |-> "asking", attempt |-> 1]
MayRetry(attempt) == attempt < MaxAttempts

\* Mutant: the attempt is not counted.
Again_Uncounted(r) == [r EXCEPT !.pc = "asking"]
Again(r) == [pc |-> "asking", attempt |-> r.attempt + 1]

Init ==
  /\ phase = "links" /\ limit \in Limits /\ recent \in Since
  /\ dataset \in Dataset /\ arrived = 0
  /\ request = Asking
  /\ offset = 0 /\ mappings = <<>> /\ batch = 0 /\ byId = <<>>
  /\ listed = <<>> /\ listing = "whole" /\ joined = <<>> /\ at = 1
  /\ repositories = <<>> /\ fetch = <<>> /\ records = <<>>

\* A temporary status; to the dataset also a body that is no JSON, to arXiv
\* also every exception of the client.
Retry ==
  /\ phase \in {"links", "ids", "listing"}
  /\ request.pc = "asking" /\ MayRetry(request.attempt)
  /\ request' = [request EXCEPT !.pc = "sleeping"]
  /\ UNCHANGED <<source, phase, arrived, offset, mappings, batch, byId, listed,
                 listing, joined, at, repositories, fetch, records>>

Wake ==
  /\ request.pc = "sleeping"
  /\ request' = Again(request)
  /\ UNCHANGED <<source, phase, arrived, offset, mappings, batch, byId, listed,
                 listing, joined, at, repositories, fetch, records>>

\* fetch_mappings: the next page of at most five times the limit; a failure or
\* a short page ends it with the links that are there.
RowLimit == 5 * limit
PageLength == Least(PageSize, RowLimit - offset)

ReadRows ==
  LET rows == From(dataset, offset, PageLength)
  IN /\ phase = "links" /\ request.pc = "asking"
     /\ mappings' = Merged(mappings, rows)
     /\ offset' = offset + Len(rows)
     /\ request' = Asking
     /\ phase' = IF Len(rows) < PageLength \/ offset' >= RowLimit THEN "ids" ELSE "links"
     /\ UNCHANGED <<source, arrived, batch, byId, listed, listing, joined, at,
                    repositories, fetch, records>>

\* The last attempt, an error that is not retried, or a row that is no link.
GiveUpRows ==
  /\ phase = "links" /\ request.pc = "asking"
  /\ phase' = "ids" /\ request' = Asking
  /\ UNCHANGED <<source, arrived, offset, mappings, batch, byId, listed, listing,
                 joined, at, repositories, fetch, records>>

\* fetch_by_ids: a batch that fails is skipped, as a paper arXiv does not know.
Batch == From(Ids, batch, BatchSize)
ReadBatch(answered) ==
  /\ phase = "ids" /\ batch < Len(Ids)
  /\ request.pc = "asking"
  /\ byId' = byId \o Those(Batch, answered)
  /\ batch' = batch + BatchSize
  /\ request' = Asking
  /\ UNCHANGED <<source, phase, arrived, offset, mappings, listed, listing,
                 joined, at, repositories, fetch, records>>

\* Mutant: the listing is asked for what is missing only, and fetches again
\* papers that are there.
Missing_Only == limit - Len(byId)
\* How many papers the listing is read for.
Missing == limit

Enough == Len(byId) >= limit

AllAsked ==
  /\ phase = "ids" /\ batch >= Len(Ids)
  /\ phase' = IF Enough THEN "join" ELSE "listing"
  /\ request' = Asking
  /\ UNCHANGED <<source, arrived, offset, mappings, batch, byId, listed, listing,
                 joined, at, repositories, fetch, records>>

\* iter_papers: entries from where the last page ended, counted in papers.
Current == Reverse(First(Arrivals, arrived)) \o Listing
Wanted == Least(PageSize, Missing - Len(listed))

\* Mutant: positions that count from one.
Start_OneBased == IF listed = <<>> THEN 0 ELSE Len(listed) + 1
Start == Len(listed)

\* A page may hold fewer papers than asked for: the server shortens it, or its
\* one entry is an error.
ReadListing(n) ==
  LET papers == From(Current, Start, n)
  IN /\ phase = "listing" /\ request.pc = "asking" /\ n <= Wanted
     /\ listed' = listed \o papers
     /\ listing' = IF n < Wanted THEN "short" ELSE listing
     /\ phase' = IF Len(papers) < Wanted \/ Len(listed') >= Missing THEN "join" ELSE "listing"
     /\ request' = Asking
     /\ UNCHANGED <<source, arrived, offset, mappings, batch, byId, joined, at,
                    repositories, fetch, records>>

\* The exception of the listing reaches ingest, which goes on without papers.
FailListing ==
  /\ phase = "listing" /\ request.pc = "asking"
  /\ listing' = "failed" /\ phase' = "join" /\ request' = Asking
  /\ UNCHANGED <<source, arrived, offset, mappings, batch, byId, listed, joined,
                 at, repositories, fetch, records>>

JoinPapers ==
  /\ phase = "join"
  /\ joined' = Join
  /\ phase' = "metrics"
  /\ UNCHANGED <<source, arrived, request, offset, mappings, batch, byId, listed,
                 listing, at, repositories, fetch, records>>

----------------------------------------------------------------------------
\* The repositories of the paper in work, asked side by side.

Busy == {i \in DOMAIN fetch : fetch[i].pc \in {"asking", "sleeping"}}
Queued == {i \in DOMAIN fetch : fetch[i].pc = "queued"}
Answered == {i \in DOMAIN fetch : fetch[i].pc = "answered"}
InWork == phase = "metrics" /\ at \in DOMAIN joined

harvested == <<source, phase, arrived, request, offset, mappings, batch, byId,
               listed, listing, joined>>

Gather ==
  /\ InWork /\ repositories = <<>> /\ Links # <<>>
  /\ repositories' = Ranked(Links)
  /\ fetch' = [i \in DOMAIN repositories' |-> [pc |-> "queued", attempt |-> 0]]
  /\ UNCHANGED <<harvested, at, records>>

\* The semaphore is held through retries and sleeps.
\* Mutant: a sleeping request gives it back.
Holding_Asking == {i \in DOMAIN fetch : fetch[i].pc = "asking"}
Holding == Busy
Ask ==
  /\ Queued # {} /\ Cardinality(Holding) < Slots
  /\ fetch' = [fetch EXCEPT ![Min(Queued)] = Asking]
  /\ UNCHANGED <<harvested, at, repositories, records>>

\* An answer with stars; a temporary status; or an error: a status, a body that
\* is no JSON, a repository without stars, an exception of the client.
Respond(i, answer) ==
  /\ fetch[i].pc = "asking"
  /\ fetch' = [fetch EXCEPT ![i].pc =
       IF answer = "stars" THEN "answered"
       ELSE IF answer = "temporary" /\ MayRetry(fetch[i].attempt) THEN "sleeping" ELSE "failed"]
  /\ UNCHANGED <<harvested, at, repositories, records>>

WakeFetch(i) ==
  /\ fetch[i].pc = "sleeping"
  /\ fetch' = [fetch EXCEPT ![i] = Again(fetch[i])]
  /\ UNCHANGED <<harvested, at, repositories, records>>

\* _choose_primary_metrics: of the official repositories that have answered, or
\* of all that have, the first with most stars.
MostStars(known) ==
  LET StarsAt(i) == Stars(repositories[i].repo)
  IN CHOOSE i \in known : \A j \in known :
       StarsAt(i) > StarsAt(j) \/ (StarsAt(i) = StarsAt(j) /\ i <= j)
Primary ==
  LET official == {i \in Answered : repositories[i].official}
  IN IF official # {} THEN repositories[MostStars(official)].repo
     ELSE IF Answered # {} THEN repositories[MostStars(Answered)].repo ELSE None

\* _build_record.  Without metrics the first repository stands for the paper.
Record ==
  [paper |-> joined[at],
   repos |-> {repositories[i].repo : i \in DOMAIN repositories},
   stars |-> Primary,
   primary |-> IF Primary # None \/ repositories = <<>> THEN Primary ELSE repositories[1].repo]

Build ==
  /\ InWork /\ Busy \cup Queued = {}
  /\ repositories # <<>> \/ Links = <<>>
  /\ records' = Append(records, Record)
  /\ at' = at + 1 /\ repositories' = <<>> /\ fetch' = <<>>
  /\ UNCHANGED harvested

Complete ==
  /\ phase = "metrics" /\ at \notin DOMAIN joined
  /\ phase' = "over"
  /\ UNCHANGED <<source, arrived, request, offset, mappings, batch, byId, listed,
                 listing, joined, at, repositories, fetch, records>>

----------------------------------------------------------------------------
\* A paper is submitted.
Arrive ==
  /\ arrived < Len(Arrivals)
  /\ phase = "listing"
  /\ arrived' = arrived + 1
  /\ UNCHANGED <<source, phase, request, offset, mappings, batch, byId, listed,
                 listing, joined, at, repositories, fetch, records>>

Work == \/ Retry \/ Wake
        \/ ReadRows \/ GiveUpRows
        \/ \E answered \in SUBSET ToSet(Batch) : ReadBatch(answered)
        \/ AllAsked
        \/ \E n \in 0..PageSize : ReadListing(n)
        \/ FailListing \/ JoinPapers
        \/ Gather \/ Ask
        \/ \E i \in DOMAIN fetch :
             WakeFetch(i) \/ \E a \in {"stars", "temporary", "refused"} : Respond(i, a)
        \/ Build \/ Complete

Next == Work \/ Arrive

Spec == Init /\ [][Next]_vars

\* A request ends, at the latest by the timeout of the session; a sleep ends.
FairSpec == Spec /\ WF_vars(Work)

----------------------------------------------------------------------------
\* Properties.

Request == [pc : {"asking", "sleeping", "queued", "answered", "failed"}, attempt : 0..MaxAttempts]

\* The bounds of the retry policy and of the semaphore.
RequestsOK ==
  /\ request \in Request
  /\ \A i \in DOMAIN fetch : fetch[i] \in Request
  /\ Cardinality(Busy) <= Slots

TypeOK ==
  /\ phase \in {"links", "ids", "listing", "join", "metrics", "over"}
  /\ limit \in Limits /\ recent \in Since /\ dataset \in Dataset /\ arrived \in 0..Len(Arrivals)
  /\ RequestsOK
  /\ offset \in 0..RowLimit /\ batch \in Nat
  /\ ToSet(byId) \cup ToSet(listed) \cup ToSet(joined) \subseteq Paper
  /\ listing \in {"whole", "short", "failed"}
  /\ Len(joined) <= limit /\ Len(records) = at - 1 /\ at - 1 <= Len(joined)

\* The pages of the listing overlap when papers are submitted between them, but
\* no paper that was there is skipped: what has been read is a beginning.
NoGap ==
  \A i, j \in DOMAIN Listing :
    i < j /\ Listing[j] \in ToSet(listed) => Listing[i] \in ToSet(listed)

\* Nothing that was found is thrown away for another reason than the limit, the
\* date or a listing that failed: papers found by id come first, and every
\* paper submitted while the listing is read costs the run at most one.
FoundIsJoined ==
  phase \in {"metrics", "over"} /\ listing # "failed" =>
    LET found == Those(byId, recent)
        ids == First(found, limit)
    IN /\ ids = First(joined, Len(ids))
       /\ listing = "whole" /\ recent = Paper /\ ~Enough =>
            Len(joined) + arrived >= Least(limit, Len(Listing))

\* A record has the repositories that the rows read so far give to its paper, on
\* whatever pages they were: those of the paper's id or, when there are none, of
\* a key that has its title.  Its stars are those of one of them.
ReadTo == SubSeq(dataset, 1, offset)
RecordsFollowDataset ==
  \A r \in ToSet(records) :
    LET mine == {i \in DOMAIN ReadTo : ReadTo[i].key = r.paper /\ ReadTo[i].repo # None}
    IN /\ mine # {} => r.repos = {ReadTo[i].repo : i \in mine}
       /\ mine = {} => \A repo \in r.repos : \E i \in DOMAIN ReadTo :
                         /\ ReadTo[i].repo = repo
                         /\ \E k \in DOMAIN ReadTo : /\ ReadTo[k].key = ReadTo[i].key
                                                    /\ ReadTo[k].title = Title(r.paper)
       /\ {r.stars, r.primary} \subseteq r.repos \cup {None}

\* The run collects its papers in finitely many requests, whoever fails.
HarvestEnds == <>(phase = "over")
=============================================================================
