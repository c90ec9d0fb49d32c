---------------------------- MODULE MCMasterRun ----------------------------
(***************************************************************************)
(* Instances of MasterRun for TLC.                                          *)
(***************************************************************************)
EXTENDS MasterRun, MCEntityResolver

CONSTANTS m1, m2,
          paper, coded,               \* a new paper, one with code
          acme, acmeLtd,              \* two companies of one name
          tool,                       \* a product
          mangled,                    \* one without a valid URL
          fresh, old, sample,         \* articles
          job, repost, stale, broken, \* postings of one role
          lead                        \* and that role, renamed at the URL of job

AllFive == <<"papers", "startups", "products", "news", "jobs">>
JobsOnly == <<"jobs">>

\* Master runs differ in nothing but their names.
AnyOrder == Permutations(Master)

Runs == Master \X ToSet(Order)
Verticals == [r \in Runs |-> r[2]]
Stores == Master \cup {Postgres}

Preprints == {paper, coded}
Startups == {acme, acmeLtd}
Products == {tool, mangled}
News == {fresh, old, sample}
Jobs == {job, repost, stale, broken, lead}
Candidates == Preprints \cup Startups \cup Products \cup News \cup Jobs

Types == [c \in Candidates |->
  CASE c \in Preprints -> "papers" [] c \in Startups -> "startups"
    [] c \in Products -> "products" [] c \in News -> "news" [] c \in Jobs -> "jobs"]

\* Everything but the postings of one role has a key of its own.
Keys == [c \in Candidates |->
  IF c \in {job, repost, stale, broken} THEN job ELSE c]

\* Every listing but the renamed one has a URL of its own.
Urls == [c \in Candidates |-> IF c = lead THEN job ELSE c]

\* The two startups share a name.
Names == [c \in Candidates |-> IF c \in {acme, acmeLtd} THEN acme ELSE Keys[c]]

Dates == [c \in Candidates |-> IF c \in {old, stale} THEN -2 ELSE IF c = job THEN -1 ELSE 0]

Asked(jobs) == [v \in Vertical |->
  CASE v = "papers" -> <<"byIds", "direct">>
    [] v = "startups" -> <<"yc">>
    [] v = "products" -> <<"aivalley", "futurepedia">>
    [] v = "news" -> <<"techcrunch", "verge">>
    [] v = "jobs" -> jobs]
AskedOnce == Asked(<<"aijobs", "jobicy", "remoteok">>)
AskedTwice == Asked(<<"aijobs", "machinelearningjobs", "jobicy", "remoteok">>)

Found == [byIds |-> <<coded>>, direct |-> <<coded, paper>>,
          yc |-> <<acme, acmeLtd>>,
          aivalley |-> <<mangled>>, futurepedia |-> <<tool>>,
          techcrunch |-> <<old>>, verge |-> <<fresh>>,
          aijobs |-> <<broken>>, machinelearningjobs |-> <<stale>>,
          jobicy |-> <<job>>, remoteok |-> <<repost>>]

FoundOne == [Found EXCEPT !.yc = <<acme>>, !.remoteok = <<lead>>]

\* One crawler falls back on a sample posting.
Spare == [s \in DOMAIN Found |-> IF s = "jobicy" THEN <<repost>> ELSE <<>>]
OneSample == <<sample>>
=============================================================================
