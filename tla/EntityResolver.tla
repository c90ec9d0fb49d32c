--------------------------- MODULE EntityResolver ---------------------------
(***************************************************************************)
(* Entity resolution (resolution/): the alias graph, the table of           *)
(* normalized names, the signals that resolve tries in order, and the names *)
(* that the pipelines put into their records.  What a resolver knows is a   *)
(* record; the operators below are what the methods do to it.               *)
(*                                                                          *)
(* Names are abstract; the conversions of names are constants.  Scores and  *)
(* confidences are percentages.                                             *)
(***************************************************************************)
EXTENDS Integers, Sequences, SequencesExt

CONSTANTS Name,    \* entity names, aliases, domains, without ""
          NoName,  \* "", or no name at all
          Key,     \* name.lower().strip()
          Norm,    \* normalize_entity_name
          Score,   \* _score of two normalized names
          Clean,   \* clean_canonical_name
          Id       \* generate_canonical_id for the type startup

Empty == ""        \* the normalized name of a name of suffixes and symbols
Known == Name \cup {NoName}
Lowered == {Key[n] : n \in Name}
Normal == {Norm[n] : n \in Known}

\* What the theorems need to know of the conversions: they are total, and
\* fuzz.ratio is a percentage that is 0 against an empty string.
ConversionsAssumption ==
  /\ NoName \notin Name
  /\ DOMAIN Key = Name /\ DOMAIN Id = Known
  /\ Norm[NoName] = Empty
  /\ Score \in [Normal \X Normal -> 0..100]

ConfidenceGate == 80      \* the pipelines take a resolution from here on
ContextualThreshold == 85

----------------------------------------------------------------------------
\* The alias graph and _canonical_by_normalized, a dictionary in the order of
\* its insertions, which decides between equal scores.

NewGraph == [canonical |-> [k \in Lowered |-> NoName],
             aliases |-> [n \in Name |-> {}],
             normalized |-> <<>>]

\* add_alias: the alias and the canonical name lead to the canonical name.
AddAlias(g, canonical, alias) ==
  [canonical |-> [k \in Lowered |->
                    IF k \in {Key[alias], Key[canonical]} THEN canonical ELSE g.canonical[k]],
   aliases |-> [g.aliases EXCEPT ![canonical] = @ \cup {alias}],
   normalized |-> g.normalized]

\* _canonical_by_normalized[norm] = canonical; a known key keeps its place.
Assigned(entries, norm, canonical) ==
  IF \E i \in DOMAIN entries : entries[i].norm = norm
  THEN [i \in DOMAIN entries |->
          IF entries[i].norm = norm THEN [entries[i] EXCEPT !.canonical = canonical]
          ELSE entries[i]]
  ELSE Append(entries, [norm |-> norm, canonical |-> canonical])

AddSeed(g, entity) ==
  IF Norm[entity] = Empty THEN g
  ELSE AddAlias([g EXCEPT !.normalized = Assigned(@, Norm[entity], entity)], entity, entity)

\* pair is a canonical name and an alias.
AddDefault(g, pair) ==
  LET h == AddAlias(g, pair[1], pair[2])
  IN IF Norm[pair[2]] = Empty THEN h
     ELSE [h EXCEPT !.normalized = Assigned(@, Norm[pair[2]], pair[1])]

Resolver(seeds, defaults) ==
  FoldLeft(AddDefault, FoldLeft(AddSeed, NewGraph, seeds), defaults)

GetCanonical(g, name) == IF name = NoName THEN NoName ELSE g.canonical[Key[name]]

----------------------------------------------------------------------------
\* resolve.  A query is the raw name, the argument company_domain, and what the
\* context says of domain, GitHub organisation and YC slug.

Query == [raw : Known, company_domain : Known, domain : Known,
          github_org : Known, yc_slug : Known]
Plain(name) == [raw |-> name, company_domain |-> NoName, domain |-> NoName,
                github_org |-> NoName, yc_slug |-> NoName]

Domain(q) == IF q.company_domain # NoName THEN q.company_domain ELSE q.domain

\* Signal 3: the entry with this normalized name.
Exact(g, norm) ==
  IF \E i \in DOMAIN g.normalized : g.normalized[i].norm = norm
  THEN (CHOOSE e \in {g.normalized[i] : i \in DOMAIN g.normalized} : e.norm = norm).canonical
  ELSE NoName

\* Signal 5: the first of the entries with the highest score.
ScoreAt(g, norm, i) == Score[<<norm, g.normalized[i].norm>>]
IsBest(g, norm, i) ==
  \A j \in DOMAIN g.normalized :
    \/ ScoreAt(g, norm, j) < ScoreAt(g, norm, i)
    \/ ScoreAt(g, norm, j) = ScoreAt(g, norm, i) /\ i <= j
Close(g, norm) == {i \in DOMAIN g.normalized :
                     IsBest(g, norm, i) /\ ScoreAt(g, norm, i) >= ContextualThreshold}

Signal(tier, name, confidence) == [tier |-> tier, name |-> name, confidence |-> confidence]

Fuzzy(g, norm) ==
  IF Close(g, norm) = {} THEN Signal("fuzzy", NoName, 0)
  ELSE LET i == CHOOSE i \in Close(g, norm) : TRUE
       IN Signal("fuzzy", g.normalized[i].canonical, ScoreAt(g, norm, i))

\* In the order in which they are tried.
Signals(g, q) ==
  << Signal("domain", GetCanonical(g, Domain(q)), 100),
     Signal("alias", GetCanonical(g, q.raw), 98),
     Signal("alias", Exact(g, Norm[q.raw]), 98),
     Signal("github_org", GetCanonical(g, q.github_org), 95),
     Signal("yc_slug", GetCanonical(g, q.yc_slug), 95),
     Fuzzy(g, Norm[q.raw]) >>

Hits(g, q) == {i \in 1..6 : Signals(g, q)[i].name # NoName}
FirstHit(g, q) == CHOOSE i \in Hits(g, q) : \A j \in Hits(g, q) : i <= j

\* Only the argument company_domain makes up for an empty name: a domain in the
\* context is not looked at.
EmptyInput(q) == Norm[q.raw] = Empty /\ q.company_domain = NoName

Result(signal, id) == [tier |-> signal.tier, name |-> signal.name,
                       confidence |-> signal.confidence, id |-> id]
Unresolved(id) == Result(Signal("unresolved", NoName, 0), id)

Resolve(g, q) ==
  IF EmptyInput(q) THEN Unresolved(NoName)
  ELSE IF Hits(g, q) = {} THEN Unresolved(IF q.raw = NoName THEN NoName ELSE Id[q.raw])
  ELSE LET s == Signals(g, q)[FirstHit(g, q)] IN Result(s, Id[s.name])

IsResolved(r) == r.name # NoName

----------------------------------------------------------------------------
\* What _build_record of the pipelines makes of a resolution: the name in the
\* record, and what the mapping log says.

Logged(name, id, confidence, tier) ==
  [name |-> name, id |-> id, confidence |-> confidence, tier |-> tier]

StartupName(raw, r) ==
  IF IsResolved(r) THEN Logged(r.name, r.id, r.confidence, r.tier)
  ELSE Logged(Clean[raw], r.id, 100, r.tier)

Confident(r) == IsResolved(r) /\ r.confidence >= ConfidenceGate

ProductName(r) ==
  IF Confident(r) THEN Logged(r.name, r.id, r.confidence, r.tier)
  ELSE Logged(NoName, NoName, 0, "UNRESOLVED")

JobName(raw, r) ==
  IF Confident(r) THEN Logged(r.name, r.id, r.confidence, r.tier)
  ELSE Logged(raw, r.id, 100, r.tier)

----------------------------------------------------------------------------
\* What a sound resolver knows: every name it can give is registered under its
\* own key and is not an alias of another entity.
Canonicals(g) == ({g.canonical[k] : k \in Lowered}
                   \cup {g.normalized[i].canonical : i \in DOMAIN g.normalized}) \ {NoName}
Closed(g) == \A c \in Canonicals(g) : c \in Name /\ g.canonical[Key[c]] = c

\* An alias that is neither another entity's name nor spelled like one, for a
\* canonical name that is not spelled in two ways, keeps it so.
Harmless(g, canonical, alias) ==
  \A c \in Canonicals(g) : Key[c] \in {Key[alias], Key[canonical]} => c = canonical

\* Resolving the name that resolve has given gives the same entity again: the
\* names in records can be resolved once more by later runs and joins.
Stable(g, q) ==
  LET r == Resolve(g, q) IN
  IsResolved(r) /\ Norm[r.name] # Empty => Resolve(g, Plain(r.name)).name = r.name
=============================================================================
