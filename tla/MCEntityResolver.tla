-------------------------- MODULE MCEntityResolver --------------------------
(***************************************************************************)
(* Entity resolution on five names, with some lists of seeds and every      *)
(* alias.  TLC evaluates the assumptions before it checks a model.         *)
(***************************************************************************)
EXTENDS Integers, Sequences

\* "Acme" is also spelled in capitals and known by a domain; "Acmi" is close to
\* it; "Co" has an empty normalized name.
EntityName == {"Acme", "ACME", "acme.com", "Acmi", "Co"}
Unnamed == "-"
Mentioned == EntityName \cup {Unnamed}

LowerCase == [n \in EntityName |-> IF n = "ACME" THEN "Acme" ELSE n]
Compact == [n \in Mentioned |->
  CASE n \in {"Acme", "ACME"} -> "acme" [] n = "acme.com" -> "acmecom"
    [] n = "Acmi" -> "acmi" [] OTHER -> ""]
Compacted == {Compact[n] : n \in Mentioned}
Ratio == [p \in Compacted \X Compacted |->
  CASE "" \in {p[1], p[2]} -> 0 [] p[1] = p[2] -> 100
    [] {p[1], p[2]} = {"acme", "acmi"} -> 85 [] OTHER -> 84]

LOCAL INSTANCE EntityResolver WITH
  Name <- EntityName, NoName <- Unnamed, Key <- LowerCase, Norm <- Compact,
  Score <- Ratio, Clean <- [n \in Mentioned |-> n], Id <- [n \in Mentioned |-> n]

SeedLists == {<<>>, <<"Acme">>, <<"ACME", "Acme">>, <<"Acme", "Acmi">>, <<"Acmi", "Co">>}
AliasLists == {<<>>} \cup {<<pair>> : pair \in EntityName \X EntityName}
Queries == [raw : Mentioned, company_domain : {Unnamed, "acme.com"},
            domain : {Unnamed, "acme.com"}, github_org : {Unnamed, "Acmi"}, yc_slug : {Unnamed}]

\* A list is harmless if every step of building a resolver from it is.
HarmlessSeeds(seeds) ==
  \A i \in DOMAIN seeds :
    Harmless(Resolver(SubSeq(seeds, 1, i - 1), <<>>), seeds[i], seeds[i])
HarmlessLists(seeds, aliases) ==
  /\ HarmlessSeeds(seeds)
  /\ \A i \in DOMAIN aliases :
       Harmless(Resolver(seeds, SubSeq(aliases, 1, i - 1)), aliases[i][1], aliases[i][2])

\* The conversions are as the theorems assume.
ASSUME ConversionsHold == ConversionsAssumption

\* Resolvers built from harmless lists are closed, and names resolve to
\* themselves.
ASSUME HarmlessIsStable ==
  \A seeds \in SeedLists, aliases \in AliasLists :
    HarmlessLists(seeds, aliases) =>
      LET g == Resolver(seeds, aliases)
      IN Closed(g) /\ \A q \in Queries : Stable(g, q)

\* The condition is needed: with the name of a seed as the alias of another
\* entity, a name in a record resolves to something else later.
ASSUME HarmIsUnstable ==
  LET g == Resolver(<<"Acme", "Acmi">>, << <<"Acmi", "acme.com">>, <<"Acme", "Acmi">> >>)
  IN \E q \in Queries : ~Stable(g, q)

\* Whatever the lists, a resolution is confident enough for all pipelines, a
\* domain decides over the name, and an empty name is not resolved by the
\* domain in its context.
ASSUME ResolutionsAreConfident ==
  \A seeds \in SeedLists, aliases \in AliasLists :
    LET g == Resolver(seeds, aliases) IN
    \A q \in Queries :
      LET r == Resolve(g, q) IN
      /\ IsResolved(r) <=> Confident(r)
      /\ ProductName(r).name = Unnamed <=> ~IsResolved(r)
      /\ ~EmptyInput(q) /\ GetCanonical(g, Domain(q)) # Unnamed
           => r.tier = "domain" /\ r.name = GetCanonical(g, Domain(q))
      /\ EmptyInput(q) => r.id = Unnamed /\ ~IsResolved(r)
=============================================================================
