--------------------------- MODULE MCPaperHarvest ---------------------------
(***************************************************************************)
(* Instances of PaperHarvest for TLC.                                       *)
(***************************************************************************)
EXTENDS PaperHarvest, TLC

CONSTANTS p1, p2, p3, p4, p5, p6, r1, r2, r3

\* p4 has the title of p1, another paper.
TitleOf(p) == IF p \in {p1, p4} THEN "t" ELSE "u"
StarsOf(r) == IF r = r3 THEN 2 ELSE 1

Row(key, title, repo, official) ==
  [key |-> key, title |-> title, repo |-> repo, official |-> official]

\* The links of a paper on two pages, with one repository twice and two that
\* are official; a row that only has a title; one whose repository is elsewhere.
Rows == <<Row(p1, "t", r1, FALSE), Row("url", "t", r3, FALSE),
          Row(p2, "u", None, TRUE), Row(p1, "t", r2, TRUE),
          Row(p1, "t", r1, TRUE), Row(p3, None, r3, TRUE), Row(p1, None, r3, FALSE)>>
Datasets == {Rows, <<>>}

ListingNow == <<p4, p1, p3, p2>>
Submitted == <<p5, p6>>
Dates == {{p1, p2, p3, p4, p5, p6}, {p1, p4, p5}}
=============================================================================
