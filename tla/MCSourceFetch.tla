---------------------------- MODULE MCSourceFetch ----------------------------
(***************************************************************************)
(* Instances of SourceFetch for TLC.                                        *)
(***************************************************************************)
EXTENDS SourceFetch, TLC

\* A page with nothing usable, one with less and one with more than the share
\* of a crawler, and one whose second entry is invalid.
Pages == {<<"blank">>, <<"blank", "usable">>, <<"usable", "usable", "usable">>,
          <<"usable", "invalid", "usable">>}
\* A long page that is invalid behind the share of a feed.
LongPage == <<"blank", "usable", "usable", "invalid">>

PagesMet(i) == CASE i = 1 -> Pages \cup {LongPage}
                 [] i \in {2, 3} -> Pages
                 [] OTHER -> {<<"blank">>, <<"usable", "usable", "usable">>}
=============================================================================
