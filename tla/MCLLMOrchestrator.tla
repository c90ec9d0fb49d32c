-------------------------- MODULE MCLLMOrchestrator --------------------------
(***************************************************************************)
(* Instances of LLMOrchestrator for TLC.  The chunks of a document are those *)
(* that SemanticChunker makes of it, with a limit of four tokens; the text  *)
(* of a chunk is represented by the texts of its blocks.                    *)
(***************************************************************************)
EXTENDS LLMOrchestrator, TLC, SemanticChunker

CONSTANTS d1, d2, d3, a, b, c

\* An empty text and two documents with no common chunk; two that begin with
\* the same title page and differ after it, where the title is repeated; one
\* document of two chunks, asked for by everybody.
Three == (d1 :> << <<a>>, <<b>> >>) @@ (d2 :> << <<c>> >>) @@ (d3 :> <<>>)
SameStart == (d1 :> << <<a>>, <<"context", b>> >>) @@ (d2 :> << <<a>>, <<"context", c>> >>)
OneDoc == d1 :> << <<a>>, <<b>> >>
TextsOfThree == {<<a>>, <<b>>, <<c>>}
TextsOfSameStart == {<<a>>, <<"context", b>>, <<"context", c>>}
TextsOfOneDoc == {<<a>>, <<b>>}

\* They are chunks of documents whose blocks have three tokens.
Chunked(texts, header) ==
  LET chunks == Chunk([chars |-> IF texts = <<>> THEN 0 ELSE 14 * Len(texts) - 2, header |-> header,
                       blocks |-> [i \in DOMAIN texts |-> Block(texts[i], 12, FALSE)]], 4)
  IN [i \in DOMAIN chunks |-> [j \in DOMAIN chunks[i] |-> chunks[i][j].text]]
ASSUME ChunksAreMade ==
  /\ Three = (d1 :> Chunked(<<a, b>>, 0)) @@ (d2 :> Chunked(<<c>>, 0)) @@ (d3 :> Chunked(<<>>, 0))
  /\ SameStart = (d1 :> Chunked(<<a, b>>, 8)) @@ (d2 :> Chunked(<<a, c>>, 8))
  /\ OneDoc = d1 :> Chunked(<<a, b>>, 0)

\* The chain of the command line with a Gemini key only, and chains that can
\* fail as a whole.
Cli == CliChain(TRUE, FALSE, FALSE)
Groq == <<GroqLlamaProvider(TRUE), DeepSeekProvider(TRUE)>>
Keyless == <<GroqFallbackProvider(FALSE), GeminiFlashProvider(TRUE)>>

\* Callers may pass an output_model, or never do.
Either == BOOLEAN
Never == {FALSE}

----------------------------------------------------------------------------
\* What SemanticChunker makes of all short texts: blocks below, at and above
\* the limit, with and without headings and a header to repeat.
Blocks == {Block(a, chars, heading) : chars \in {3, 8, 16, 24}, heading \in BOOLEAN}
Documents ==
  UNION {{[chars |-> FoldLeft(LAMBDA sum, x : sum + x.chars + 2, 0, blocks), header |-> header,
           blocks |-> blocks] : header \in {0, 9}, blocks \in [1..n -> Blocks]} : n \in 0..3}

ASSUME ChunksKeepBlocks == \A document \in Documents : KeepsBlocks(document, 4)
ASSUME ChunksAreLimited == \A document \in Documents : WithinTokens(document, 4)
ASSUME ContextOpensChunks == \A document \in Documents : ContextOpens(document, 4)
=============================================================================
