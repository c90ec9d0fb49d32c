--------------------------- MODULE SemanticChunker ---------------------------
(***************************************************************************)
(* SemanticChunker.chunk (llm/chunker.py): a text is a sequence of blocks   *)
(* between blank lines, each with its length in characters, and a header    *)
(* that is repeated as context in later chunks.  A chunk is the sequence of *)
(* its blocks.                                                              *)
(***************************************************************************)
EXTENDS Integers, SequencesExt

\* A document is [chars |-> its length, header |-> characters of the header or
\* 0, blocks |-> sequence of blocks], and a block:
Block(text, chars, heading) == [text |-> text, chars |-> chars, heading |-> heading]
Context(header) == Block("context", header + Len("[Context: ]"), FALSE)

EstimateTokens(chars) ==
  IF chars = 0 THEN 0 ELSE IF chars < 4 THEN 1 ELSE chars \div 4

Opening == [chunks |-> <<>>, current |-> <<>>, tokens |-> 0]

\* The chunk so far is closed, and a new one opened with the header's text.
\* The context is counted without its brackets.
Flushed(open, block, header) ==
  LET repeats == header > 0 /\ ~block.heading
  IN [chunks |-> Append(open.chunks, open.current),
      current |-> IF repeats THEN <<Context(header)>> ELSE <<>>,
      tokens |-> IF repeats THEN EstimateTokens(header) ELSE 0]

Added(open, block) ==
  [open EXCEPT !.current = Append(@, block), !.tokens = @ + EstimateTokens(block.chars)]

Overflows(open, block, max) ==
  open.tokens + EstimateTokens(block.chars) > max /\ open.current # <<>>

Chunk(document, max) ==
  LET Take(open, block) ==
        Added(IF Overflows(open, block, max)
              THEN Flushed(open, block, document.header) ELSE open, block)
      last == FoldLeft(Take, Opening, document.blocks)
  IN IF document.chars = 0 THEN <<>>
     ELSE IF EstimateTokens(document.chars) <= max THEN <<document.blocks>>
     ELSE IF last.current = <<>> THEN last.chunks
     ELSE Append(last.chunks, last.current)

----------------------------------------------------------------------------
IsContext(block) == block.text = "context"

\* Every block is in exactly one chunk, in the order of the text.
KeepsBlocks(document, max) ==
  SelectSeq(FlattenSeq(Chunk(document, max)), LAMBDA b : ~IsContext(b)) = document.blocks

\* A chunk whose blocks count more than the limit has one block of its own,
\* with or without context.
WithinTokens(document, max) ==
  \A chunk \in ToSet(Chunk(document, max)) :
    LET own == SelectSeq(chunk, LAMBDA b : ~IsContext(b))
        count == FoldLeft(LAMBDA n, b : n + EstimateTokens(b.chars), 0, own)
    IN EstimateTokens(document.chars) <= max \/ count <= max \/ Len(own) = 1

\* Context opens chunks after the first one, and no chunk is context only.
ContextOpens(document, max) ==
  LET chunks == Chunk(document, max) IN
  \A i \in DOMAIN chunks : \A j \in DOMAIN chunks[i] :
    IsContext(chunks[i][j]) => i > 1 /\ j = 1 /\ Len(chunks[i]) > 1
=============================================================================
