------------------------------ MODULE MCChunker ------------------------------
(***************************************************************************)
(* A small instance of Chunker for TLC: every text of up to six characters *)
(* on one page, and every two pages of up to two and three.  The           *)
(* boundaries keep the three shapes of _BOUNDARIES: a repeated character,  *)
(* a pair that ends in white space, and white space alone.                 *)
(***************************************************************************)
EXTENDS Chunker

Letters == {"x", ".", " ", "n"}
Whites == {" ", "n"}
SmallBoundaries == << <<"n", "n">>, <<"n">>, <<".", " ">>, <<" ">> >>

TextsUpTo(n) == UNION {[1..k -> Letters] : k \in 0..n}

OnePage == {<<t>> : t \in TextsUpTo(6)}
TwoPages == TextsUpTo(2) \X TextsUpTo(3)
SmallInputs == OnePage \union TwoPages

\* Overlaps of none, of half a chunk, and of all but one character.
SmallConfigurations ==
  {[chunk_size |-> 4, chunk_overlap |-> overlap] : overlap \in {2, 3}}
    \union {[chunk_size |-> 1, chunk_overlap |-> 0]}
=============================================================================
