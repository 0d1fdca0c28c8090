------------------------------- MODULE Chunker -------------------------------
(***************************************************************************)
(* From the pages of a document to its chunks: load_pdf / load_txt         *)
(* (app/document_processing/loaders.py) and chunk_sections with            *)
(* _split_text (chunker.py).  One step opens a page or cuts one slice.     *)
(*                                                                         *)
(* Positions count from 1 in the text of a page, and a slice [start, end)  *)
(* excludes its end as in Python.  A chunk is the page it is taken from    *)
(* and the positions it holds; its chunk_index is its place in "chunks".   *)
(* A text is a sequence of characters, and of those the code tells apart   *)
(* white space and what the boundary strings are made of.                  *)
(***************************************************************************)
EXTENDS Integers, Sequences

CONSTANTS
  Characters,    \* the characters of the texts
  Space,         \* those for which str.isspace holds
  Boundaries,    \* _BOUNDARIES, most preferred first
  Inputs,        \* the documents: sequences of pages, each a text
  Configurations \* the values of chunk_size and chunk_overlap

ASSUME CharactersAssumption ==
  /\ Space \subseteq Characters
  /\ Boundaries \in Seq(Seq(Characters) \ {<<>>})
  /\ Inputs \subseteq Seq(Seq(Characters))
\* Settings.__post_init__ and chunk_sections refuse anything else.
ASSUME ConfigurationsAssumption ==
  Configurations \subseteq
    {c \in [chunk_size : Nat \ {0}, chunk_overlap : Nat] : c.chunk_overlap < c.chunk_size}

VARIABLES
  settings, \* the configuration in force
  pages,    \* the document
  page,     \* page_number of the current section
  pc,       \* "open" a page, "split" it, or the outcome
  start,    \* the slice being cut begins here
  end,      \* the previous slice ended here
  limit,    \* the stripped text of the section ends here
  chunks    \* what chunk_sections has produced

vars == <<settings, pages, page, pc, start, end, limit, chunks>>

text == pages[page]
ChunkSize == settings.chunk_size
ChunkOverlap == settings.chunk_overlap

Solid(t, i) == t[i] \notin Space

\* str.strip of the slice [from, to): the positions it keeps.
Stripped(t, from, to) ==
  {i \in from..to - 1 : /\ \E a \in from..i : Solid(t, a)
                        /\ \E b \in i..to - 1 : Solid(t, b)}

(***************************************************************************)
(* Where a slice ends and the next one begins                              *)
(***************************************************************************)
\* Mutation: a boundary anywhere in the slice ends it.
AnyLength == 1

Half == IF ChunkSize \div 2 < 1 THEN 1 ELSE ChunkSize \div 2

\* Mutation: the slice is one character too long.
TargetInclusive ==
  IF start + ChunkSize + 1 < limit THEN start + ChunkSize + 1 ELSE limit

TargetEnd == IF start + ChunkSize < limit THEN start + ChunkSize ELSE limit

\* What text.rfind(b, start + Half, TargetEnd) can find.
Occurrences(b) ==
  {i \in start + Half..TargetEnd - Len(b) : SubSeq(text, i, i + Len(b) - 1) = b}

\* The last occurrence of the first boundary that occurs at all.
EndsAtBoundary(e) ==
  \E k \in DOMAIN Boundaries :
    /\ \A j \in 1..k - 1 : Occurrences(Boundaries[j]) = {}
    /\ \E i \in Occurrences(Boundaries[k]) :
         /\ \A j \in Occurrences(Boundaries[k]) : j <= i
         /\ e = i + Len(Boundaries[k])

NoBoundary == \A k \in DOMAIN Boundaries : Occurrences(Boundaries[k]) = {}

IsSliceEnd(e) ==
  \/ TargetEnd < limit /\ EndsAtBoundary(e)
  \/ (TargetEnd = limit \/ NoBoundary) /\ e = TargetEnd

\* Mutation: the next slice begins a whole overlap before the end, even if that
\* is not after the start of this one.
OverlapAlways(e) == e - ChunkOverlap

\* max(end - chunk_overlap, start + 1)
Resume(e) == IF e - ChunkOverlap > start + 1 THEN e - ChunkOverlap ELSE start + 1

\* The next slice begins after the white space of the overlap.
IsNextStart(e, n) ==
  /\ n \in Resume(e)..e
  /\ \A i \in Resume(e)..n - 1 : ~Solid(text, i)
  /\ n = e \/ Solid(text, n)

(***************************************************************************)
(* Steps                                                                   *)
(***************************************************************************)
Init ==
  /\ settings \in Configurations
  /\ pages \in Inputs
  /\ page = 1
  /\ pc = "open"
  /\ start = 1
  /\ end = 1
  /\ limit = 1
  /\ chunks = <<>>

\* A page without text makes no section; the section of another is stripped.
OpenPage ==
  /\ pc = "open"
  /\ page <= Len(pages)
  /\ \/ /\ \A i \in DOMAIN text : ~Solid(text, i)
        /\ page' = page + 1
        /\ UNCHANGED <<pc, start, end, limit>>
     \/ \E i, j \in DOMAIN text :
          /\ Solid(text, i) /\ \A k \in 1..i - 1 : ~Solid(text, k)
          /\ Solid(text, j) /\ \A k \in j + 1..Len(text) : ~Solid(text, k)
          /\ start' = i
          /\ end' = i
          /\ limit' = j + 1
          /\ pc' = "split"
          /\ UNCHANGED page
  /\ UNCHANGED <<settings, pages, chunks>>

\* Mutation: a piece shorter than half a chunk is dropped.
KeepLong(e) == IF e - start < Half THEN {} ELSE Stripped(text, start, e)

\* The piece a slice leaves, {} for none.
Keep(e) == Stripped(text, start, e)

\* One iteration of _split_text; the last one closes the section.
CutSlice ==
  /\ pc = "split"
  /\ \E e \in 1..limit :
       /\ IsSliceEnd(e)
       /\ end' = e
       /\ chunks' = IF Keep(e) = {} THEN chunks
                    ELSE Append(chunks, [page |-> page, span |-> Keep(e)])
       /\ \/ /\ e >= limit
             /\ pc' = "open"
             /\ page' = page + 1
             /\ UNCHANGED start
          \/ /\ e < limit
             /\ \E n \in 1..limit : IsNextStart(e, n) /\ start' = n
             /\ UNCHANGED <<pc, page>>
  /\ UNCHANGED <<settings, pages, limit>>

\* A document without any section raised DocumentParseError.
Finish ==
  /\ pc = "open"
  /\ page > Len(pages)
  /\ pc' = IF chunks = <<>> THEN "raised" ELSE "done"
  /\ UNCHANGED <<settings, pages, page, start, end, limit, chunks>>

Ended == pc \in {"done", "raised"} /\ UNCHANGED vars

Next == OpenPage \/ CutSlice \/ Finish \/ Ended

Spec == Init /\ [][Next]_vars

(***************************************************************************)
(* Properties                                                              *)
(***************************************************************************)
Chunk == [page : Nat \ {0}, span : SUBSET Nat]

TypeOK ==
  /\ settings \in Configurations
  /\ pages \in Inputs
  /\ page \in 1..Len(pages) + 1
  /\ pc \in {"open", "split", "done", "raised"}
  /\ start \in Nat \ {0}
  /\ end \in Nat \ {0}
  /\ limit \in Nat \ {0}
  /\ chunks \in Seq(Chunk)

\* The chunks before this point of the document: all of the earlier pages, and
\* the current one up to the slice being cut.
Behind(p, i) == p < page \/ (p = page /\ pc = "split" /\ i < start)

\* Nothing of a document is lost: every character that is not white space is in
\* some chunk of its own page as soon as the cutting has passed it, whatever
\* boundaries, overlaps and skipped spaces did.
NothingLost ==
  \A p \in DOMAIN pages : \A i \in DOMAIN pages[p] :
    Behind(p, i) /\ Solid(pages[p], i) =>
      \E c \in DOMAIN chunks : chunks[c].page = p /\ i \in chunks[c].span

\* Every chunk lies within ChunkSize characters of one page and is not blank,
\* so the page_number a citation shows is the page the text is on.
ChunksFit ==
  \A c \in DOMAIN chunks :
    LET span == chunks[c].span  whole == DOMAIN pages[chunks[c].page]
    IN /\ chunks[c].page \in DOMAIN pages
       /\ \E from \in whole : span \subseteq whole \intersect from..from + ChunkSize - 1
       /\ \E i \in span : Solid(pages[chunks[c].page], i)

\* _split_text terminates: each iteration starts the next slice further on or
\* closes the section, however large the overlap and however early the boundary.
EverySliceAdvances ==
  [][pc = "split" => \/ page' = page /\ start' > start
                     \/ page' = page + 1]_vars

\* With an overlap of at most half a chunk each slice also ends further on than
\* the one before it; a larger overlap, which Settings allows, can cut slices
\* that lie wholly inside the previous one.
SlicesReachFurther ==
  [][pc = "split" /\ ChunkOverlap <= ChunkSize \div 2 => end' > end]_vars
=============================================================================
