---------------------------- MODULE ChunkerProofs ----------------------------
(***************************************************************************)
(* What Chunker guarantees for every document, every list of boundary      *)
(* strings, and every chunk size and overlap that Settings accepts.        *)
(***************************************************************************)
EXTENDS Chunker, TLAPS

\* While a section is being cut, the slice begins inside its stripped text, at
\* most an overlap before the end of the previous one, and only white space
\* follows that text on the page.
SectionOpen ==
  pc = "split" =>
    /\ page \in DOMAIN pages
    /\ start < limit
    /\ end < limit
    /\ end - ChunkOverlap <= start
    /\ limit <= Len(text) + 1
    /\ \A k \in limit..Len(text) : ~Solid(text, k)

IInv == TypeOK /\ SectionOpen /\ NothingLost /\ ChunksFit

\* What chunk_sections requires of its two sizes.
LEMMA SizesKnown ==
  ASSUME IInv
  PROVE  ChunkSize \in Nat \ {0} /\ ChunkOverlap \in Nat /\ ChunkOverlap < ChunkSize
  BY ConfigurationsAssumption DEF ChunkSize, ChunkOverlap, IInv, TypeOK

\* The step keeps them.
LEMMA SizesKept ==
  ASSUME settings' = settings
  PROVE  ChunkSize' = ChunkSize /\ ChunkOverlap' = ChunkOverlap
  BY DEF ChunkSize, ChunkOverlap

LEMMA HalfPositive ==
  ASSUME IInv
  PROVE  Half \in Nat \ {0}
  BY SizesKnown DEF Half

\* Where a slice may end: after its start, at most a chunk further, within the
\* section.
LEMMA SliceEnds ==
  ASSUME IInv, pc = "split", NEW e, IsSliceEnd(e)
  PROVE  e \in Nat /\ start < e /\ e <= limit /\ e <= start + ChunkSize
<1>1. /\ TargetEnd \in Nat /\ start < TargetEnd
      /\ TargetEnd <= limit /\ TargetEnd <= start + ChunkSize
  BY SizesKnown DEF TargetEnd, IInv, TypeOK, SectionOpen
<1>2. CASE e = TargetEnd
  BY <1>1, <1>2
<1>3. CASE EndsAtBoundary(e)
  <2>1. PICK k \in DOMAIN Boundaries : \E i \in Occurrences(Boundaries[k]) :
                                         e = i + Len(Boundaries[k])
    BY <1>3 DEF EndsAtBoundary
  <2>2. Boundaries[k] \in Seq(Characters) /\ Boundaries[k] # <<>>
    BY CharactersAssumption
  <2>3. Len(Boundaries[k]) \in Nat \ {0}
    BY <2>2
  <2>4. PICK i \in Occurrences(Boundaries[k]) : e = i + Len(Boundaries[k])
    BY <2>1
  <2>5. i \in Int /\ start + Half <= i /\ i <= TargetEnd - Len(Boundaries[k])
    BY <2>3, <1>1, HalfPositive DEF Occurrences, IInv, TypeOK
  <2>6. QED
    BY <1>1, <2>3, <2>4, <2>5, HalfPositive, SizesKnown DEF IInv, TypeOK
<1>4. QED
  BY <1>2, <1>3 DEF IsSliceEnd

\* With an overlap of at most half a chunk, it is after the previous end too.
LEMMA SliceReaches ==
  ASSUME IInv, pc = "split", NEW e, IsSliceEnd(e), ChunkOverlap <= ChunkSize \div 2
  PROVE  e > end
<1>1. /\ start \in Nat \ {0} /\ end \in Nat \ {0} /\ limit \in Nat \ {0}
      /\ start < limit /\ end < limit /\ end - ChunkOverlap <= start
  BY DEF IInv, TypeOK, SectionOpen
<1>2. ChunkOverlap <= Half /\ ChunkOverlap < ChunkSize /\ ChunkSize \in Nat /\ ChunkOverlap \in Nat
  BY SizesKnown DEF Half
<1>3. TargetEnd \in Nat /\ TargetEnd > end
  BY <1>1, <1>2 DEF TargetEnd
<1>4. CASE EndsAtBoundary(e)
  <2>1. PICK k \in DOMAIN Boundaries : \E i \in Occurrences(Boundaries[k]) :
                                         e = i + Len(Boundaries[k])
    BY <1>4 DEF EndsAtBoundary
  <2>2. Boundaries[k] \in Seq(Characters) /\ Boundaries[k] # <<>>
    BY CharactersAssumption
  <2>3. Len(Boundaries[k]) \in Nat \ {0}
    BY <2>2
  <2>4. PICK i \in Occurrences(Boundaries[k]) : e = i + Len(Boundaries[k])
    BY <2>1
  <2>5. i \in Int /\ start + Half <= i
    BY <2>3, <1>1, <1>3, HalfPositive DEF Occurrences
  <2>6. QED
    BY <1>1, <1>2, <2>3, <2>4, <2>5, HalfPositive
<1>5. QED
  BY <1>3, <1>4 DEF IsSliceEnd

\* The next slice begins after the start of this one and not after its end.
LEMMA NextStarts ==
  ASSUME IInv, pc = "split", NEW e, IsSliceEnd(e), NEW n, IsNextStart(e, n)
  PROVE  n \in Nat /\ start < n /\ n <= e /\ e - ChunkOverlap <= n
  BY SliceEnds, SizesKnown DEF IsNextStart, Resume, IInv, TypeOK

LEMMA InitHolds == Init => IInv
<1> SUFFICES ASSUME Init PROVE IInv
  OBVIOUS
<1>1. pages \in Seq(Seq(Characters))
  BY CharactersAssumption DEF Init
<1>2. TypeOK
  BY <1>1 DEF Init, TypeOK
<1>3. SectionOpen
  BY DEF Init, SectionOpen
<1>4. NothingLost
  BY <1>1 DEF Init, NothingLost, Behind
<1>5. ChunksFit
  BY DEF Init, ChunksFit
<1>6. QED
  BY <1>2, <1>3, <1>4, <1>5 DEF IInv

LEMMA OpenPagePreserves == IInv /\ OpenPage => IInv'
<1> SUFFICES ASSUME IInv, OpenPage PROVE IInv'
  OBVIOUS
<1>1. /\ pages \in Seq(Seq(Characters)) /\ page \in DOMAIN pages
      /\ text \in Seq(Characters)
      /\ pages' = pages /\ chunks' = chunks /\ settings' = settings
      /\ ChunkSize' = ChunkSize /\ ChunkOverlap' = ChunkOverlap
  BY CharactersAssumption, SizesKept DEF IInv, TypeOK, OpenPage, text
<1>2. CASE /\ \A i \in DOMAIN text : ~Solid(text, i)
           /\ page' = page + 1
           /\ UNCHANGED <<pc, start, end, limit>>
  <2>1. TypeOK'
    BY <1>1, <1>2 DEF IInv, TypeOK
  <2>2. SectionOpen'
    BY <1>2 DEF SectionOpen, OpenPage
  <2>3. NothingLost'
    <3> SUFFICES ASSUME NEW p \in DOMAIN pages, NEW i \in DOMAIN pages[p],
                        Behind(p, i)', Solid(pages[p], i)
                 PROVE  \E c \in DOMAIN chunks :
                          chunks[c].page = p /\ i \in chunks[c].span
      BY <1>1 DEF NothingLost, Solid
    <3>1. p # page
      BY <1>2 DEF text
    <3>2. Behind(p, i)
      BY <1>1, <1>2, <3>1 DEF Behind, OpenPage
    <3>3. QED
      BY <3>2 DEF IInv, NothingLost
  <2>4. ChunksFit'
    BY <1>1 DEF IInv, ChunksFit, Solid
  <2>5. QED
    BY <2>1, <2>2, <2>3, <2>4 DEF IInv
<1>3. CASE \E i, j \in DOMAIN text :
             /\ Solid(text, i) /\ \A k \in 1..i - 1 : ~Solid(text, k)
             /\ Solid(text, j) /\ \A k \in j + 1..Len(text) : ~Solid(text, k)
             /\ start' = i
             /\ end' = i
             /\ limit' = j + 1
             /\ pc' = "split"
             /\ UNCHANGED page
  <2>1. PICK i, j \in DOMAIN text :
             /\ Solid(text, i) /\ \A k \in 1..i - 1 : ~Solid(text, k)
             /\ Solid(text, j) /\ \A k \in j + 1..Len(text) : ~Solid(text, k)
             /\ start' = i /\ end' = i /\ limit' = j + 1
             /\ pc' = "split" /\ page' = page
    BY <1>3
  <2>2. i \in Nat \ {0} /\ j \in Nat \ {0} /\ i <= Len(text) /\ j <= Len(text)
    BY <1>1
  <2>3. i <= j
    BY <2>1, <2>2
  <2>4. TypeOK'
    BY <1>1, <2>1, <2>2 DEF IInv, TypeOK
  <2>5. SectionOpen'
    BY <1>1, <2>1, <2>2, <2>3, SizesKnown DEF SectionOpen, text, Solid
  <2>6. NothingLost'
    <3> SUFFICES ASSUME NEW p \in DOMAIN pages, NEW x \in DOMAIN pages[p],
                        Behind(p, x)', Solid(pages[p], x)
                 PROVE  \E c \in DOMAIN chunks :
                          chunks[c].page = p /\ x \in chunks[c].span
      BY <1>1 DEF NothingLost, Solid
    <3>1. x \in Nat \ {0}
      BY <1>1
    <3>2. p # page
      <4> SUFFICES ASSUME p = page PROVE FALSE
        OBVIOUS
      <4>1. x < i
        BY <2>1, <1>1 DEF Behind, IInv, TypeOK
      <4>2. QED
        BY <4>1, <3>1, <2>1, <2>2 DEF text
    <3>3. Behind(p, x)
      BY <1>1, <2>1, <3>2 DEF Behind
    <3>4. QED
      BY <3>3 DEF IInv, NothingLost
  <2>7. ChunksFit'
    BY <1>1 DEF IInv, ChunksFit, Solid
  <2>8. QED
    BY <2>4, <2>5, <2>6, <2>7 DEF IInv
<1>4. QED
  BY <1>2, <1>3 DEF OpenPage

LEMMA CutSlicePreserves == IInv /\ CutSlice => IInv'
<1> SUFFICES ASSUME IInv, CutSlice PROVE IInv'
  OBVIOUS
<1>1. /\ pages \in Seq(Seq(Characters)) /\ page \in DOMAIN pages
      /\ text \in Seq(Characters) /\ chunks \in Seq(Chunk)
      /\ pc = "split" /\ pages' = pages /\ limit' = limit /\ settings' = settings
      /\ ChunkSize' = ChunkSize /\ ChunkOverlap' = ChunkOverlap
  BY CharactersAssumption, SizesKept DEF IInv, TypeOK, SectionOpen, CutSlice, text
<1>2. PICK e \in 1..limit :
       /\ IsSliceEnd(e)
       /\ end' = e
       /\ chunks' = IF Keep(e) = {} THEN chunks
                    ELSE Append(chunks, [page |-> page, span |-> Keep(e)])
       /\ \/ /\ e >= limit
             /\ pc' = "open"
             /\ page' = page + 1
             /\ UNCHANGED start
          \/ /\ e < limit
             /\ \E n \in 1..limit : IsNextStart(e, n) /\ start' = n
             /\ UNCHANGED <<pc, page>>
  BY DEF CutSlice
<1>3. /\ e \in Nat /\ start < e /\ e <= limit /\ e <= start + ChunkSize
      /\ start \in Nat \ {0} /\ limit \in Nat \ {0} /\ limit <= Len(text) + 1
      /\ page \in Nat \ {0} /\ page <= Len(pages)
  <2>1. start \in Nat \ {0} /\ limit \in Nat \ {0} /\ start < limit /\ limit <= Len(text) + 1
    BY <1>1 DEF IInv, TypeOK, SectionOpen
  <2>2. page \in Nat \ {0} /\ page <= Len(pages)
    BY <1>1
  <2>3. e \in Nat /\ start < e /\ e <= limit /\ e <= start + ChunkSize
    <3>1. pc = "split" /\ IsSliceEnd(e)
      BY <1>1, <1>2
    <3>2. QED
      BY <3>1, SliceEnds
  <2>4. QED
    BY <2>1, <2>2, <2>3
<1>4. \/ pc' = "open" /\ page' = page + 1 /\ start' = start /\ e = limit
      \/ /\ pc' = "split" /\ page' = page
         /\ start' \in Nat /\ start < start' /\ start' <= e /\ e < limit
         /\ e - ChunkOverlap <= start'
  <2>1. ASSUME NEW n, IsNextStart(e, n)
        PROVE  n \in Nat /\ start < n /\ n <= e /\ e - ChunkOverlap <= n
    BY <1>1, <1>2, <2>1, NextStarts
  <2>2. QED
    BY <1>1, <1>2, <1>3, <2>1
<1>5. Keep(e) \subseteq start..e - 1
  BY DEF Keep, Stripped
<1>6. [page |-> page, span |-> Keep(e)] \in Chunk
  BY <1>3, <1>5 DEF Chunk
<1>7. /\ chunks' \in Seq(Chunk)
      /\ DOMAIN chunks \subseteq DOMAIN chunks'
      /\ \A c \in DOMAIN chunks : chunks'[c] = chunks[c]
      /\ \A c \in DOMAIN chunks' : c \notin DOMAIN chunks =>
           chunks'[c] = [page |-> page, span |-> Keep(e)] /\ Keep(e) # {}
      /\ Keep(e) # {} =>
           \E c \in DOMAIN chunks' : chunks'[c] = [page |-> page, span |-> Keep(e)]
  <2>1. CASE Keep(e) = {}
    BY <1>1, <1>2, <2>1
  <2>2. CASE Keep(e) # {}
    <3>1. chunks' = Append(chunks, [page |-> page, span |-> Keep(e)])
      BY <1>2, <2>2
    <3>2. /\ Len(chunks') = Len(chunks) + 1
          /\ chunks'[Len(chunks) + 1] = [page |-> page, span |-> Keep(e)]
          /\ \A c \in 1..Len(chunks) : chunks'[c] = chunks[c]
          /\ chunks' \in Seq(Chunk)
      BY <1>1, <1>6, <3>1
    <3>3. DOMAIN chunks = 1..Len(chunks) /\ DOMAIN chunks' = 1..Len(chunks) + 1
      BY <1>1, <3>2
    <3>4. Len(chunks) \in Nat
      BY <1>1
    <3>5. Len(chunks) + 1 \in DOMAIN chunks'
      BY <3>3, <3>4
    <3>6. \A c \in DOMAIN chunks' : c \notin DOMAIN chunks => c = Len(chunks) + 1
      BY <3>3, <3>4
    <3>7. DOMAIN chunks \subseteq DOMAIN chunks'
      BY <3>3, <3>4
    <3>8. QED
      BY <2>2, <3>2, <3>3, <3>5, <3>6, <3>7
  <2>3. QED
    BY <2>1, <2>2
<1>8. TypeOK'
  <2>1. pages' \in Inputs /\ settings' \in Configurations /\ limit' \in Nat \ {0}
    BY <1>1 DEF IInv, TypeOK
  <2>2. page' \in 1..Len(pages') + 1 /\ pc' \in {"open", "split", "done", "raised"}
    BY <1>1, <1>3, <1>4
  <2>3. start' \in Nat \ {0} /\ end' \in Nat \ {0}
    BY <1>2, <1>3, <1>4
  <2>4. QED
    BY <1>7, <2>1, <2>2, <2>3 DEF TypeOK
<1>9. SectionOpen'
  BY <1>1, <1>2, <1>3, <1>4, SizesKnown DEF IInv, SectionOpen, text, Solid
<1>10. NothingLost'
  <2> SUFFICES ASSUME NEW p \in DOMAIN pages, NEW x \in DOMAIN pages[p],
                      Behind(p, x)', Solid(pages[p], x)
               PROVE  \E c \in DOMAIN chunks' :
                        chunks'[c].page = p /\ x \in chunks'[c].span
    BY <1>1 DEF NothingLost, Solid
  <2>1. x \in Nat \ {0} /\ p \in Nat \ {0}
    BY <1>1
  <2>2. CASE Behind(p, x)
    <3>1. \E c \in DOMAIN chunks : chunks[c].page = p /\ x \in chunks[c].span
      BY <2>2 DEF IInv, NothingLost
    <3>2. QED
      BY <3>1, <1>7
  <2>3. CASE ~Behind(p, x)
    <3>1. p = page /\ start <= x
      <4>1. ~(p < page) /\ ~(p = page /\ x < start)
        BY <1>1, <2>3 DEF Behind
      <4>2. p < page' \/ p = page'
        BY DEF Behind
      <4>3. page' = page \/ page' = page + 1
        BY <1>4
      <4>4. p = page' => page' = page
        <5>1. CASE pc' = "open"
          <6>1. p < page'
            BY <5>1 DEF Behind
          <6>2. QED
            BY <1>3, <2>1, <4>3, <6>1
        <5>2. CASE pc' # "open"
          BY <1>4, <5>2
        <5>3. QED
          BY <5>1, <5>2
      <4>5. p = page
        BY <1>3, <2>1, <4>1, <4>2, <4>3, <4>4
      <4>6. QED
        BY <1>3, <2>1, <4>1, <4>5
    <3>2. x < e
      <4>1. CASE pc' = "open"
        <5>1. x <= Len(text) /\ Solid(text, x)
          BY <1>1, <3>1 DEF text
        <5>2. x \notin limit..Len(text)
          BY <1>1, <5>1 DEF IInv, SectionOpen
        <5>3. QED
          BY <1>3, <1>4, <2>1, <4>1, <5>1, <5>2, <1>1
      <4>2. CASE pc' = "split"
        BY <1>3, <1>4, <2>1, <3>1, <4>2 DEF Behind
      <4>3. QED
        BY <1>4, <4>1, <4>2
    <3>3. x \in Keep(e)
      <4>1. x \in start..e - 1 /\ x \in start..x /\ x \in x..e - 1
        BY <1>3, <2>1, <3>1, <3>2
      <4>2. Solid(text, x)
        BY <3>1 DEF text
      <4>3. QED
        BY <4>1, <4>2 DEF Keep, Stripped
    <3>4. QED
      BY <3>1, <3>3, <1>7
  <2>4. QED
    BY <2>2, <2>3
<1>11. ChunksFit'
  <2> DEFINE Fits(page0, span) ==
               LET whole == DOMAIN pages[page0]
               IN /\ page0 \in DOMAIN pages
                  /\ \E from \in whole :
                       span \subseteq whole \intersect from..from + ChunkSize - 1
                  /\ \E i \in span : Solid(pages[page0], i)
  <2>1. \A c \in DOMAIN chunks : Fits(chunks[c].page, chunks[c].span)
    BY DEF IInv, ChunksFit
  <2>2. Keep(e) # {} => Fits(page, Keep(e))
    <3> SUFFICES ASSUME Keep(e) # {} PROVE Fits(page, Keep(e))
      OBVIOUS
    <3>1. DOMAIN pages[page] = 1..Len(text)
      BY <1>1 DEF text
    <3>2. start \in DOMAIN pages[page]
      BY <1>1, <1>3, <3>1
    <3>3. Keep(e) \subseteq DOMAIN pages[page] \intersect start..start + ChunkSize - 1
      <4>1. ASSUME NEW x \in Keep(e)
            PROVE  x \in 1..Len(text) /\ x \in start..start + ChunkSize - 1
        <5>1. x \in start..e - 1
          BY <1>5
        <5>2. Len(text) \in Nat /\ ChunkSize \in Nat
          BY <1>1, SizesKnown
        <5> QED
          BY <5>1, <5>2, <1>3
      <4> QED
        BY <4>1, <3>1, Zenon
    <3>4. \E i \in Keep(e) : Solid(pages[page], i)
      <4>1. PICK x \in Keep(e) : TRUE
        OBVIOUS
      <4>2. PICK a \in start..x : Solid(text, a)
        BY <4>1 DEF Keep, Stripped
      <4>3. x \in start..e - 1
        BY <1>5, <4>1
      <4>4. a \in start..e - 1 /\ a \in start..a /\ a \in a..e - 1
        BY <1>3, <4>2, <4>3
      <4>5. a \in Keep(e)
        BY <4>2, <4>4 DEF Keep, Stripped
      <4>6. QED
        BY <4>2, <4>5 DEF text
    <3>5. QED
      BY <1>1, <3>2, <3>3, <3>4
  <2>3. \A c \in DOMAIN chunks' : Fits(chunks'[c].page, chunks'[c].span)
    BY <1>7, <2>1, <2>2
  <2>4. QED
    BY <1>1, <2>3 DEF ChunksFit, Solid
<1>12. QED
  BY <1>8, <1>9, <1>10, <1>11 DEF IInv

LEMMA FinishPreserves == IInv /\ Finish => IInv'
<1> SUFFICES ASSUME IInv, Finish PROVE IInv'
  OBVIOUS
<1>1. TypeOK'
  BY DEF IInv, TypeOK, Finish
<1>2. SectionOpen'
  BY DEF SectionOpen, Finish
<1>3. NothingLost'
  BY DEF IInv, NothingLost, Behind, Finish, Solid
<1>4. ChunksFit'
  BY SizesKept DEF IInv, ChunksFit, Finish, Solid
<1>5. QED
  BY <1>1, <1>2, <1>3, <1>4 DEF IInv

LEMMA StutterPreserves == IInv /\ UNCHANGED vars => IInv'
  BY SizesKept
  DEF vars, IInv, TypeOK, SectionOpen, NothingLost, ChunksFit, Behind, Solid, text

LEMMA StepPreserves == IInv /\ [Next]_vars => IInv'
  BY OpenPagePreserves, CutSlicePreserves, FinishPreserves, StutterPreserves
  DEF Next, Ended

\* The inductive invariant holds: the types, the slice inside its section, and the
\* two properties below.
THEOREM Invariance == Spec => []IInv
  BY InitHolds, StepPreserves, PTL DEF Spec

\* Whatever the text, the boundaries, the size and the overlap: each character of
\* a document that is not white space ends up in a chunk of its own page.
THEOREM Lossless == Spec => []NothingLost
<1>1. IInv => NothingLost
  BY DEF IInv
<1>2. QED
  BY <1>1, Invariance, PTL

\* No chunk is blank, longer than chunk_size or taken from two pages.
THEOREM AllChunksFit == Spec => []ChunksFit
<1>1. IInv => ChunksFit
  BY DEF IInv
<1>2. QED
  BY <1>1, Invariance, PTL

\* The loop of _split_text makes progress for every overlap below chunk_size.
THEOREM SplitterAdvances == Spec => EverySliceAdvances
<1>1. IInv /\ [Next]_vars =>
        [pc = "split" => \/ page' = page /\ start' > start
                         \/ page' = page + 1]_vars
  <2> SUFFICES ASSUME IInv, Next, pc = "split"
               PROVE  (page' = page /\ start' > start) \/ page' = page + 1
    OBVIOUS
  <2>1. CutSlice
    BY DEF Next, OpenPage, Finish, Ended
  <2>2. PICK e \in 1..limit : /\ IsSliceEnd(e)
                              /\ \/ page' = page + 1
                                 \/ /\ page' = page
                                    /\ \E n \in 1..limit :
                                         IsNextStart(e, n) /\ start' = n
    BY <2>1 DEF CutSlice
  <2>3. ASSUME NEW n, IsNextStart(e, n)
        PROVE  n \in Nat /\ start < n
    BY <2>2, <2>3, NextStarts
  <2>4. QED
    BY <2>2, <2>3 DEF IInv, TypeOK
<1>2. QED
  BY <1>1, Invariance, PTL DEF Spec, EverySliceAdvances

\* With an overlap of at most half of chunk_size, each slice ends beyond the one
\* before it.
THEOREM SlicesReach == Spec => SlicesReachFurther
<1>1. IInv /\ [Next]_vars =>
        [pc = "split" /\ ChunkOverlap <= ChunkSize \div 2 => end' > end]_vars
  <2> SUFFICES ASSUME IInv, Next, pc = "split", ChunkOverlap <= ChunkSize \div 2
               PROVE  end' > end
    OBVIOUS
  <2>1. CutSlice
    BY DEF Next, OpenPage, Finish, Ended
  <2>2. PICK e \in 1..limit : IsSliceEnd(e) /\ end' = e
    BY <2>1 DEF CutSlice
  <2>3. QED
    BY <2>2, SliceReaches
<1>2. QED
  BY <1>1, Invariance, PTL DEF Spec, SlicesReachFurther
=============================================================================
