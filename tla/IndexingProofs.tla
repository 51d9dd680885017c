--------------------------- MODULE IndexingProofs ---------------------------
(***************************************************************************)
(* Theorems about Indexing, for every file, chunk size and overlap: types, *)
(* the size of chunks (PackInv), each chunk's own vector (EmbedInv), no    *)
(* letter lost (LossInv), and the place a chunk names (PlaceInv).          *)
(***************************************************************************)
EXTENDS Indexing, SequenceTheorems, FiniteSetTheorems, FunctionTheorems,
        WellFoundedInduction, TLAPS

\* What reading an item can do to the text found so far.
LEMMA ReadingType ==
  ASSUME TypeOK, pc = "extract", pos < Len(file.items)
  PROVE  file.items[pos + 1] \in Items /\ pos + 1 \in 0..Len(file.items)
BY ConstantsAssumption, LenProperties, ElementOfSeq DEF TypeOK

LEMMA AppendType ==
  ASSUME NEW S, NEW s \in Seq(S), NEW x \in S
  PROVE  Append(s, x) \in Seq(S)
BY AppendProperties

LEMMA NestType ==
  ASSUME TypeOK, NEW level \in Nat \ {0}, NEW name \in STRING
  PROVE  Nest(level, name) \in Seq(STRING)
<1> DEFINE n == IF level - 1 <= Len(stack) THEN level - 1 ELSE Len(stack)
<1>1. n \in 0..Len(stack) /\ stack \in Seq(STRING)
  BY LenProperties DEF TypeOK
<1>2. SubSeq(stack, 1, n) \in Seq(STRING)
  <2> HIDE DEF n
  <2> QED BY <1>1
<1>3. Nest(level, name) = Append(SubSeq(stack, 1, n), name)
  BY DEF Nest
<1>4. QED
  <2> HIDE DEF n
  <2> QED BY <1>2, <1>3, AppendType, Zenon

LEMMA WithFragmentType ==
  ASSUME TypeOK, NEW text \in Seq(Paragraphs), NEW page \in Nat
  PROVE  /\ WithFragment(text, page) \in Seq(Fragments)
         /\ Len(WithFragment(text, page)) >= Len(fragments)
<1> DEFINE new == [paras |-> text, section |-> stack, page |-> page, item |-> pos]
<1>1. fragments \in Seq(Fragments) /\ new \in Fragments /\ Len(fragments) \in Nat
  BY LenProperties DEF TypeOK, Fragments
<1>2. WithFragment(text, page) \in {fragments, Append(fragments, new)}
  BY DEF WithFragment
<1> HIDE DEF new
<1>3. QED
  BY <1>1, <1>2, AppendProperties

LEMMA DraftType ==
  ASSUME TypeOK
  PROVE  /\ Draft(current) \in [piece : Pieces, header : Seq(STRING)]
         /\ Draft(current).piece = current
BY ConstantsAssumption DEF TypeOK, Draft, Pieces

\* No more than Size characters are packed at once, after a tail of at most Overlap of them and
\* the newline between the two.
Bounded(n) == n <= Size + Overlap + 1

\* The inductive invariant: the chunk being packed is bounded too.
PackInv ==
  /\ TypeOK
  /\ Bounded(current.len)
  /\ ChunkBounded

LEMMA TailBound ==
  ASSUME NEW n \in Nat, NEW tail \in Tails(n)
  PROVE  tail \in Nat /\ tail <= Overlap
BY ConstantsAssumption DEF Tails

\* Flushing a bounded chunk keeps every chunk bounded.
LEMMA Flush ==
  ASSUME PackInv, drafts' = Append(drafts, Draft(current))
  PROVE  /\ drafts' \in Seq([piece : Pieces, header : Seq(STRING)])
         /\ \A k \in 1..Len(drafts') : Bounded(drafts'[k].piece.len)
<1> DEFINE S == [piece : Pieces, header : Seq(STRING)]
<1>1. drafts \in Seq(S) /\ Draft(current) \in S
  BY DraftType DEF PackInv, TypeOK
<1>2. /\ drafts' \in Seq(S) /\ Len(drafts') = Len(drafts) + 1
      /\ \A k \in 1..Len(drafts) : drafts'[k] = drafts[k]
      /\ drafts'[Len(drafts) + 1] = Draft(current)
  BY <1>1, AppendProperties
<1>3. Len(drafts) \in Nat
  BY <1>1, LenProperties
<1>4. QED
  BY <1>2, <1>3, DraftType DEF PackInv, ChunkBounded, Bounded

LEMMA PackBounded ==
  ASSUME PackInv, here \in 1..Len(fragments),
         NEW n \in 1..Size, NEW letters \in Nat, Pack(n, letters)
  PROVE  /\ at' \in Nat /\ current' \in Pieces /\ Bounded(current'.len)
         /\ drafts' \in Seq([piece : Pieces, header : Seq(STRING)])
         /\ \A k \in 1..Len(drafts') : Bounded(drafts'[k].piece.len)
<1> DEFINE unit == [fragment |-> here, from |-> at, letters |-> letters]
           U == [fragment : Nat, from : Nat, letters : Nat]
           started(len) == [len |-> len, units |-> <<unit>>,
                            section |-> fragments[here].section, page |-> fragments[here].page]
<1>1. at' \in Nat /\ unit \in U
  BY DEF Pack, PackInv, TypeOK
<1>2. fragments[here].section \in Seq(STRING) /\ fragments[here].page \in Nat
  <2>1. fragments[here] \in Fragments
    BY ElementOfSeq DEF PackInv, TypeOK
  <2>2. QED BY <2>1 DEF Fragments
<1>3. \A len \in Nat : started(len) \in Pieces /\ started(len).len = len
  BY <1>1, <1>2 DEF Pieces
<1>4. Size \in Nat /\ Overlap \in Nat /\ n \in Nat /\ n <= Size
  BY ConstantsAssumption
<1>5. CASE current = Empty /\ current' = started(n) /\ UNCHANGED drafts
  BY <1>1, <1>3, <1>4, <1>5 DEF PackInv, TypeOK, Bounded, ChunkBounded
<1>6. CASE /\ current.len + 1 + n <= Size
           /\ current' = [current EXCEPT !.len = @ + 1 + n, !.units = Append(@, unit)]
           /\ UNCHANGED drafts
  <2>1. current \in Pieces
    BY DEF PackInv, TypeOK
  <2>2. Append(current.units, unit) \in Seq(U)
    BY <2>1, <1>1, AppendProperties DEF Pieces
  <2>3. current' = [len |-> current.len + 1 + n, units |-> Append(current.units, unit),
                    section |-> current.section, page |-> current.page]
    BY <1>6, <2>1 DEF Pieces
  <2>4. current' \in Pieces /\ Bounded(current'.len)
    BY <2>1, <2>2, <2>3, <1>4, <1>6 DEF Pieces, Bounded
  <2>5. QED
    BY <2>4, <1>1, <1>6 DEF PackInv, TypeOK, Bounded, ChunkBounded
<1>7. CASE /\ drafts' = Append(drafts, Draft(current))
           /\ \E tail \in Tails(current.len) :
                current' = started(IF tail = 0 THEN n ELSE tail + 1 + n)
  <2>1. PICK tail \in Tails(current.len) :
               current' = started(IF tail = 0 THEN n ELSE tail + 1 + n)
    BY <1>7
  <2> DEFINE len == IF tail = 0 THEN n ELSE tail + 1 + n
  <2>2. current.len \in Nat
    BY DEF PackInv, TypeOK, Pieces
  <2>3. len \in Nat /\ Bounded(len)
    BY <2>2, <1>4, TailBound DEF Bounded
  <2>4. current' \in Pieces /\ Bounded(current'.len)
    <3> HIDE DEF len, started
    <3> QED BY <2>1, <2>3, <1>3 DEF len
  <2>5. QED
    BY <2>4, <1>1, <1>7, Flush
<1>8. QED
  BY <1>5, <1>6, <1>7 DEF Pack

-----------------------------------------------------------------------------

LEMMA PackInit == Init => PackInv
<1>1. <<>> \in Seq(STRING) /\ <<>> \in Seq(Paragraphs) /\ <<>> \in Seq(Fragments)
      /\ <<>> \in Seq(Nat \ {0}) /\ <<>> \in Seq([piece : Pieces, header : Seq(STRING)])
      /\ <<>> \in Seq([fragment : Nat, from : Nat, letters : Nat]) /\ Len(<<>>) = 0
  BY EmptySeq
<1>2. Empty \in Pieces /\ Empty.len = 0
  BY <1>1 DEF Empty, Pieces
<1>3. \A f \in Files : Len(f.items) \in Nat
  BY ConstantsAssumption, LenProperties
<1>4. QED
  BY <1>1, <1>2, <1>3, ConstantsAssumption DEF Init, PackInv, TypeOK, Bounded, ChunkBounded

LEMMA ReadHeadingInv == PackInv /\ ReadHeading => PackInv'
<1> SUFFICES ASSUME PackInv, ReadHeading PROVE PackInv'
  OBVIOUS
<1> DEFINE item == file.items[pos + 1]
<1>1. item \in Items /\ pos + 1 \in 0..Len(file.items) /\ item.kind = "heading"
  BY ReadingType DEF PackInv, ReadHeading
<1>2. item.level \in Nat \ {0} /\ item.name \in STRING
  BY <1>1 DEF Items
<1>3. stack' \in Seq(STRING)
  BY <1>2, NestType DEF PackInv, TypeOK, ReadHeading
<1>4. fragments' \in Seq(Fragments) /\ Len(fragments') >= Len(fragments)
  BY WithFragmentType DEF PackInv, TypeOK, ReadHeading
<1>5. block' \in Seq(Paragraphs)
  BY EmptySeq DEF ReadHeading
<1>6. left' \subseteq 1..Len(fragments')
      /\ (here' \in 1..Len(fragments') \/ (paras' = <<>> /\ sentences' = <<>>))
  <2>1. Len(fragments) \in Nat /\ Len(fragments') \in Nat
    BY <1>4, LenProperties DEF PackInv, TypeOK
  <2>2. 1..Len(fragments) \subseteq 1..Len(fragments')
    BY <1>4, <2>1
  <2>3. QED
    BY <2>2 DEF PackInv, TypeOK, ReadHeading, splitting
<1>7. QED
  BY <1>1, <1>3, <1>4, <1>5, <1>6
     DEF PackInv, TypeOK, ReadHeading, splitting, Bounded, ChunkBounded

LEMMA ReadTextInv == PackInv /\ ReadText => PackInv'
<1> SUFFICES ASSUME PackInv, ReadText PROVE PackInv'
  OBVIOUS
<1> DEFINE item == file.items[pos + 1]
           new == [paras |-> item.paras, section |-> stack, item |-> pos + 1,
                   page |-> IF file.type = "pdf" THEN pos + 1 ELSE 0]
<1>1. item \in Items /\ pos + 1 \in 0..Len(file.items) /\ item.kind = "text"
  BY ReadingType DEF PackInv, ReadText
<1>2. item.paras \in Seq(Paragraphs)
  BY <1>1 DEF Items
<1>3. block' \in Seq(Paragraphs)
  BY <1>2, ConcatProperties DEF PackInv, TypeOK, ReadText
<1>4. new \in Fragments
  BY <1>1, <1>2 DEF Fragments, PackInv, TypeOK
<1>5. fragments' \in Seq(Fragments) /\ Len(fragments') >= Len(fragments)
  <2>1. fragments' = fragments \/ fragments' = Append(fragments, new)
    BY DEF ReadText
  <2>2. fragments \in Seq(Fragments)
    BY DEF PackInv, TypeOK
  <2> HIDE DEF new
  <2>3. QED BY <2>1, <2>2, <1>4, AppendProperties, LenProperties
<1>6. QED
  BY <1>1, <1>3, <1>5, LenProperties
     DEF PackInv, TypeOK, ReadText, splitting, Bounded, ChunkBounded

LEMMA EndOfFileInv == PackInv /\ EndOfFile => PackInv'
<1> SUFFICES ASSUME PackInv, EndOfFile PROVE PackInv'
  OBVIOUS
<1>1. fragments' \in Seq(Fragments) /\ Len(fragments') >= Len(fragments)
  BY WithFragmentType DEF PackInv, TypeOK, EndOfFile
<1>2. Len(fragments) \in Nat /\ Len(fragments') \in Nat
  BY <1>1, LenProperties DEF PackInv, TypeOK
<1>3. left' \subseteq 1..Len(fragments')
  <2>1. left' = left \/ left' = 1..Len(fragments')
    BY DEF EndOfFile
  <2>2. left \subseteq 1..Len(fragments)
    BY DEF PackInv, TypeOK
  <2>3. 1..Len(fragments) \subseteq 1..Len(fragments')
    BY <1>1, <1>2
  <2>4. QED BY <2>1, <2>2, <2>3
<1>4. block' \in Seq(Paragraphs) /\ pc' \in {"split", "failed"}
  BY EmptySeq DEF EndOfFile
<1>5. QED
  BY <1>1, <1>2, <1>3, <1>4 DEF PackInv, TypeOK, EndOfFile, Bounded, ChunkBounded

LEMMA NextFragmentInv == PackInv /\ NextFragment => PackInv'
<1> SUFFICES ASSUME PackInv, NextFragment PROVE PackInv'
  OBVIOUS
<1>1. PICK i \in left :
        /\ here' = i /\ left' = left \ {i} /\ paras' = fragments[i].paras /\ at' = 0
        /\ \/ drafts' = Append(drafts, Draft(current)) /\ current' = Empty
           \/ UNCHANGED <<current, drafts>>
  BY DEF NextFragment
<1>2. i \in 1..Len(fragments) /\ fragments[i] \in Fragments
  BY ElementOfSeq DEF PackInv, TypeOK
<1>3. paras' \in Seq(Paragraphs)
  BY <1>1, <1>2 DEF Fragments
<1>4. Empty \in Pieces /\ Bounded(Empty.len)
  BY ConstantsAssumption, EmptySeq DEF Empty, Pieces, Bounded
<1>5. /\ drafts' \in Seq([piece : Pieces, header : Seq(STRING)])
      /\ \A k \in 1..Len(drafts') : Bounded(drafts'[k].piece.len)
      /\ current' \in Pieces /\ Bounded(current'.len)
  <2>1. CASE drafts' = Append(drafts, Draft(current)) /\ current' = Empty
    BY <2>1, <1>4, Flush
  <2>2. CASE UNCHANGED <<current, drafts>>
    BY <2>2 DEF PackInv, TypeOK, ChunkBounded, Bounded
  <2>3. QED BY <1>1, <2>1, <2>2
<1>6. QED
  BY <1>1, <1>2, <1>3, <1>5 DEF PackInv, TypeOK, NextFragment, reading, Bounded, ChunkBounded

LEMMA NextParagraphInv == PackInv /\ NextParagraph => PackInv'
<1> SUFFICES ASSUME PackInv, NextParagraph PROVE PackInv'
  OBVIOUS
<1> DEFINE p == Head(paras)
<1>1. p \in Paragraphs /\ paras' \in Seq(Paragraphs)
  BY HeadTailProperties DEF PackInv, TypeOK, NextParagraph
<1>2. p.len \in Nat /\ p.letters \in Nat /\ p.sentences \in Seq(Nat \ {0})
  BY <1>1 DEF Paragraphs
<1>3. here \in 1..Len(fragments)
  BY DEF PackInv, TypeOK, NextParagraph
<1>4. CASE 0 < p.len /\ p.len <= Size /\ Pack(p.len, p.letters) /\ UNCHANGED sentences
  <2>1. p.len \in 1..Size
    BY <1>2, <1>4, ConstantsAssumption
  <2> HIDE DEF p
  <2>2. /\ at' \in Nat /\ current' \in Pieces /\ Bounded(current'.len)
        /\ drafts' \in Seq([piece : Pieces, header : Seq(STRING)])
        /\ \A k \in 1..Len(drafts') : Bounded(drafts'[k].piece.len)
    BY <1>2, <1>3, <1>4, <2>1, PackBounded
  <2>3. QED
    BY <1>1, <1>3, <1>4, <2>2
       DEF PackInv, TypeOK, NextParagraph, reading, Bounded, ChunkBounded
<1>5. CASE sentences' = p.sentences /\ UNCHANGED <<at, current, drafts>>
  BY <1>1, <1>2, <1>3, <1>5 DEF PackInv, TypeOK, NextParagraph, reading, Bounded, ChunkBounded
<1>6. QED
  BY <1>4, <1>5 DEF NextParagraph

LEMMA NextSentenceInv == PackInv /\ NextSentence => PackInv'
<1> SUFFICES ASSUME PackInv, NextSentence PROVE PackInv'
  OBVIOUS
<1> DEFINE s == Head(sentences)
           n == IF s <= Size THEN s ELSE Size
<1>1. s \in Nat \ {0} /\ Tail(sentences) \in Seq(Nat \ {0})
  BY HeadTailProperties DEF PackInv, TypeOK, NextSentence
<1>2. here \in 1..Len(fragments)
  BY DEF PackInv, TypeOK, NextSentence
<1>3. n \in 1..Size /\ n \in Nat
  BY <1>1, ConstantsAssumption
<1>4. Pack(n, n)
  BY DEF NextSentence
<1>5. sentences' \in Seq(Nat \ {0})
  <2>1. CASE s <= Size
    BY <1>1, <2>1 DEF NextSentence
  <2>2. CASE ~(s <= Size)
    <3>1. s - Size \in Nat \ {0}
      BY <1>1, <2>2, ConstantsAssumption
    <3>2. <<s - Size>> \in Seq(Nat \ {0})
      BY <3>1
    <3>3. sentences' = <<s - Size>> \o Tail(sentences)
      BY <2>2 DEF NextSentence
    <3> HIDE DEF s
    <3>4. QED BY <1>1, <3>2, <3>3, ConcatProperties
  <2>3. QED BY <2>1, <2>2
<1>6. /\ at' \in Nat /\ current' \in Pieces /\ Bounded(current'.len)
      /\ drafts' \in Seq([piece : Pieces, header : Seq(STRING)])
      /\ \A k \in 1..Len(drafts') : Bounded(drafts'[k].piece.len)
  <2> HIDE DEF n
  <2> QED BY <1>2, <1>3, <1>4, PackBounded
<1>7. QED
  BY <1>2, <1>5, <1>6 DEF PackInv, TypeOK, NextSentence, reading, Bounded, ChunkBounded

LEMMA EndOfTextInv == PackInv /\ EndOfText => PackInv'
<1> SUFFICES ASSUME PackInv, EndOfText PROVE PackInv'
  OBVIOUS
<1>1. Empty \in Pieces /\ Bounded(Empty.len)
  BY ConstantsAssumption, EmptySeq DEF Empty, Pieces, Bounded
<1>2. /\ drafts' \in Seq([piece : Pieces, header : Seq(STRING)])
      /\ \A k \in 1..Len(drafts') : Bounded(drafts'[k].piece.len)
  <2>1. CASE drafts' = Append(drafts, Draft(current))
    BY <2>1, Flush
  <2>2. CASE drafts' = drafts
    BY <2>2 DEF PackInv, TypeOK, ChunkBounded, Bounded
  <2>3. QED BY <2>1, <2>2 DEF EndOfText
<1>3. QED
  BY <1>1, <1>2 DEF PackInv, TypeOK, EndOfText, reading, Bounded, ChunkBounded

LEMMA PackNext == PackInv /\ [Next]_vars => PackInv'
<1> SUFFICES ASSUME PackInv, [Next]_vars PROVE PackInv'
  OBVIOUS
<1>1. CASE Unreadable
  BY <1>1 DEF PackInv, TypeOK, Unreadable, reading, splitting, ChunkBounded
<1>2. CASE EmbedBatch
  BY <1>2 DEF PackInv, TypeOK, EmbedBatch, reading, splitting, ChunkBounded
<1>3. CASE EmbedFails
  BY <1>3 DEF PackInv, TypeOK, EmbedFails, reading, splitting, ChunkBounded
<1>4. CASE Store
  BY <1>4 DEF PackInv, TypeOK, Store, reading, splitting, ChunkBounded
<1>5. CASE UNCHANGED vars
  BY <1>5 DEF PackInv, TypeOK, vars, ChunkBounded
<1>6. QED
  BY <1>1, <1>2, <1>3, <1>4, <1>5, ReadHeadingInv, ReadTextInv, EndOfFileInv, NextFragmentInv,
     NextParagraphInv, NextSentenceInv, EndOfTextInv DEF Next

LEMMA PackAlways == Spec => []PackInv
BY PackInit, PackNext, PTL DEF Spec

\* Whatever the file, every variable of the extraction and the packing keeps its type.
THEOREM IndexingTypeCorrect == Spec => []TypeOK
<1>1. PackInv => TypeOK
  BY DEF PackInv
<1>2. QED
  BY <1>1, PackAlways, PTL

\* Whatever the file, no chunk is longer than Size + Overlap + 1 characters besides its header.
THEOREM ChunksAreBounded == Spec => []ChunkBounded
<1>1. PackInv => ChunkBounded
  BY DEF PackInv
<1>2. QED
  BY <1>1, PackAlways, PTL

-----------------------------------------------------------------------------
(* Induction, by least elements.                                          *)

LEMMA LeastOf ==
  ASSUME NEW T \in SUBSET Nat, T # {}
  PROVE  \E x \in T : \A y \in T : x <= y
<1> DEFINE R == {ss \in Nat \X Nat : ss[1] < ss[2]}
<1>1. IsWellFoundedOn(R, Nat)
  BY NatLessThanWellFounded DEF OpToRel
<1>2. PICK x \in T : \A y \in T : <<y, x>> \notin R
  <2> HIDE DEF R
  <2> QED BY <1>1, WFMin, Zenon
<1>3. ASSUME NEW y \in T PROVE x <= y
  <2>1. <<y, x>> \in Nat \X Nat
    OBVIOUS
  <2>2. ~(y < x)
    BY <1>2, <2>1
  <2>3. QED BY <2>2
<1>4. QED
  BY <1>3

\* Induction over Nat for what a set can hold.
LEMMA SetInduction ==
  ASSUME NEW T \in SUBSET Nat, 0 \in T, \A n \in T : n + 1 \in T
  PROVE  T = Nat
<1> SUFFICES ASSUME Nat \ T # {} PROVE FALSE
  OBVIOUS
<1>1. PICK m \in Nat \ T : \A y \in Nat \ T : m <= y
  BY LeastOf
<1>2. QED
  BY <1>1

-----------------------------------------------------------------------------
(* Embedding: whatever the order of the answer, it is sorted back.         *)

\* A sequence of the numbers up to n that grows and leaves none out is the identity.
LEMMA GrowsToIdentity ==
  ASSUME NEW n \in Nat, NEW g \in [1..n -> 1..n],
         \A i, j \in 1..n : i < j => g[i] < g[j],
         \A i \in 1..n : \E j \in 1..n : g[j] = i
  PROVE  g = [i \in 1..n |-> i]
<1> DEFINE T == {i \in 1..n : g[i] # i}
<1>1. CASE T # {}
  <2>1. T \in SUBSET Nat
    OBVIOUS
  <2>2. PICK i \in T : \A j \in T : i <= j
    <3> HIDE DEF T
    <3> QED BY <1>1, <2>1, LeastOf
  <2>3. \A j \in 1..n : j < i => g[j] = j
    BY <2>2
  <2>4. g[i] > i
    <3>1. \A j \in 1..n : j < i => g[j] < g[i]
      OBVIOUS
    <3>2. \A j \in 1..n : j < i => j < g[i]
      BY <2>3, <3>1
    <3>3. g[i] \in 1..n /\ i \in 1..n /\ g[i] # i
      OBVIOUS
    <3>4. CASE g[i] < i
      <4>1. g[i] < g[i]
        BY <3>2, <3>3, <3>4
      <4>2. QED BY <3>3, <4>1
    <3>5. QED BY <3>3, <3>4
  <2>5. PICK k \in 1..n : g[k] = i
    OBVIOUS
  <2>6. CASE k < i
    BY <2>5, <2>6, <2>3
  <2>7. CASE k > i
    <3>1. g[i] < g[k]
      BY <2>7
    <3>2. QED BY <2>4, <2>5, <3>1
  <2>8. QED BY <2>4, <2>5, <2>6, <2>7
<1>2. CASE T = {}
  <2>1. \A i \in 1..n : g[i] = i
    BY <1>2
  <2>2. QED BY <2>1
<1>3. QED
  BY <1>1, <1>2

LEMMA InjectionOnto ==
  ASSUME NEW n \in Nat, NEW f \in [1..n -> 1..n],
         \A i, j \in 1..n : i # j => f[i] # f[j]
  PROVE  \A i \in 1..n : \E j \in 1..n : f[j] = i
<1>1. IsFiniteSet(1..n)
  BY FS_Interval
<1>2. f \in Injection(1..n, 1..n)
  BY DEF Injection, IsInjective
<1>3. f \in Surjection(1..n, 1..n)
  BY <1>1, <1>2, FS_Injection
<1>4. QED
  BY <1>3 DEF Surjection

LEMMA OrderedIsSorted ==
  ASSUME NEW n \in Nat, NEW reply \in [1..n -> 1..n],
         \A i, j \in 1..n : i # j => reply[i] # reply[j]
  PROVE  Ordered(reply) = [i \in 1..n |-> i]
<1> DEFINE Sorts(p) == \A i, j \in 1..n : i < j => reply[p[i]] <= reply[p[j]]
           q == [i \in 1..n |-> CHOOSE k \in 1..n : reply[k] = i]
           perm == CHOOSE p \in Bijection(1..n, 1..n) : Sorts(p)
           g == [i \in 1..n |-> reply[perm[i]]]
<1>1. \A i \in 1..n : \E j \in 1..n : reply[j] = i
  BY InjectionOnto
<1>2. \A i \in 1..n : q[i] \in 1..n /\ reply[q[i]] = i
  BY <1>1
<1>3. q \in Bijection(1..n, 1..n)
  <2>1. q \in [1..n -> 1..n]
    BY <1>2
  <2>2. \A i, j \in 1..n : q[i] = q[j] => i = j
    BY <1>2
  <2>3. \A k \in 1..n : q[reply[k]] = k
    BY <1>2
  <2> HIDE DEF q
  <2>4. q \in Injection(1..n, 1..n)
    BY <2>1, <2>2 DEF Injection, IsInjective
  <2>5. q \in Surjection(1..n, 1..n)
    BY <2>1, <2>3 DEF Surjection
  <2>6. QED BY <2>4, <2>5 DEF Bijection
<1>4. Sorts(q)
  BY <1>2
<1>5. perm \in Bijection(1..n, 1..n) /\ Sorts(perm)
  <2> HIDE DEF q, Sorts
  <2> QED BY <1>3, <1>4
<1>6. /\ perm \in [1..n -> 1..n]
      /\ \A i, j \in 1..n : perm[i] = perm[j] => i = j
      /\ \A k \in 1..n : \E i \in 1..n : perm[i] = k
  <2> HIDE DEF perm
  <2> QED BY <1>5 DEF Bijection, Injection, Surjection, IsInjective
<1>7. Ordered(reply) = g
  BY DEF Ordered
<1> HIDE DEF perm, q
<1>8. g \in [1..n -> 1..n]
  BY <1>6
<1>9. \A i, j \in 1..n : i < j => g[i] < g[j]
  <2> SUFFICES ASSUME NEW i \in 1..n, NEW j \in 1..n, i < j PROVE g[i] < g[j]
    OBVIOUS
  <2>1. perm[i] \in 1..n /\ perm[j] \in 1..n /\ perm[i] # perm[j]
    BY <1>6
  <2>2. reply[perm[i]] # reply[perm[j]] /\ reply[perm[i]] <= reply[perm[j]]
    BY <2>1, <1>5
  <2>3. reply[perm[i]] \in 1..n /\ reply[perm[j]] \in 1..n
    BY <2>1
  <2>4. QED BY <2>2, <2>3
<1>10. \A i \in 1..n : \E j \in 1..n : g[j] = i
  <2> SUFFICES ASSUME NEW i \in 1..n PROVE \E j \in 1..n : g[j] = i
    OBVIOUS
  <2>1. PICK k \in 1..n : reply[k] = i
    BY <1>1
  <2>2. PICK j \in 1..n : perm[j] = k
    BY <1>6
  <2>3. QED BY <2>1, <2>2
<1>11. QED
  <2> HIDE DEF g
  <2> QED BY <1>7, <1>8, <1>9, <1>10, GrowsToIdentity

\* Any answer, sorted, is that of its items in order: all of the batch, or fewer.
LEMMA ReplySorted ==
  ASSUME NEW n \in Nat, NEW reply \in Replies(n)
  PROVE  \E m \in Nat : Ordered(reply) = [i \in 1..m |-> i]
<1> DEFINE id(m) == [i \in 1..m |-> i]
<1>1. \A m \in Nat : Cardinality(1..m) = m
  <2> SUFFICES ASSUME NEW m \in Nat PROVE Cardinality(1..m) = m
    OBVIOUS
  <2>1. m \in Int /\ 1 \in Int
    OBVIOUS
  <2>2. Cardinality(1..m) = IF 1 > m THEN 0 ELSE m - 1 + 1
    BY <2>1, FS_Interval
  <2>3. QED BY <2>2
<1>2. \A m \in Nat : reply \in SetToSeqs(1..m) => Ordered(reply) = id(m)
  <2> SUFFICES ASSUME NEW m \in Nat, reply \in SetToSeqs(1..m) PROVE Ordered(reply) = id(m)
    OBVIOUS
  <2>1. /\ reply \in [1..m -> 1..m]
        /\ \A i, j \in 1..m : i # j => reply[i] # reply[j]
    BY <1>1 DEF SetToSeqs
  <2>2. QED BY <2>1, OrderedIsSorted
<1>3. CASE reply = [k \in 1..n |-> k]
  <2>1. reply \in SetToSeqs(1..n)
    BY <1>1, <1>3 DEF SetToSeqs
  <2>2. QED
    <3> HIDE DEF id
    <3>1. Ordered(reply) = id(n)
      BY <1>2, <2>1
    <3>2. QED BY <3>1 DEF id
<1>4. CASE reply \in SetToSeqs(1..n)
  BY <1>2, <1>4
<1>5. CASE n > 1 /\ reply \in SetToSeqs(1..(n - 1))
  <2>1. n - 1 \in Nat
    BY <1>5
  <2>2. QED BY <1>2, <1>5, <2>1
<1>6. QED
  BY <1>3, <1>4, <1>5 DEF Replies

\* Every stored chunk has its own vector; nothing is embedded before the text is split.
EmbedInv ==
  /\ chunks \in Seq([draft : Nat, vector : Nat])
  /\ pc \in {"extract", "split"} => chunks = <<>>
  /\ Len(chunks) <= Len(drafts)
  /\ VectorOfOwnText

LEMMA EmbedInit == Init => EmbedInv
<1>1. <<>> \in Seq([draft : Nat, vector : Nat]) /\ Len(<<>>) = 0
  BY EmptySeq
<1>2. QED
  BY <1>1 DEF Init, EmbedInv, VectorOfOwnText

LEMMA NothingEmbedded ==
  ASSUME EmbedInv, PackInv', pc \in {"extract", "split"}, pc' # "done", UNCHANGED chunks
  PROVE  EmbedInv'
<1>1. chunks' = <<>> /\ Len(<<>>) = 0 /\ <<>> \in Seq([draft : Nat, vector : Nat])
  BY EmptySeq DEF EmbedInv
<1>2. Len(drafts') \in Nat
  BY LenProperties DEF PackInv, TypeOK
<1>3. QED
  BY <1>1, <1>2 DEF EmbedInv, VectorOfOwnText

LEMMA EmbedBatchInv == PackInv /\ EmbedInv /\ EmbedBatch => EmbedInv'
<1> SUFFICES ASSUME PackInv, EmbedInv, EmbedBatch PROVE EmbedInv'
  OBVIOUS
<1> DEFINE S == [draft : Nat, vector : Nat]
           n == BatchSize
<1>1. chunks \in Seq(S) /\ Len(chunks) \in Nat /\ Len(drafts) \in Nat
      /\ Len(chunks) < Len(drafts) /\ UNCHANGED drafts /\ pc = "embed"
      /\ \A k \in 1..Len(chunks) : chunks[k] = [draft |-> k, vector |-> k]
  BY LenProperties DEF EmbedInv, PackInv, TypeOK, EmbedBatch, splitting, VectorOfOwnText
<1>2. n \in Nat /\ n + Len(chunks) <= Len(drafts)
  BY <1>1, ConstantsAssumption DEF BatchSize
<1>3. PICK reply \in Replies(n) :
        IF Len(Ordered(reply)) # n
        THEN pc' = "failed" /\ UNCHANGED chunks
        ELSE /\ chunks' = chunks \o [k \in 1..n |->
                                      [draft |-> Len(chunks) + k,
                                       vector |-> Len(chunks) + Ordered(reply)[k]]]
             /\ UNCHANGED pc
  BY DEF EmbedBatch
<1> HIDE DEF n
<1>4. PICK m \in Nat : Ordered(reply) = [i \in 1..m |-> i]
  BY <1>2, ReplySorted
<1>5. Len(Ordered(reply)) = m
  BY <1>4
<1>6. CASE m # n
  BY <1>1, <1>3, <1>5, <1>6 DEF EmbedInv, VectorOfOwnText
<1>7. CASE m = n
  <2> DEFINE new == [k \in 1..n |-> [draft |-> Len(chunks) + k, vector |-> Len(chunks) + k]]
  <2>1. pc' = "embed" /\ chunks' = chunks \o new
    <3>1. \A k \in 1..n : Ordered(reply)[k] = k
      BY <1>4, <1>7
    <3>2. QED BY <1>1, <1>3, <1>5, <1>7, <3>1
  <2>2. new \in Seq(S) /\ Len(new) = n
    <3>1. new \in [1..n -> S]
      BY <1>1, <1>2
    <3>2. QED BY <1>2, <3>1
  <2>3. \A k \in 1..n : new[k] = [draft |-> Len(chunks) + k, vector |-> Len(chunks) + k]
    OBVIOUS
  <2> HIDE DEF new
  <2>4. /\ chunks' \in Seq(S) /\ Len(chunks') = Len(chunks) + n
        /\ \A k \in 1..(Len(chunks) + n) :
             chunks'[k] = IF k <= Len(chunks) THEN chunks[k] ELSE new[k - Len(chunks)]
    BY <1>1, <2>1, <2>2, ConcatProperties
  <2>5. \A k \in 1..Len(chunks') : chunks'[k] = [draft |-> k, vector |-> k]
    <3> SUFFICES ASSUME NEW k \in 1..(Len(chunks) + n)
                 PROVE  chunks'[k] = [draft |-> k, vector |-> k]
      BY <2>4
    <3>1. CASE k <= Len(chunks)
      <4>1. chunks'[k] = chunks[k]
        BY <2>4, <3>1
      <4>2. k \in 1..Len(chunks)
        BY <1>1, <1>2, <3>1
      <4>3. QED BY <1>1, <4>1, <4>2
    <3>2. CASE k > Len(chunks)
      <4>1. k - Len(chunks) \in 1..n
        BY <1>1, <1>2, <3>2
      <4>2. new[k - Len(chunks)] = [draft |-> k, vector |-> k]
        BY <1>1, <1>2, <2>3, <4>1
      <4>3. QED BY <1>1, <1>2, <2>4, <3>2, <4>2
    <3>3. QED BY <1>1, <1>2, <3>1, <3>2
  <2>6. QED
    BY <1>1, <1>2, <2>1, <2>4, <2>5 DEF EmbedInv, VectorOfOwnText
<1>8. QED
  BY <1>6, <1>7

LEMMA EmbedNext == PackInv /\ PackInv' /\ EmbedInv /\ [Next]_vars => EmbedInv'
<1> SUFFICES ASSUME PackInv, PackInv', EmbedInv, [Next]_vars PROVE EmbedInv'
  OBVIOUS
<1>1. CASE Unreadable \/ ReadHeading \/ ReadText \/ EndOfFile
  BY <1>1, NothingEmbedded DEF Unreadable, ReadHeading, ReadText, EndOfFile
<1>2. CASE NextFragment \/ NextParagraph \/ NextSentence \/ EndOfText
  BY <1>2, NothingEmbedded DEF NextFragment, NextParagraph, NextSentence, EndOfText
<1>3. CASE EmbedFails
  BY <1>3 DEF EmbedInv, VectorOfOwnText, EmbedFails, splitting
<1>4. CASE Store
  BY <1>4 DEF EmbedInv, VectorOfOwnText, Store, splitting
<1>5. CASE UNCHANGED vars
  BY <1>5 DEF EmbedInv, VectorOfOwnText, vars
<1>6. QED
  BY <1>1, <1>2, <1>3, <1>4, <1>5, EmbedBatchInv DEF Next

\* Whatever the batches, the order of the answers and the items they leave out, a stored chunk
\* has the vector of its own text, and a file is only stored with all its chunks.
THEOREM VectorOfOwnTextCorrect == Spec => []VectorOfOwnText
<1>1. Init => EmbedInv
  BY EmbedInit
<1>2. PackInv /\ PackInv' /\ EmbedInv /\ [Next]_vars => EmbedInv'
  BY EmbedNext
<1>3. EmbedInv => VectorOfOwnText
  BY DEF EmbedInv
<1>4. QED
  BY <1>1, <1>2, <1>3, PackAlways, PTL DEF Spec

-----------------------------------------------------------------------------
(* What a total is.                                                        *)

\* One step of the fold over the places of a sequence, and the fold.
Added(s, g) ==
  [D \in SUBSET DOMAIN s |-> IF D = {} THEN 0 ELSE g[D \ {Max(D)}] + s[Max(D)]]
Sum(s) == CHOOSE g : g = Added(s, g)

LEMMA TotalIsSum ==
  ASSUME NEW s
  PROVE  Total(s) = Sum(s)[DOMAIN s]
BY DEF Total, FoldLeft, MapThenFoldSet, Sum, Added

\* The greatest of some places.
LEMMA MaxFacts ==
  ASSUME NEW n \in Nat, NEW D \in SUBSET (1..n), D # {}
  PROVE  /\ Max(D) \in D /\ \A x \in D : x <= Max(D)
         /\ IsFiniteSet(D) /\ Cardinality(D) \in Nat
         /\ Cardinality(D \ {Max(D)}) = Cardinality(D) - 1
<1> DEFINE T == {y \in Nat : \E x \in D : y = n - x}
<1>1. T \in SUBSET Nat /\ T # {}
  <2>1. PICK x \in D : TRUE
    OBVIOUS
  <2>2. n - x \in Nat
    OBVIOUS
  <2>3. QED BY <2>1, <2>2
<1>2. PICK y \in T : \A z \in T : y <= z
  <2> HIDE DEF T
  <2> QED BY <1>1, LeastOf
<1>3. PICK m \in D : y = n - m
  OBVIOUS
<1>4. ASSUME NEW x \in D PROVE x <= m
  <2>1. n - x \in T
    OBVIOUS
  <2>2. n - m <= n - x
    BY <1>2, <1>3, <2>1
  <2>3. QED BY <2>2
<1>5. Max(D) \in D /\ \A x \in D : x <= Max(D)
  <2>1. \E mm \in D : \A x \in D : mm >= x
    BY <1>4
  <2>2. QED BY <2>1 DEF Max
<1>6. IsFiniteSet(1..n)
  BY FS_Interval
<1>7. IsFiniteSet(D) /\ Cardinality(D) \in Nat
  BY <1>6, FS_Subset, FS_CardinalityType
<1>8. QED
  BY <1>5, <1>7, FS_RemoveElement

\* The recursion has a solution: one for the sets of at most n places, whatever n.
LEMMA SumExists ==
  ASSUME NEW s \in Seq(Nat)
  PROVE  \E g : g = Added(s, g)
<1> DEFINE P == DOMAIN s
           Upto(g, n) == \A D \in SUBSET P : Cardinality(D) <= n => g[D] = Added(s, g)[D]
           T == {n \in Nat : \E g : Upto(g, n)}
<1>1. P = 1..Len(s) /\ Len(s) \in Nat
  BY LenProperties
<1>2. \A D \in SUBSET P : IsFiniteSet(D) /\ Cardinality(D) \in Nat
  <2>1. IsFiniteSet(P)
    BY <1>1, FS_Interval
  <2>2. QED BY <2>1, FS_Subset, FS_CardinalityType
<1>3. \A D \in SUBSET P :
        D # {} => /\ D \ {Max(D)} \in SUBSET P
                  /\ Cardinality(D \ {Max(D)}) = Cardinality(D) - 1
  BY <1>1, MaxFacts
<1>4. 0 \in T
  <2> DEFINE g == [D \in SUBSET P |-> 0]
  <2>1. ASSUME NEW D \in SUBSET P, Cardinality(D) <= 0
        PROVE  g[D] = Added(s, g)[D]
    <3>1. D = {}
      BY <1>2, <2>1, FS_EmptySet
    <3>2. QED
      BY <3>1 DEF Added
  <2>2. Upto(g, 0)
    BY <2>1
  <2>3. QED
    <3> HIDE DEF g
    <3> QED BY <2>2
<1>5. ASSUME NEW n \in Nat, NEW g, Upto(g, n)
      PROVE  Upto(Added(s, g), n + 1)
  <2> SUFFICES ASSUME NEW D \in SUBSET P, Cardinality(D) <= n + 1
               PROVE  Added(s, g)[D] = Added(s, Added(s, g))[D]
    OBVIOUS
  <2>1. CASE D = {}
    BY <2>1 DEF Added
  <2>2. CASE D # {}
    <3> DEFINE rest == D \ {Max(D)}
               h == Added(s, g)
    <3>1. rest \in SUBSET P /\ Cardinality(rest) <= n
      <4>1. rest \in SUBSET P /\ Cardinality(rest) = Cardinality(D) - 1
        BY <1>3, <2>2
      <4>2. Cardinality(rest) \in Nat /\ Cardinality(D) \in Nat
        BY <1>2, <4>1
      <4> HIDE DEF rest
      <4>3. QED BY <4>1, <4>2
    <3>2. g[rest] = h[rest]
      BY <1>5, <3>1
    <3>3. h[D] = g[rest] + s[Max(D)]
      BY <2>2 DEF Added
    <3> HIDE DEF h
    <3>4. Added(s, h)[D] = h[rest] + s[Max(D)]
      BY <2>2 DEF Added
    <3>5. QED
      BY <3>2, <3>3, <3>4 DEF h
  <2>3. QED
    BY <2>1, <2>2
<1>6. \A n \in T : n + 1 \in T
  <2> SUFFICES ASSUME NEW n \in T PROVE n + 1 \in T
    OBVIOUS
  <2>1. PICK g : Upto(g, n)
    OBVIOUS
  <2>2. Upto(Added(s, g), n + 1)
    BY <1>5, <2>1
  <2>3. QED
    <3> HIDE DEF Upto
    <3> QED BY <2>2
<1>7. T = Nat
  <2>1. T \in SUBSET Nat
    OBVIOUS
  <2> HIDE DEF T
  <2>2. QED
    BY <1>4, <1>6, <2>1, SetInduction
<1>8. PICK g : Upto(g, Cardinality(P))
  <2>1. Cardinality(P) \in T
    BY <1>2, <1>7
  <2> HIDE DEF Upto
  <2>2. QED
    BY <2>1
<1>9. \A D \in SUBSET P : Cardinality(D) <= Cardinality(P)
  BY <1>2, FS_Subset
<1>10. \A D \in SUBSET P : g[D] = Added(s, g)[D]
  BY <1>8, <1>9
<1>11. Added(s, g) = Added(s, Added(s, g))
  <2> DEFINE h == Added(s, g)
  <2>1. \A D \in SUBSET P : h[D] = g[D]
    BY <1>10
  <2> HIDE DEF h
  <2>2. \A D \in SUBSET P : D \ {Max(D)} \in SUBSET P
    OBVIOUS
  <2>3. Added(s, g) = Added(s, h)
    BY <2>1, <2>2 DEF Added
  <2>4. QED
    BY <2>3 DEF h
<1>12. QED
  BY <1>11

\* The sum of the first n.
SumUpto(s, n) == Sum(s)[1..n]

LEMMA UptoStep ==
  ASSUME NEW s \in Seq(Nat)
  PROVE  /\ SumUpto(s, 0) = 0
         /\ \A n \in 1..Len(s) : SumUpto(s, n) = SumUpto(s, n - 1) + s[n]
<1> DEFINE f == Sum(s)
<1>1. f = Added(s, f)
  BY SumExists DEF Sum
<1>2. DOMAIN s = 1..Len(s) /\ Len(s) \in Nat
  BY LenProperties
<1> HIDE DEF f
<1>3. \A D \in SUBSET DOMAIN s :
        f[D] = IF D = {} THEN 0 ELSE f[D \ {Max(D)}] + s[Max(D)]
  <2> DEFINE h == Added(s, f)
  <2>1. \A D \in SUBSET DOMAIN s :
          h[D] = IF D = {} THEN 0 ELSE f[D \ {Max(D)}] + s[Max(D)]
    BY DEF Added
  <2> HIDE DEF h
  <2>2. f = h
    BY <1>1 DEF h
  <2>3. QED
    BY <2>1, <2>2
<1>4. f[1..0] = 0
  <2>1. 1..0 = {} /\ {} \in SUBSET DOMAIN s
    OBVIOUS
  <2>2. QED BY <1>3, <2>1
<1>5. ASSUME NEW n \in 1..Len(s) PROVE f[1..n] = f[1..(n - 1)] + s[n]
  <2> DEFINE D == 1..n
  <2>1. D \in SUBSET DOMAIN s /\ n \in D
    BY <1>2
  <2>2. Max(D) \in D /\ \A x \in D : x <= Max(D)
    <3>1. n \in Nat /\ D \in SUBSET (1..n) /\ D # {}
      BY <1>2, <2>1
    <3> HIDE DEF D
    <3>2. QED BY <3>1, MaxFacts
  <2>3. Max(D) = n
    BY <2>1, <2>2
  <2>4. D \ {n} = 1..(n - 1)
    OBVIOUS
  <2>5. f[D] = f[D \ {n}] + s[n]
    <3> HIDE DEF D
    <3> QED BY <1>3, <2>1, <2>3
  <2>6. QED
    BY <2>4, <2>5
<1>6. QED
  BY <1>4, <1>5 DEF SumUpto, f

LEMMA UptoType ==
  ASSUME NEW s \in Seq(Nat)
  PROVE  \A n \in 0..Len(s) : SumUpto(s, n) \in Nat
<1> DEFINE T == {n \in Nat : n <= Len(s) => SumUpto(s, n) \in Nat}
<1>1. Len(s) \in Nat /\ \A n \in 1..Len(s) : s[n] \in Nat
  BY LenProperties, ElementOfSeq
<1>2. 0 \in T
  BY UptoStep
<1>3. ASSUME NEW n \in T PROVE n + 1 \in T
  <2>1. CASE n + 1 <= Len(s)
    <3>1. SumUpto(s, n) \in Nat
      BY <1>1, <2>1
    <3>2. n + 1 \in 1..Len(s) /\ (n + 1) - 1 = n
      BY <1>1, <2>1
    <3>3. SumUpto(s, n + 1) = SumUpto(s, n) + s[n + 1]
      BY <3>2, UptoStep
    <3>4. QED BY <1>1, <3>1, <3>2, <3>3
  <2>2. QED BY <1>1, <2>1
<1>4. T = Nat
  <2>1. T \in SUBSET Nat
    OBVIOUS
  <2> HIDE DEF T
  <2>2. QED BY <1>2, <1>3, <2>1, SetInduction
<1>5. QED
  BY <1>1, <1>4

LEMMA TotalUpto ==
  ASSUME NEW s \in Seq(Nat)
  PROVE  Total(s) = SumUpto(s, Len(s)) /\ Total(s) \in Nat
<1>1. DOMAIN s = 1..Len(s) /\ Len(s) \in 0..Len(s)
  BY LenProperties
<1>2. QED
  BY <1>1, TotalIsSum, UptoType DEF SumUpto

LEMMA TotalEmpty == Total(<<>>) = 0
<1>1. <<>> \in Seq(Nat) /\ Len(<<>>) = 0
  BY EmptySeq
<1>2. QED
  BY <1>1, TotalUpto, UptoStep

\* The total of a sequence that is not empty, from its head and its tail.
LEMMA TotalStep ==
  ASSUME NEW s \in Seq(Nat), s # <<>>
  PROVE  Total(s) = Head(s) + Total(Tail(s))
<1> DEFINE t == Tail(s)
           T == {n \in Nat : n <= Len(t) => SumUpto(s, n + 1) = s[1] + SumUpto(t, n)}
<1>1. /\ t \in Seq(Nat) /\ Len(s) \in Nat /\ Len(t) \in Nat /\ Len(s) = Len(t) + 1
      /\ \A i \in 1..Len(t) : t[i] = s[i + 1]
  BY HeadTailProperties, LenProperties
<1>2. \A i \in 1..Len(s) : s[i] \in Nat
  BY ElementOfSeq
<1> HIDE DEF t
<1>3. 0 \in T
  <2>1. 1 \in 1..Len(s)
    BY <1>1
  <2>2. SumUpto(s, 1) = SumUpto(s, 1 - 1) + s[1]
    BY <2>1, UptoStep
  <2>3. SumUpto(s, 0) = 0 /\ SumUpto(t, 0) = 0
    BY <1>1, UptoStep
  <2>4. QED
    BY <1>2, <2>1, <2>2, <2>3
<1>4. ASSUME NEW n \in T PROVE n + 1 \in T
  <2>1. CASE n + 1 <= Len(t)
    <3>1. SumUpto(s, n + 1) = s[1] + SumUpto(t, n)
      BY <1>1, <2>1
    <3>2. n + 2 \in 1..Len(s) /\ n + 1 \in 1..Len(t) /\ n \in 0..Len(t) /\ 1 \in 1..Len(s)
      BY <1>1, <2>1
    <3>3. (n + 2) - 1 = n + 1 /\ (n + 1) - 1 = n /\ (n + 1) + 1 = n + 2
      BY <3>2
    <3>4. SumUpto(s, n + 2) = SumUpto(s, n + 1) + s[n + 2]
      BY <3>2, <3>3, UptoStep
    <3>5. SumUpto(t, n + 1) = SumUpto(t, n) + t[n + 1]
      BY <1>1, <3>2, <3>3, UptoStep
    <3>6. t[n + 1] = s[n + 2]
      BY <1>1, <3>2, <3>3
    <3>7. SumUpto(t, n) \in Nat
      BY <1>1, <3>2, UptoType
    <3>8. s[1] \in Nat /\ s[n + 2] \in Nat
      BY <1>2, <3>2
    <3>9. SumUpto(s, n + 2) = s[1] + SumUpto(t, n + 1)
      BY <3>1, <3>4, <3>5, <3>6, <3>7, <3>8
    <3>10. QED BY <3>3, <3>9
  <2>2. QED BY <1>1, <2>1
<1>5. T = Nat
  <2>1. T \in SUBSET Nat
    OBVIOUS
  <2> HIDE DEF T
  <2>2. QED BY <1>3, <1>4, <2>1, SetInduction
<1>6. SumUpto(s, Len(s)) = s[1] + SumUpto(t, Len(t))
  BY <1>1, <1>5
<1>7. Head(s) = s[1]
  OBVIOUS
<1>8. QED
  BY <1>1, <1>6, <1>7, TotalUpto DEF t

LEMMA TotalPrepend ==
  ASSUME NEW s \in Seq(Nat), NEW a \in Nat
  PROVE  Total(<<a>> \o s) = a + Total(s)
<1> DEFINE c == <<a>> \o s
<1>1. /\ <<a>> \in Seq(Nat) /\ Len(<<a>>) = 1 /\ <<a>>[1] = a
      /\ s \in Seq(Nat) /\ Len(s) \in Nat
  BY LenProperties
<1>2. /\ c \in Seq(Nat) /\ Len(c) = 1 + Len(s)
      /\ \A i \in 1..(1 + Len(s)) : c[i] = IF i <= 1 THEN <<a>>[i] ELSE s[i - 1]
  <2>1. /\ c \in Seq(Nat) /\ Len(c) = Len(<<a>>) + Len(s)
        /\ \A i \in 1..(Len(<<a>>) + Len(s)) :
             c[i] = IF i <= Len(<<a>>) THEN <<a>>[i] ELSE s[i - Len(<<a>>)]
    BY <1>1, ConcatProperties
  <2> HIDE DEF c
  <2>2. QED BY <1>1, <2>1
<1> HIDE DEF c
<1>3. c # <<>> /\ c[1] = a
  <2>1. Len(<<>>) = 0 /\ 1 \in 1..(1 + Len(s))
    BY <1>1, EmptySeq
  <2>2. QED BY <1>1, <1>2, <2>1
<1>4. /\ Tail(c) \in Seq(Nat) /\ Len(Tail(c)) = Len(s)
      /\ \A i \in 1..Len(Tail(c)) : Tail(c)[i] = c[i + 1]
  BY <1>1, <1>2, <1>3, HeadTailProperties
<1>5. Tail(c) = s
  <2>1. \A i \in 1..Len(Tail(c)) : Tail(c)[i] = s[i]
    <3> SUFFICES ASSUME NEW i \in 1..Len(s) PROVE Tail(c)[i] = s[i]
      BY <1>4
    <3>1. i + 1 \in 1..(1 + Len(s)) /\ ~(i + 1 <= 1) /\ (i + 1) - 1 = i
      BY <1>1
    <3>2. c[i + 1] = s[i]
      BY <1>2, <3>1
    <3>3. QED BY <1>4, <3>2
  <2>2. QED BY <1>1, <1>4, <2>1, SeqEqual
<1>6. Head(c) = a
  BY <1>3
<1>7. Total(c) = Head(c) + Total(Tail(c))
  BY <1>2, <1>3, TotalStep
<1>8. QED
  BY <1>5, <1>6, <1>7 DEF c

LEMMA LettersType ==
  ASSUME NEW text \in Seq(Paragraphs)
  PROVE  Letters(text) \in Nat /\ [k \in DOMAIN text |-> text[k].letters] \in Seq(Nat)
         /\ Len([k \in DOMAIN text |-> text[k].letters]) = Len(text)
<1> DEFINE f == [k \in 1..Len(text) |-> text[k].letters]
<1>1. DOMAIN text = 1..Len(text) /\ Len(text) \in Nat
  BY LenProperties
<1>2. \A k \in 1..Len(text) : text[k].letters \in Nat
  BY ElementOfSeq DEF Paragraphs
<1>3. f \in Seq(Nat) /\ Len(f) = Len(text)
  BY <1>1, <1>2
<1> HIDE DEF f
<1>4. Total(f) \in Nat
  BY <1>3, TotalUpto
<1>5. QED
  BY <1>1, <1>3, <1>4 DEF Letters, f

LEMMA LettersEmpty == Letters(<<>>) = 0
<1>1. [k \in DOMAIN <<>> |-> <<>>[k].letters] = <<>>
  OBVIOUS
<1>2. QED
  BY <1>1, TotalEmpty DEF Letters

LEMMA LettersStep ==
  ASSUME NEW text \in Seq(Paragraphs), text # <<>>
  PROVE  Letters(text) = Head(text).letters + Letters(Tail(text))
<1> DEFINE f == [k \in DOMAIN text |-> text[k].letters]
           g == [k \in DOMAIN Tail(text) |-> Tail(text)[k].letters]
<1>1. f \in Seq(Nat) /\ Len(f) = Len(text) /\ Letters(text) = Total(f)
  BY LettersType DEF Letters
<1>2. /\ Tail(text) \in Seq(Paragraphs) /\ Len(Tail(text)) = Len(text) - 1
      /\ \A i \in 1..Len(Tail(text)) : Tail(text)[i] = text[i + 1]
  BY HeadTailProperties
<1>3. g \in Seq(Nat) /\ Len(g) = Len(text) - 1 /\ Letters(Tail(text)) = Total(g)
  BY <1>2, LettersType DEF Letters
<1>4. DOMAIN text = 1..Len(text) /\ DOMAIN Tail(text) = 1..(Len(text) - 1)
      /\ Len(text) \in Nat \ {0}
  BY <1>2, LenProperties, EmptySeq
<1>5. \A i \in 1..Len(text) : f[i] = text[i].letters
  BY <1>4
<1>6. \A i \in 1..(Len(text) - 1) : g[i] = text[i + 1].letters
  BY <1>2, <1>4
<1> HIDE DEF f, g
<1>7. f # <<>>
  BY <1>1, <1>4, EmptySeq
<1>8. /\ Tail(f) \in Seq(Nat) /\ Len(Tail(f)) = Len(f) - 1
      /\ \A i \in 1..Len(Tail(f)) : Tail(f)[i] = f[i + 1]
  BY <1>1, <1>7, HeadTailProperties
<1>9. Tail(f) = g
  <2>1. \A i \in 1..Len(Tail(f)) : Tail(f)[i] = g[i]
    BY <1>1, <1>4, <1>5, <1>6, <1>8
  <2>2. QED BY <1>1, <1>3, <1>8, <2>1, SeqEqual
<1>10. Head(f) = Head(text).letters
  BY <1>4, <1>5
<1>11. QED
  BY <1>1, <1>3, <1>7, <1>9, <1>10, TotalStep

-----------------------------------------------------------------------------
(* Packing: the units of the chunks, the one being packed among them.      *)

UnitsOf(k) ==
  IF k \in 1..Len(drafts) THEN drafts[k].piece.units
  ELSE IF k = Len(drafts) + 1 THEN current.units ELSE <<>>

\* The m-th unit of the k-th chunk.
IsSlot(k, m) == m \in 1..Len(UnitsOf(k))
UnitAt(k, m) == UnitsOf(k)[m]
Earlier(k, m, l, n) == k < l \/ (k = l /\ m < n)

\* The letters of a fragment that are in a chunk: the first ones.
Taken(i) == IF i \in left THEN 0 ELSE IF i = here THEN at ELSE Letters(fragments[i].paras)

Precedes(v, w) ==
  SameRun(v.fragment, w.fragment) =>
    v.fragment < w.fragment \/ (v.fragment = w.fragment /\ v.from + v.letters <= w.from)

\* The fragments of a run are split in their order.
RunsInOrder ==
  /\ here \in 0..Len(fragments) /\ here \notin left
  /\ here = 0 => left = 1..Len(fragments) /\ current = Empty /\ drafts = <<>>
  /\ \A j \in (1..Len(fragments)) \ left :
       /\ here # 0 /\ SameRun(j, here) => j <= here
       /\ \A i \in left : SameRun(i, j) => j < i

LettersLeft ==
  here # 0 => at + Total(sentences) + Letters(paras) = Letters(fragments[here].paras)

UnitsTaken ==
  \A k, m \in Nat : IsSlot(k, m) =>
    /\ UnitAt(k, m).fragment \in (1..Len(fragments)) \ left
    /\ UnitAt(k, m).letters > 0
    /\ UnitAt(k, m).from + UnitAt(k, m).letters <= Taken(UnitAt(k, m).fragment)

Covers(w, i, x) == w.fragment = i /\ w.from <= x /\ x < w.from + w.letters

AllTaken ==
  \A i \in 1..Len(fragments), x \in Nat :
    x < Taken(i) => \E k, m \in Nat : IsSlot(k, m) /\ Covers(UnitAt(k, m), i, x)

UnitsInOrder ==
  \A k, m, l, n \in Nat : IsSlot(k, m) /\ IsSlot(l, n) =>
    /\ Earlier(k, m, l, n) => Precedes(UnitAt(k, m), UnitAt(l, n))
    /\ k = l => SameRun(UnitAt(k, m).fragment, UnitAt(l, n).fragment)

\* The chunk being packed is of the run of the fragment being split.
CurrentRun ==
  \A k, m \in Nat :
    IsSlot(k, m) /\ k > Len(drafts) => SameRun(UnitAt(k, m).fragment, here)

SlotsOk == UnitsTaken /\ AllTaken /\ UnitsInOrder /\ CurrentRun

\* The inductive invariant.
LossInv ==
  /\ pc = "extract" => left = {} /\ here = 0 /\ current = Empty /\ drafts = <<>>
  /\ pc \in {"split", "embed", "done"} => RunsInOrder /\ LettersLeft /\ SlotsOk
  /\ Split => left = {} /\ current = Empty /\ paras = <<>> /\ sentences = <<>>

UnitRecords == [fragment : Nat, from : Nat, letters : Nat]

LEMMA DraftLen ==
  ASSUME PackInv
  PROVE  /\ Len(drafts) \in Nat
         /\ \A k \in 1..Len(drafts) : drafts[k].piece \in Pieces
         /\ current \in Pieces
<1>1. /\ drafts \in Seq([piece : Pieces, header : Seq(STRING)]) /\ current \in Pieces
  BY DEF PackInv, TypeOK
<1>2. \A k \in 1..Len(drafts) : drafts[k] \in [piece : Pieces, header : Seq(STRING)]
  BY <1>1, ElementOfSeq
<1>3. QED
  BY <1>1, <1>2, LenProperties

LEMMA UnitsType ==
  ASSUME PackInv
  PROVE  /\ \A k \in Nat : UnitsOf(k) \in Seq(UnitRecords) /\ Len(UnitsOf(k)) \in Nat
         /\ \A k, m \in Nat : IsSlot(k, m) => UnitAt(k, m) \in UnitRecords
<1>1. <<>> \in Seq(UnitRecords)
  BY EmptySeq
<1>2. \A k \in Nat : UnitsOf(k) \in Seq(UnitRecords)
  BY <1>1, DraftLen DEF UnitsOf, Pieces, UnitRecords
<1>3. QED
  BY <1>2, LenProperties, ElementOfSeq DEF IsSlot, UnitAt

LEMMA TakenType ==
  ASSUME PackInv
  PROVE  \A i \in 1..Len(fragments) :
           Taken(i) \in Nat /\ Letters(fragments[i].paras) \in Nat
<1> SUFFICES ASSUME NEW i \in 1..Len(fragments)
             PROVE  Taken(i) \in Nat /\ Letters(fragments[i].paras) \in Nat
  OBVIOUS
<1>1. fragments[i] \in Fragments /\ at \in Nat
  BY ElementOfSeq DEF PackInv, TypeOK
<1>2. Letters(fragments[i].paras) \in Nat
  BY <1>1, LettersType DEF Fragments
<1>3. QED
  BY <1>1, <1>2 DEF Taken

\* Closing a chunk moves no unit, and leaves none in the chunk being packed.
LEMMA FlushKeeps ==
  ASSUME PackInv, drafts' = Append(drafts, Draft(current)), current' = Empty
  PROVE  /\ \A k \in Nat : UnitsOf(k)' = UnitsOf(k)
         /\ \A k \in Nat : k > Len(drafts') => UnitsOf(k)' = <<>>
<1> DEFINE S == [piece : Pieces, header : Seq(STRING)]
           n == Len(drafts)
<1>1. drafts \in Seq(S) /\ Draft(current) \in S /\ Draft(current).piece = current /\ n \in Nat
  BY DraftType, LenProperties DEF PackInv, TypeOK
<1>2. /\ Len(drafts') = n + 1 /\ drafts'[n + 1] = Draft(current)
      /\ \A k \in 1..n : drafts'[k] = drafts[k]
  BY <1>1, AppendProperties
<1>3. current'.units = <<>>
  BY DEF Empty
<1> HIDE DEF n
<1>4. ASSUME NEW k \in Nat PROVE UnitsOf(k)' = UnitsOf(k)
  <2>1. CASE k \in 1..n
    <3>1. k \in 1..(n + 1)
      BY <1>1, <2>1
    <3>2. QED BY <1>2, <2>1, <3>1 DEF UnitsOf, n
  <2>2. CASE k = n + 1
    <3>1. k \in 1..(n + 1) /\ k \notin 1..n
      BY <1>1, <2>2
    <3>2. UnitsOf(k)' = Draft(current).piece.units
      BY <1>2, <2>2, <3>1 DEF UnitsOf
    <3>3. UnitsOf(k) = current.units
      BY <2>2, <3>1 DEF UnitsOf, n
    <3>4. QED BY <1>1, <3>2, <3>3
  <2>3. CASE k \notin 1..n /\ k # n + 1
    <3>1. k \notin 1..(n + 1)
      BY <1>1, <2>3
    <3>2. UnitsOf(k)' = <<>>
      BY <1>2, <1>3, <3>1 DEF UnitsOf
    <3>3. UnitsOf(k) = <<>>
      BY <2>3 DEF UnitsOf, n
    <3>4. QED BY <3>2, <3>3
  <2>4. QED BY <2>1, <2>2, <2>3
<1>5. ASSUME NEW k \in Nat, k > Len(drafts') PROVE UnitsOf(k)' = <<>>
  <2>1. k \notin 1..Len(drafts')
    BY <1>5, <1>2, <1>1
  <2>2. QED BY <1>3, <2>1 DEF UnitsOf
<1>6. QED
  BY <1>4, <1>5

\* Packing a unit puts it in one slot, the last, and moves no other.
LEMMA PackPlace ==
  ASSUME PackInv, NEW n \in Nat, NEW letters \in Nat, Pack(n, letters)
  PROVE  \E c \in Nat :
           /\ c > Len(drafts) /\ Len(drafts') >= Len(drafts)
           /\ UnitsOf(c)' = Append(UnitsOf(c), [fragment |-> here, from |-> at,
                                                letters |-> letters])
           /\ \A k \in Nat : k # c => UnitsOf(k)' = UnitsOf(k)
           /\ \A k \in Nat : k > c => UnitsOf(k) = <<>>
<1> DEFINE unit == [fragment |-> here, from |-> at, letters |-> letters]
           S == [piece : Pieces, header : Seq(STRING)]
<1>1. PICK d \in Nat : d = Len(drafts)
  BY DraftLen
<1>2. /\ d \in Nat /\ drafts \in Seq(S) /\ Draft(current) \in S
      /\ Draft(current).piece = current
  BY DraftLen, DraftType DEF PackInv, TypeOK
<1>3. CASE /\ UNCHANGED drafts
           /\ current'.units = Append(current.units, unit)
  <2> HIDE DEF unit
  <2>1. d + 1 \notin 1..d /\ d + 1 \in Nat /\ d + 1 > d
    BY <1>2
  <2>2. UnitsOf(d + 1)' = Append(UnitsOf(d + 1), unit)
    BY <1>1, <1>3, <2>1 DEF UnitsOf
  <2>3. \A k \in Nat : k # d + 1 => UnitsOf(k)' = UnitsOf(k)
    BY <1>1, <1>3 DEF UnitsOf
  <2>4. \A k \in Nat : k > d + 1 => UnitsOf(k) = <<>>
    BY <1>1, <1>2 DEF UnitsOf
  <2>5. Len(drafts') >= Len(drafts) /\ d + 1 > Len(drafts)
    BY <1>1, <1>2, <1>3
  <2>6. QED
    BY <2>1, <2>2, <2>3, <2>4, <2>5 DEF unit
<1>4. CASE current = Empty /\ current'.units = <<unit>> /\ UNCHANGED drafts
  <2>1. current.units = <<>>
    BY <1>4 DEF Empty
  <2>2. Append(<<>>, unit) = <<unit>>
    OBVIOUS
  <2>3. QED BY <1>3, <1>4, <2>1, <2>2
<1>5. CASE drafts' = Append(drafts, Draft(current)) /\ current'.units = <<unit>>
  <2>1. /\ Len(drafts') = d + 1 /\ drafts'[d + 1] = Draft(current)
        /\ \A k \in 1..d : drafts'[k] = drafts[k]
    BY <1>1, <1>2, <1>5, AppendProperties
  <2>2. Append(<<>>, unit) = <<unit>>
    OBVIOUS
  <2> HIDE DEF unit
  <2>3. d + 2 \in Nat /\ d + 2 \notin 1..(d + 1) /\ d + 2 # d + 1 /\ d + 2 = (d + 1) + 1
        /\ d + 2 \notin 1..d
    BY <1>2
  <2>4. UnitsOf(d + 2) = <<>>
    BY <1>1, <2>3 DEF UnitsOf
  <2>5. UnitsOf(d + 2)' = <<unit>>
    BY <1>1, <1>5, <2>1, <2>3 DEF UnitsOf
  <2>6. ASSUME NEW k \in Nat, k # d + 2 PROVE UnitsOf(k)' = UnitsOf(k)
    <3>1. CASE k \in 1..d
      <4>1. k \in 1..(d + 1)
        BY <1>2, <3>1
      <4>2. QED BY <1>1, <2>1, <3>1, <4>1 DEF UnitsOf
    <3>2. CASE k = d + 1
      <4>1. k \in 1..(d + 1) /\ k \notin 1..d
        BY <1>2, <3>2
      <4>2. UnitsOf(k)' = Draft(current).piece.units
        BY <1>1, <2>1, <3>2, <4>1 DEF UnitsOf
      <4>3. UnitsOf(k) = current.units
        BY <1>1, <3>2, <4>1 DEF UnitsOf
      <4>4. QED BY <1>2, <4>2, <4>3
    <3>3. CASE k \notin 1..d /\ k # d + 1
      <4>1. k \notin 1..(d + 1) /\ k # (d + 1) + 1
        BY <1>2, <3>3, <2>6
      <4>2. UnitsOf(k)' = <<>>
        BY <1>1, <2>1, <4>1 DEF UnitsOf
      <4>3. UnitsOf(k) = <<>>
        BY <1>1, <3>3 DEF UnitsOf
      <4>4. QED BY <4>2, <4>3
    <3>4. QED BY <3>1, <3>2, <3>3
  <2>7. \A k \in Nat : k > d + 2 => UnitsOf(k) = <<>>
    BY <1>1, <1>2 DEF UnitsOf
  <2>8. d + 2 > Len(drafts) /\ Len(drafts') >= Len(drafts)
    BY <1>1, <1>2, <2>1
  <2>9. QED
    BY <2>2, <2>3, <2>4, <2>5, <2>6, <2>7, <2>8 DEF unit
<1>6. QED
  <2>1. CASE current = Empty /\ UNCHANGED drafts
             /\ current' = [len |-> n, units |-> <<unit>>, section |-> fragments[here].section,
                            page |-> fragments[here].page]
    BY <2>1, <1>4
  <2>2. CASE /\ UNCHANGED drafts
             /\ current' = [current EXCEPT !.len = @ + 1 + n, !.units = Append(@, unit)]
    <3>1. current \in Pieces
      BY DraftLen
    <3> HIDE DEF unit
    <3>2. current'.units = Append(current.units, unit)
      BY <2>2, <3>1 DEF Pieces
    <3>3. QED BY <1>3, <2>2, <3>2
  <2>3. CASE /\ drafts' = Append(drafts, Draft(current))
             /\ \E tail \in Tails(current.len) :
                  current' = [len |-> IF tail = 0 THEN n ELSE tail + 1 + n,
                              units |-> <<unit>>, section |-> fragments[here].section,
                              page |-> fragments[here].page]
    <3>1. current'.units = <<unit>>
      BY <2>3
    <3>2. QED BY <1>5, <2>3, <3>1
  <2>4. QED
    BY <2>1, <2>2, <2>3 DEF Pack

\* The same, slot by slot.
LEMMA PackAdds ==
  ASSUME PackInv, NEW n \in Nat, NEW letters \in Nat, Pack(n, letters), here \in Nat
  PROVE  \E c, e \in Nat :
           /\ c > Len(drafts) /\ Len(drafts') >= Len(drafts)
           /\ \A k, m \in Nat : IsSlot(k, m)' <=> IsSlot(k, m) \/ (k = c /\ m = e)
           /\ \A k, m \in Nat :
                IsSlot(k, m) => UnitAt(k, m)' = UnitAt(k, m) /\ Earlier(k, m, c, e)
           /\ UnitAt(c, e)' = [fragment |-> here, from |-> at, letters |-> letters]
<1> DEFINE unit == [fragment |-> here, from |-> at, letters |-> letters]
<1>1. unit \in UnitRecords
  BY DEF UnitRecords, PackInv, TypeOK
<1>2. PICK c \in Nat :
        /\ c > Len(drafts) /\ Len(drafts') >= Len(drafts)
        /\ UnitsOf(c)' = Append(UnitsOf(c), unit)
        /\ \A k \in Nat : k # c => UnitsOf(k)' = UnitsOf(k)
        /\ \A k \in Nat : k > c => UnitsOf(k) = <<>>
  BY PackPlace
<1> HIDE DEF unit
<1>3. UnitsOf(c) \in Seq(UnitRecords) /\ Len(UnitsOf(c)) \in Nat
  BY UnitsType
<1>4. PICK e \in Nat : e = Len(UnitsOf(c)) + 1
  BY <1>3
<1>5. /\ Len(UnitsOf(c)') = e /\ UnitsOf(c)'[e] = unit
      /\ \A m \in 1..(e - 1) : UnitsOf(c)'[m] = UnitsOf(c)[m]
  <2>1. /\ Len(UnitsOf(c)') = Len(UnitsOf(c)) + 1
        /\ \A m \in 1..Len(UnitsOf(c)) : UnitsOf(c)'[m] = UnitsOf(c)[m]
        /\ UnitsOf(c)'[Len(UnitsOf(c)) + 1] = unit
    BY <1>1, <1>2, <1>3, AppendProperties
  <2>2. e - 1 = Len(UnitsOf(c))
    BY <1>3, <1>4
  <2>3. QED BY <2>1, <2>2, <1>4
<1>6. ASSUME NEW k \in Nat, NEW m \in Nat
      PROVE  /\ IsSlot(k, m)' <=> IsSlot(k, m) \/ (k = c /\ m = e)
             /\ IsSlot(k, m) => UnitAt(k, m)' = UnitAt(k, m) /\ Earlier(k, m, c, e)
  <2>1. CASE k = c
    <3>1. IsSlot(k, m)' <=> m \in 1..e
      BY <1>5, <2>1 DEF IsSlot
    <3>2. IsSlot(k, m) <=> m \in 1..(e - 1)
      BY <1>3, <1>4, <2>1 DEF IsSlot
    <3>3. m \in 1..e <=> m \in 1..(e - 1) \/ m = e
      BY <1>3, <1>4
    <3>4. m \in 1..(e - 1) => m < e
      BY <1>3, <1>4
    <3>5. QED
      BY <1>5, <2>1, <3>1, <3>2, <3>3, <3>4 DEF UnitAt, Earlier
  <2>2. CASE k # c
    <3>1. UnitsOf(k)' = UnitsOf(k)
      BY <1>2, <2>2
    <3>2. IsSlot(k, m) => k < c
      <4>1. CASE k > c
        <5>1. UnitsOf(k) = <<>> /\ Len(<<>>) = 0
          BY <1>2, <4>1, EmptySeq
        <5>2. ~IsSlot(k, m)
          BY <5>1 DEF IsSlot
        <5>3. QED BY <5>2
      <4>2. QED BY <2>2, <4>1
    <3>3. QED
      BY <2>2, <3>1, <3>2 DEF IsSlot, UnitAt, Earlier
  <2>3. QED BY <2>1, <2>2
<1>7. UnitAt(c, e)' = unit
  BY <1>5 DEF UnitAt
<1>8. QED
  BY <1>2, <1>3, <1>6, <1>7 DEF unit

\* Packing the next letters of the fragment being split keeps the order and the count.
LEMMA PackKeeps ==
  ASSUME PackInv, PackInv', RunsInOrder, SlotsOk, here \in 1..Len(fragments),
         NEW n \in Nat, NEW letters \in Nat \ {0}, Pack(n, letters),
         UNCHANGED <<file, fragments, left, here>>
  PROVE  RunsInOrder' /\ SlotsOk' /\ at' = at + letters
<1> DEFINE unit == [fragment |-> here, from |-> at, letters |-> letters]
<1>1. PICK c, e \in Nat :
        /\ c > Len(drafts) /\ Len(drafts') >= Len(drafts)
        /\ \A k, m \in Nat : IsSlot(k, m)' <=> IsSlot(k, m) \/ (k = c /\ m = e)
        /\ \A k, m \in Nat :
             IsSlot(k, m) => UnitAt(k, m)' = UnitAt(k, m) /\ Earlier(k, m, c, e)
        /\ UnitAt(c, e)' = unit
  BY PackAdds DEF PackInv, TypeOK
<1>2. at \in Nat /\ here \in Nat /\ Len(drafts) \in Nat /\ Len(fragments) \in Nat
  BY DraftLen, LenProperties DEF PackInv, TypeOK
<1>3. unit.fragment = here /\ unit.from = at /\ unit.letters = letters
  OBVIOUS
<1>4. at' = at + letters
  BY DEF Pack
<1>5. here \notin left /\ here # 0
  BY <1>2 DEF RunsInOrder
<1>6. RunsInOrder'
  BY <1>5 DEF RunsInOrder, SameRun
<1>7. /\ Taken(here) = at /\ Taken(here)' = at + letters
      /\ \A i \in 1..Len(fragments) :
           Taken(i) \in Nat /\ (i # here => Taken(i)' = Taken(i)) /\ Taken(i)' >= Taken(i)
  <2>1. \A i \in 1..Len(fragments) : Taken(i) \in Nat
    BY TakenType
  <2>2. Taken(here) = at /\ Taken(here)' = at + letters
    BY <1>4, <1>5 DEF Taken
  <2>3. ASSUME NEW i \in 1..Len(fragments), i # here PROVE Taken(i)' = Taken(i)
    BY <2>3 DEF Taken
  <2>4. QED BY <1>2, <2>1, <2>2, <2>3
<1>8. \A k, m \in Nat : IsSlot(k, m) =>
        /\ UnitAt(k, m) \in UnitRecords
        /\ UnitAt(k, m).fragment \in (1..Len(fragments)) \ left
        /\ UnitAt(k, m).letters > 0
        /\ UnitAt(k, m).from + UnitAt(k, m).letters <= Taken(UnitAt(k, m).fragment)
  BY UnitsType DEF SlotsOk, UnitsTaken
<1> HIDE DEF unit
<1>9. UnitsTaken'
  <2> SUFFICES ASSUME NEW k \in Nat, NEW m \in Nat, IsSlot(k, m)'
               PROVE  \E i \in (1..Len(fragments)) \ left :
                        /\ UnitAt(k, m)'.fragment = i /\ UnitAt(k, m)'.letters > 0
                        /\ UnitAt(k, m)'.from + UnitAt(k, m)'.letters <= Taken(i)'
    BY DEF UnitsTaken
  <2>1. CASE k = c /\ m = e
    BY <1>1, <1>2, <1>3, <1>5, <1>7, <2>1
  <2>2. CASE IsSlot(k, m)
    <3> DEFINE w == UnitAt(k, m)
    <3>1. UnitAt(k, m)' = w /\ w \in UnitRecords /\ w.fragment \in (1..Len(fragments)) \ left
          /\ w.letters > 0 /\ w.from + w.letters <= Taken(w.fragment)
      BY <1>1, <1>8, <2>2
    <3> HIDE DEF w
    <3>2. PICK i \in 1..Len(fragments) : i = w.fragment
      BY <3>1
    <3>3. Taken(i)' >= Taken(i) /\ Taken(i) \in Nat /\ Taken(i)' \in Nat
      BY <1>2, <1>7
    <3>4. w.from + w.letters <= Taken(i)'
      BY <3>1, <3>2, <3>3 DEF UnitRecords
    <3>5. QED BY <3>1, <3>2, <3>4
  <2>3. QED BY <1>1, <2>1, <2>2
<1>10. AllTaken'
  <2> SUFFICES ASSUME NEW i \in 1..Len(fragments), NEW x \in Nat, x < Taken(i)'
               PROVE  \E k, m \in Nat : IsSlot(k, m)' /\ Covers(UnitAt(k, m)', i, x)
    BY DEF AllTaken, Covers
  <2>1. CASE x < Taken(i)
    <3>1. PICK k \in Nat, m \in Nat : IsSlot(k, m) /\ Covers(UnitAt(k, m), i, x)
      BY <2>1 DEF SlotsOk, AllTaken
    <3>2. QED BY <1>1, <3>1
  <2>2. CASE i = here /\ ~(x < at)
    <3>1. x < at + letters
      BY <1>7, <2>2
    <3>2. Covers(unit, i, x)
      BY <1>2, <1>3, <2>2, <3>1 DEF Covers
    <3>3. QED BY <1>1, <3>2
  <2>3. QED BY <1>7, <2>1, <2>2
<1>11. ASSUME NEW k \in Nat, NEW m \in Nat, IsSlot(k, m)
       PROVE  /\ Precedes(UnitAt(k, m), unit)
              /\ k = c => SameRun(UnitAt(k, m).fragment, here)
  <2> DEFINE w == UnitAt(k, m)
  <2>1. w \in UnitRecords /\ w.fragment \in (1..Len(fragments)) \ left
        /\ w.from + w.letters <= Taken(w.fragment)
    BY <1>8, <1>11
  <2>2. k = c => SameRun(w.fragment, here)
    BY <1>1, <1>11 DEF SlotsOk, CurrentRun
  <2> HIDE DEF w
  <2>3. SameRun(w.fragment, here) => w.fragment <= here
    BY <1>5, <2>1 DEF RunsInOrder
  <2>4. w.fragment = here => w.from + w.letters <= at
    BY <1>7, <2>1
  <2>5. w.fragment \in Nat
    BY <2>1 DEF UnitRecords
  <2>6. Precedes(w, unit)
    BY <1>2, <1>3, <2>3, <2>4, <2>5 DEF Precedes
  <2>7. QED BY <2>2, <2>6 DEF w
<1>12. \A i, j \in Nat : SameRun(i, j)' <=> SameRun(i, j)
  BY DEF SameRun
<1>13. \A v, w : Precedes(v, w) => (SameRun(v.fragment, w.fragment)' =>
          v.fragment < w.fragment \/ (v.fragment = w.fragment /\ v.from + v.letters <= w.from))
  BY DEF Precedes, SameRun
<1>14. SameRun(here, here)
  BY DEF SameRun
<1>15. UnitsInOrder'
  <2> SUFFICES ASSUME NEW k \in Nat, NEW m \in Nat, NEW l \in Nat, NEW p \in Nat,
                      IsSlot(k, m)', IsSlot(l, p)'
               PROVE  /\ Earlier(k, m, l, p) => Precedes(UnitAt(k, m), UnitAt(l, p))'
                      /\ k = l => SameRun(UnitAt(k, m).fragment, UnitAt(l, p).fragment)'
    BY DEF UnitsInOrder, Earlier
  <2>1. CASE IsSlot(k, m) /\ IsSlot(l, p)
    <3>1. /\ Earlier(k, m, l, p) => Precedes(UnitAt(k, m), UnitAt(l, p))
          /\ k = l => SameRun(UnitAt(k, m).fragment, UnitAt(l, p).fragment)
      BY <2>1 DEF SlotsOk, UnitsInOrder
    <3>2. UnitAt(k, m)' = UnitAt(k, m) /\ UnitAt(l, p)' = UnitAt(l, p)
      BY <1>1, <2>1
    <3>3. QED BY <3>1, <3>2 DEF Precedes, SameRun
  <2>2. CASE IsSlot(k, m) /\ l = c /\ p = e
    <3>1. UnitAt(k, m)' = UnitAt(k, m) /\ UnitAt(l, p)' = unit
      BY <1>1, <2>2
    <3>2. /\ Precedes(UnitAt(k, m), unit)
          /\ k = l => SameRun(UnitAt(k, m).fragment, here)
      BY <1>11, <2>2
    <3>3. QED BY <1>3, <3>1, <3>2 DEF Precedes, SameRun
  <2>3. CASE k = c /\ m = e /\ IsSlot(l, p)
    <3>1. UnitAt(l, p)' = UnitAt(l, p) /\ UnitAt(k, m)' = unit /\ Earlier(l, p, k, m)
      BY <1>1, <2>3
    <3>2. ~Earlier(k, m, l, p)
      BY <3>1 DEF Earlier
    <3>3. k = l => SameRun(UnitAt(l, p).fragment, here)
      BY <1>11, <2>3
    <3>4. QED BY <1>3, <3>1, <3>2, <3>3 DEF SameRun
  <2>4. CASE k = c /\ m = e /\ l = c /\ p = e
    <3>1. ~Earlier(k, m, l, p)
      BY <2>4 DEF Earlier
    <3>2. QED BY <2>4, <3>1 DEF SameRun
  <2>5. QED BY <1>1, <2>1, <2>2, <2>3, <2>4
<1>16. CurrentRun'
  <2> SUFFICES ASSUME NEW k \in Nat, NEW m \in Nat, IsSlot(k, m)', k > Len(drafts')
               PROVE  SameRun(UnitAt(k, m).fragment, here)'
    BY DEF CurrentRun
  <2>1. k > Len(drafts)
    <3>1. Len(drafts') \in Nat
      BY LenProperties DEF PackInv, TypeOK
    <3>2. QED BY <1>1, <1>2, <3>1
  <2>2. CASE IsSlot(k, m)
    <3>1. UnitAt(k, m)' = UnitAt(k, m) /\ SameRun(UnitAt(k, m).fragment, here)
      BY <1>1, <2>1, <2>2 DEF SlotsOk, CurrentRun
    <3>2. QED BY <3>1 DEF SameRun
  <2>3. CASE k = c /\ m = e
    <3>1. UnitAt(k, m)' = unit
      BY <1>1, <2>3
    <3>2. QED BY <1>3, <3>1 DEF SameRun
  <2>4. QED BY <1>1, <2>2, <2>3
<1>17. QED
  BY <1>4, <1>6, <1>9, <1>10, <1>15, <1>16 DEF SlotsOk

\* A step that moves no unit keeps their order, and what they have taken.
LEMMA SlotsKeep ==
  ASSUME PackInv, SlotsOk, UNCHANGED <<file, fragments>>,
         \A k \in Nat : UnitsOf(k)' = UnitsOf(k),
         left' \subseteq left,
         \A i \in 1..Len(fragments) : Taken(i)' = Taken(i)
  PROVE  UnitsTaken' /\ AllTaken' /\ UnitsInOrder'
<1>1. \A k, m \in Nat : (IsSlot(k, m)' <=> IsSlot(k, m)) /\ UnitAt(k, m)' = UnitAt(k, m)
  BY DEF IsSlot, UnitAt
<1>2. UnitsTaken'
  <2> SUFFICES ASSUME NEW k \in Nat, NEW m \in Nat, IsSlot(k, m)
               PROVE  \E i \in (1..Len(fragments)) \ left' :
                        /\ UnitAt(k, m).fragment = i /\ UnitAt(k, m).letters > 0
                        /\ UnitAt(k, m).from + UnitAt(k, m).letters <= Taken(i)'
    BY <1>1 DEF UnitsTaken
  <2> DEFINE w == UnitAt(k, m)
  <2>1. /\ w.fragment \in (1..Len(fragments)) \ left /\ w.letters > 0
        /\ w.from + w.letters <= Taken(w.fragment) /\ UnitAt(k, m)' = w
    BY <1>1 DEF SlotsOk, UnitsTaken
  <2> HIDE DEF w
  <2>2. PICK i \in 1..Len(fragments) : i = w.fragment
    BY <2>1
  <2>3. Taken(i)' = Taken(i)
    OBVIOUS
  <2>4. QED BY <2>1, <2>2, <2>3 DEF w
<1>3. AllTaken'
  <2> SUFFICES ASSUME NEW i \in 1..Len(fragments), NEW x \in Nat, x < Taken(i)'
               PROVE  \E k, m \in Nat : IsSlot(k, m)' /\ Covers(UnitAt(k, m)', i, x)
    BY DEF AllTaken, Covers
  <2>1. PICK k \in Nat, m \in Nat : IsSlot(k, m) /\ Covers(UnitAt(k, m), i, x)
    BY DEF SlotsOk, AllTaken
  <2>2. QED BY <1>1, <2>1
<1>4. UnitsInOrder'
  <2> SUFFICES ASSUME NEW k \in Nat, NEW m \in Nat, NEW l \in Nat, NEW p \in Nat,
                      IsSlot(k, m), IsSlot(l, p)
               PROVE  /\ Earlier(k, m, l, p) => Precedes(UnitAt(k, m), UnitAt(l, p))'
                      /\ k = l => SameRun(UnitAt(k, m).fragment, UnitAt(l, p).fragment)'
    BY <1>1 DEF UnitsInOrder, Earlier
  <2>1. /\ Earlier(k, m, l, p) => Precedes(UnitAt(k, m), UnitAt(l, p))
        /\ k = l => SameRun(UnitAt(k, m).fragment, UnitAt(l, p).fragment)
    BY DEF SlotsOk, UnitsInOrder
  <2>2. UnitAt(k, m)' = UnitAt(k, m) /\ UnitAt(l, p)' = UnitAt(l, p)
    BY <1>1
  <2>3. QED BY <2>1, <2>2 DEF Precedes, SameRun
<1>5. QED
  BY <1>2, <1>3, <1>4

LEMMA LossInit == Init => LossInv
BY DEF Init, LossInv, Split

\* While the file is read, nothing is split.
LEMMA LossReads ==
  PackInv /\ LossInv /\ (Unreadable \/ ReadHeading \/ ReadText) => LossInv'
<1> SUFFICES ASSUME LossInv, Unreadable \/ ReadHeading \/ ReadText PROVE LossInv'
  OBVIOUS
<1>1. pc = "extract" /\ UNCHANGED splitting /\ pc' \in {"extract", "failed"}
  BY DEF Unreadable, ReadHeading, ReadText
<1>2. QED
  BY <1>1 DEF LossInv, splitting, Split

LEMMA NoUnits ==
  ASSUME current = Empty, drafts = <<>>
  PROVE  \A k, m \in Nat : ~IsSlot(k, m)
<1>1. Len(<<>>) = 0 /\ current.units = <<>>
  BY EmptySeq DEF Empty
<1>2. \A k \in Nat : UnitsOf(k) = <<>>
  BY <1>1 DEF UnitsOf
<1>3. QED
  BY <1>1, <1>2 DEF IsSlot

LEMMA LossEndOfFile == PackInv /\ PackInv' /\ LossInv /\ EndOfFile => LossInv'
<1> SUFFICES ASSUME PackInv, PackInv', LossInv, EndOfFile PROVE LossInv'
  OBVIOUS
<1>1. /\ here' = 0 /\ current' = Empty /\ drafts' = <<>>
      /\ pc' = "failed" \/ (pc' = "split" /\ left' = 1..Len(fragments'))
  BY DEF EndOfFile, LossInv
<1>2. CASE pc' = "split" /\ left' = 1..Len(fragments')
  <2>1. \A k, m \in Nat : ~IsSlot(k, m)'
    <3>1. Len(<<>>) = 0 /\ current'.units = <<>>
      BY <1>1, EmptySeq DEF Empty
    <3>2. \A k \in Nat : UnitsOf(k)' = <<>>
      BY <1>1, <3>1 DEF UnitsOf
    <3>3. QED BY <3>1, <3>2 DEF IsSlot
  <2>2. Len(fragments') \in Nat
    BY LenProperties DEF PackInv, TypeOK
  <2>3. RunsInOrder' /\ LettersLeft'
    BY <1>1, <1>2, <2>2 DEF RunsInOrder, LettersLeft
  <2>4. AllTaken'
    BY <1>2 DEF AllTaken, Taken
  <2>5. UnitsTaken' /\ UnitsInOrder' /\ CurrentRun'
    BY <2>1 DEF UnitsTaken, UnitsInOrder, CurrentRun
  <2>6. QED
    BY <1>2, <2>3, <2>4, <2>5 DEF LossInv, SlotsOk, Split
<1>3. CASE pc' = "failed"
  BY <1>3 DEF LossInv, Split
<1>4. QED
  BY <1>1, <1>2, <1>3

LEMMA MinFacts ==
  ASSUME NEW D \in SUBSET Nat, D # {}
  PROVE  Min(D) \in D /\ \A x \in D : Min(D) <= x
<1>1. \E x \in D : \A y \in D : x <= y
  BY LeastOf
<1>2. QED
  BY <1>1 DEF Min

\* The next fragment is the first of its run that is not split yet.
LEMMA FollowsFirst ==
  ASSUME PackInv, NEW i \in left, Follows(i)
  PROVE  \A j \in left : SameRun(i, j) => i <= j
<1> DEFINE same == {j \in left : fragments[j].section = fragments[here].section}
<1>1. left \in SUBSET Nat /\ same \in SUBSET Nat /\ left # {}
  <2>1. left \subseteq 1..Len(fragments) /\ Len(fragments) \in Nat
    BY LenProperties DEF PackInv, TypeOK
  <2>2. left \in SUBSET Nat
    BY <2>1
  <2>3. QED BY <2>2
<1>2. CASE file.type = "md" /\ here # 0 /\ same # {}
  <2>1. i = Min(same)
    BY <1>2 DEF Follows
  <2>2. i \in same /\ \A j \in same : i <= j
    <3> HIDE DEF same
    <3> QED BY <1>1, <1>2, <2>1, MinFacts
  <2>3. QED
    BY <1>2, <2>2 DEF SameRun
<1>3. CASE ~(file.type = "md" /\ here # 0 /\ same # {})
  <2>1. i = Min(left)
    BY <1>3 DEF Follows
  <2>2. QED
    BY <1>1, <2>1, MinFacts
<1>4. QED
  BY <1>2, <1>3

LEMMA EmptyUnits ==
  ASSUME current = Empty
  PROVE  \A k, m \in Nat : k > Len(drafts) /\ Len(drafts) \in Nat => ~IsSlot(k, m)
<1>1. current.units = <<>> /\ Len(<<>>) = 0
  BY EmptySeq DEF Empty
<1>2. \A k \in Nat : k > Len(drafts) /\ Len(drafts) \in Nat => UnitsOf(k) = <<>>
  BY <1>1 DEF UnitsOf
<1>3. QED
  BY <1>1, <1>2 DEF IsSlot

LEMMA LossNextFragment == PackInv /\ PackInv' /\ LossInv /\ NextFragment => LossInv'
<1> SUFFICES ASSUME PackInv, PackInv', LossInv, NextFragment PROVE LossInv'
  OBVIOUS
<1>1. PICK i \in left :
        /\ Follows(i) /\ here' = i /\ left' = left \ {i}
        /\ paras' = fragments[i].paras /\ at' = 0
        /\ \/ /\ NewSection(i) /\ current # Empty
              /\ drafts' = Append(drafts, Draft(current)) /\ current' = Empty
           \/ /\ ~(NewSection(i) /\ current # Empty)
              /\ UNCHANGED <<current, drafts>>
  BY DEF NextFragment
<1>2. /\ pc = "split" /\ pc' = "split" /\ paras = <<>> /\ sentences = <<>>
      /\ UNCHANGED <<file, fragments, sentences>>
  BY DEF NextFragment, reading
<1>3. RunsInOrder /\ LettersLeft /\ SlotsOk
  BY <1>2 DEF LossInv
<1>4. /\ i \in 1..Len(fragments) /\ i \in Nat \ {0} /\ Len(fragments) \in Nat /\ here # i
      /\ here \in Nat /\ at \in Nat /\ here \notin left
  <2>1. left \subseteq 1..Len(fragments) /\ Len(fragments) \in Nat
        /\ here \in Nat /\ at \in Nat
    BY LenProperties DEF PackInv, TypeOK
  <2>2. here \notin left
    BY <1>3 DEF RunsInOrder
  <2>3. i \in 1..Len(fragments)
    BY <2>1
  <2>4. i \in Nat \ {0}
    BY <2>1, <2>3
  <2>5. QED BY <2>1, <2>2, <2>3, <2>4
<1>5. RunsInOrder'
  <2>1. here' \in 0..Len(fragments') /\ here' \notin left' /\ here' # 0
    BY <1>1, <1>2, <1>4
  <2>2. ASSUME NEW j \in (1..Len(fragments)) \ left'
        PROVE  /\ SameRun(j, i) => j <= i
               /\ \A p \in left' : SameRun(p, j) => j < p
    <3>1. \A p \in left : SameRun(i, p) => i <= p
      BY <1>1, FollowsFirst
    <3>2. CASE j = i
      <4>1. ASSUME NEW p \in left', SameRun(p, j) PROVE j < p
        <5>1. p \in left /\ p # i /\ SameRun(i, p) /\ p \in Nat
          BY <1>1, <3>2, <4>1 DEF SameRun, PackInv, TypeOK
        <5>2. QED BY <1>4, <3>1, <3>2, <5>1
      <4>2. QED BY <1>4, <3>2, <4>1
    <3>3. CASE j # i
      <4>1. j \in (1..Len(fragments)) \ left /\ j \in Nat
        BY <1>1, <3>3
      <4>2. \A p \in left : SameRun(p, j) => j < p
        BY <1>3, <4>1 DEF RunsInOrder
      <4>3. SameRun(j, i) => j <= i
        BY <1>4, <4>1, <4>2 DEF SameRun
      <4>4. QED BY <1>1, <4>2, <4>3
    <3>4. QED BY <3>2, <3>3
  <2>3. \A p, q \in Nat : SameRun(p, q)' <=> SameRun(p, q)
    BY <1>2 DEF SameRun
  <2>4. left' \subseteq Nat /\ (1..Len(fragments)) \subseteq Nat
    <3>1. left \subseteq 1..Len(fragments)
      BY DEF PackInv, TypeOK
    <3>2. QED BY <1>1, <1>4, <3>1
  <2>5. QED
    BY <1>1, <1>2, <1>4, <2>1, <2>2, <2>3, <2>4 DEF RunsInOrder
<1>6. LettersLeft'
  <2>1. fragments[i] \in Fragments
    BY <1>4, ElementOfSeq DEF PackInv, TypeOK
  <2>2. Letters(fragments[i].paras) \in Nat
    BY <2>1, LettersType DEF Fragments
  <2>3. at' + Total(sentences') + Letters(paras') = Letters(fragments[i].paras)
    BY <1>1, <1>2, <2>2, TotalEmpty
  <2>4. QED BY <1>1, <1>2, <2>3 DEF LettersLeft
<1>7. \A k \in Nat : UnitsOf(k)' = UnitsOf(k)
  <2>1. CASE drafts' = Append(drafts, Draft(current)) /\ current' = Empty
    BY <2>1, FlushKeeps
  <2>2. CASE UNCHANGED <<current, drafts>>
    BY <2>2 DEF UnitsOf
  <2>3. QED BY <1>1, <2>1, <2>2
<1>8. \A j \in 1..Len(fragments) : Taken(j)' = Taken(j)
  <2> SUFFICES ASSUME NEW j \in 1..Len(fragments) PROVE Taken(j)' = Taken(j)
    OBVIOUS
  <2>1. CASE j = i
    BY <1>1, <2>1 DEF Taken
  <2>2. CASE j # i /\ j = here
    <3>1. here # 0
      BY <2>2
    <3>2. at = Letters(fragments[here].paras)
      BY <1>2, <1>3, <1>4, <3>1, TotalEmpty, LettersEmpty DEF LettersLeft
    <3>3. Taken(j) = at
      BY <1>4, <2>2 DEF Taken
    <3>4. Taken(j)' = Letters(fragments[j].paras)
      BY <1>1, <1>2, <1>4, <2>2 DEF Taken
    <3>5. QED BY <2>2, <3>2, <3>3, <3>4
  <2>3. CASE j # i /\ j # here
    BY <1>1, <1>2, <2>3 DEF Taken
  <2>4. QED BY <2>1, <2>2, <2>3
<1>9. UnitsTaken' /\ AllTaken' /\ UnitsInOrder'
  <2>1. left' \subseteq left
    BY <1>1
  <2>2. QED BY <1>2, <1>3, <1>7, <1>8, <2>1, SlotsKeep
<1>10. CurrentRun'
  <2>1. Len(drafts) \in Nat /\ Len(drafts') \in Nat
    BY LenProperties DEF PackInv, TypeOK
  <2>2. CASE current' = Empty
    <3>1. current'.units = <<>> /\ Len(<<>>) = 0
      BY <2>2, EmptySeq DEF Empty
    <3>2. \A k \in Nat : k > Len(drafts') => UnitsOf(k)' = <<>>
      BY <2>1, <3>1 DEF UnitsOf
    <3>3. QED BY <3>1, <3>2 DEF CurrentRun, IsSlot
  <2>3. CASE ~NewSection(i) /\ current # Empty /\ UNCHANGED <<current, drafts>>
    <3>1. here # 0
      BY <1>3, <2>3 DEF RunsInOrder
    <3>2. SameRun(here, i)
      BY <2>3, <3>1 DEF NewSection, SameRun
    <3>3. ASSUME NEW k \in Nat, NEW m \in Nat, IsSlot(k, m)', k > Len(drafts')
          PROVE  SameRun(UnitAt(k, m).fragment, here)'
      <4>1. IsSlot(k, m) /\ UnitAt(k, m)' = UnitAt(k, m) /\ k > Len(drafts)
        BY <1>7, <2>3, <3>3 DEF IsSlot, UnitAt
      <4>2. SameRun(UnitAt(k, m).fragment, here)
        BY <1>3, <4>1 DEF SlotsOk, CurrentRun
      <4>3. QED BY <1>1, <1>2, <3>2, <4>1, <4>2 DEF SameRun
    <3>4. QED BY <3>3 DEF CurrentRun
  <2>4. QED BY <1>1, <2>2, <2>3
<1>11. QED
  BY <1>2, <1>5, <1>6, <1>9, <1>10 DEF LossInv, SlotsOk, Split

LEMMA LossNextParagraph == PackInv /\ PackInv' /\ LossInv /\ NextParagraph => LossInv'
<1> SUFFICES ASSUME PackInv, PackInv', LossInv, NextParagraph PROVE LossInv'
  OBVIOUS
<1> DEFINE p == Head(paras)
<1>1. /\ pc = "split" /\ pc' = "split" /\ paras # <<>> /\ sentences = <<>>
      /\ paras' = Tail(paras) /\ UNCHANGED <<file, fragments, left, here>>
  BY DEF NextParagraph, reading
<1>2. RunsInOrder /\ LettersLeft /\ SlotsOk
  BY <1>1 DEF LossInv
<1>3. p \in Paragraphs /\ Tail(paras) \in Seq(Paragraphs) /\ paras \in Seq(Paragraphs)
  BY <1>1, HeadTailProperties DEF PackInv, TypeOK
<1>4. /\ p.len \in Nat /\ p.letters \in Nat /\ p.sentences \in Seq(Nat)
      /\ p.letters = Total(p.sentences) /\ (p.len > 0 => p.letters > 0)
  <2>1. p.sentences \in Seq(Nat \ {0})
    BY <1>3 DEF Paragraphs
  <2>2. p.sentences \in Seq(Nat)
    <3> HIDE DEF p
    <3> QED BY <2>1, SeqMonotonic
  <2>3. QED BY <1>3, <2>2 DEF Paragraphs
<1>5. here \in 1..Len(fragments) /\ at \in Nat /\ here # 0
  BY <1>1 DEF PackInv, TypeOK
<1>6. at + p.letters + Letters(Tail(paras)) = Letters(fragments[here].paras)
      /\ Letters(Tail(paras)) \in Nat
  <2>1. at + Total(<<>>) + Letters(paras) = Letters(fragments[here].paras)
    BY <1>1, <1>2, <1>5 DEF LettersLeft
  <2>2. Letters(paras) = p.letters + Letters(Tail(paras)) /\ Letters(Tail(paras)) \in Nat
    BY <1>1, <1>3, LettersStep, LettersType
  <2> HIDE DEF p
  <2>3. QED BY <1>4, <1>5, <2>1, <2>2, TotalEmpty
<1>7. CASE 0 < p.len /\ p.len <= Size /\ Pack(p.len, p.letters) /\ UNCHANGED sentences
  <2>1. p.letters \in Nat \ {0} /\ p.len \in Nat
    BY <1>4, <1>7
  <2>2. RunsInOrder' /\ SlotsOk' /\ at' = at + p.letters
    <3> HIDE DEF p
    <3> QED BY <1>1, <1>2, <1>5, <1>7, <2>1, PackKeeps
  <2> HIDE DEF p
  <2>3. at' + Total(sentences') + Letters(paras') = Letters(fragments[here].paras)
    BY <1>1, <1>4, <1>5, <1>6, <1>7, <2>2, TotalEmpty
  <2>4. LettersLeft'
    BY <1>1, <2>3 DEF LettersLeft
  <2>5. QED
    BY <1>1, <2>2, <2>4 DEF LossInv, Split
<1>8. CASE sentences' = p.sentences /\ UNCHANGED <<at, current, drafts>>
  <2>1. Total(p.sentences) \in Nat
    BY <1>4
  <2> HIDE DEF p
  <2>2. at' + Total(sentences') + Letters(paras') = Letters(fragments[here].paras)
    BY <1>1, <1>4, <1>5, <1>6, <1>8, <2>1
  <2>3. LettersLeft'
    BY <1>1, <2>2 DEF LettersLeft
  <2>4. RunsInOrder'
    BY <1>1, <1>2, <1>8 DEF RunsInOrder, SameRun
  <2>5. \A k \in Nat : UnitsOf(k)' = UnitsOf(k)
    BY <1>8 DEF UnitsOf
  <2>6. \A i \in 1..Len(fragments) : Taken(i)' = Taken(i)
    BY <1>1, <1>8 DEF Taken
  <2>7. UnitsTaken' /\ AllTaken' /\ UnitsInOrder'
    <3>1. left' \subseteq left
      BY <1>1
    <3>2. QED BY <1>1, <1>2, <2>5, <2>6, <3>1, SlotsKeep
  <2>8. CurrentRun'
    BY <1>1, <1>2, <1>8, <2>5 DEF SlotsOk, CurrentRun, IsSlot, UnitAt, SameRun
  <2>9. QED
    BY <1>1, <2>3, <2>4, <2>7, <2>8 DEF LossInv, SlotsOk, Split
<1>9. QED
  BY <1>7, <1>8 DEF NextParagraph

LEMMA LossNextSentence == PackInv /\ PackInv' /\ LossInv /\ NextSentence => LossInv'
<1> SUFFICES ASSUME PackInv, PackInv', LossInv, NextSentence PROVE LossInv'
  OBVIOUS
<1> DEFINE s == Head(sentences)
           n == IF s <= Size THEN s ELSE Size
<1>1. /\ pc = "split" /\ pc' = "split" /\ sentences # <<>>
      /\ Pack(n, n) /\ UNCHANGED <<file, fragments, left, here, paras>>
      /\ sentences' = IF s <= Size THEN Tail(sentences) ELSE <<s - Size>> \o Tail(sentences)
  BY DEF NextSentence, reading
<1>2. RunsInOrder /\ LettersLeft /\ SlotsOk
  BY <1>1 DEF LossInv
<1>3. sentences \in Seq(Nat \ {0}) /\ s \in Nat \ {0} /\ Tail(sentences) \in Seq(Nat \ {0})
  BY <1>1, HeadTailProperties DEF PackInv, TypeOK
<1>4. sentences \in Seq(Nat) /\ Tail(sentences) \in Seq(Nat)
  BY <1>3, SeqMonotonic
<1>5. n \in Nat \ {0} /\ n \in Nat
  BY <1>3, ConstantsAssumption
<1>6. here \in 1..Len(fragments) /\ at \in Nat /\ here # 0
  BY <1>1 DEF PackInv, TypeOK
<1>7. RunsInOrder' /\ SlotsOk' /\ at' = at + n
  <2> HIDE DEF n
  <2> QED BY <1>1, <1>2, <1>5, <1>6, PackKeeps
<1>8. Total(sentences) = s + Total(Tail(sentences)) /\ Total(Tail(sentences)) \in Nat
  BY <1>1, <1>4, TotalStep, TotalUpto
<1>9. n + Total(sentences') = Total(sentences)
  <2>1. CASE s <= Size
    BY <1>1, <1>8, <2>1
  <2>2. CASE ~(s <= Size)
    <3>1. s - Size \in Nat /\ Size \in Nat
      BY <1>3, <2>2, ConstantsAssumption
    <3>2. Total(<<s - Size>> \o Tail(sentences)) = (s - Size) + Total(Tail(sentences))
      <4> HIDE DEF s
      <4> QED BY <1>4, <3>1, TotalPrepend
    <3>3. sentences' = <<s - Size>> \o Tail(sentences) /\ n = Size
      BY <1>1, <2>2
    <3> HIDE DEF s, n
    <3>4. QED BY <1>3, <1>8, <3>1, <3>2, <3>3
  <2>3. QED BY <2>1, <2>2
<1>10. LettersLeft'
  <2>1. sentences' \in Seq(Nat)
    BY SeqMonotonic DEF PackInv, TypeOK
  <2>2. Total(sentences') \in Nat /\ Letters(paras) \in Nat /\ paras \in Seq(Paragraphs)
    BY <2>1, TotalUpto, LettersType DEF PackInv, TypeOK
  <2>3. at + Total(sentences) + Letters(paras) = Letters(fragments[here].paras)
    BY <1>2, <1>6 DEF LettersLeft
  <2> HIDE DEF n
  <2>4. at' + Total(sentences') + Letters(paras) = Letters(fragments[here].paras)
    BY <1>5, <1>6, <1>7, <1>9, <2>2, <2>3
  <2>5. QED BY <1>1, <2>4 DEF LettersLeft
<1>11. QED
  BY <1>1, <1>7, <1>10 DEF LossInv, Split

LEMMA LossEndOfText == PackInv /\ PackInv' /\ LossInv /\ EndOfText => LossInv'
<1> SUFFICES ASSUME PackInv, PackInv', LossInv, EndOfText PROVE LossInv'
  OBVIOUS
<1>1. /\ pc = "split" /\ pc' = "embed" /\ left = {} /\ paras = <<>> /\ sentences = <<>>
      /\ UNCHANGED <<file, fragments, left, here, at, paras, sentences>>
      /\ current' = Empty
      /\ drafts' = IF current = Empty THEN drafts ELSE Append(drafts, Draft(current))
  BY DEF EndOfText, reading
<1>2. RunsInOrder /\ LettersLeft /\ SlotsOk
  BY <1>1 DEF LossInv
<1>3. RunsInOrder'
  BY <1>1, <1>2 DEF RunsInOrder, SameRun
<1>4. LettersLeft'
  BY <1>1, <1>2 DEF LettersLeft
<1>5. \A k \in Nat : UnitsOf(k)' = UnitsOf(k)
  <2>1. CASE current = Empty
    BY <1>1, <2>1 DEF UnitsOf
  <2>2. CASE current # Empty
    BY <1>1, <2>2, FlushKeeps
  <2>3. QED BY <2>1, <2>2
<1>6. \A i \in 1..Len(fragments) : Taken(i)' = Taken(i)
  BY <1>1 DEF Taken
<1>7. UnitsTaken' /\ AllTaken' /\ UnitsInOrder'
  <2>1. left' \subseteq left
    BY <1>1
  <2>2. QED BY <1>1, <1>2, <1>5, <1>6, <2>1, SlotsKeep
<1>8. CurrentRun'
  <2>1. Len(drafts') \in Nat
    BY LenProperties DEF PackInv, TypeOK
  <2>2. current'.units = <<>> /\ Len(<<>>) = 0
    BY <1>1, EmptySeq DEF Empty
  <2>3. \A k \in Nat : k > Len(drafts') => UnitsOf(k)' = <<>>
    BY <2>1, <2>2 DEF UnitsOf
  <2>4. QED BY <2>2, <2>3 DEF CurrentRun, IsSlot
<1>9. QED
  BY <1>1, <1>3, <1>4, <1>7, <1>8 DEF LossInv, SlotsOk, Split

LEMMA LossNext == PackInv /\ PackInv' /\ LossInv /\ [Next]_vars => LossInv'
<1> SUFFICES ASSUME PackInv, PackInv', LossInv, [Next]_vars PROVE LossInv'
  OBVIOUS
<1>1. CASE EmbedBatch \/ EmbedFails \/ Store
  <2>1. /\ UNCHANGED <<file, reading, splitting>>
        /\ pc = "embed" /\ pc' \in {"embed", "done", "failed"}
    BY <1>1 DEF EmbedBatch, EmbedFails, Store
  <2>2. RunsInOrder /\ LettersLeft /\ SlotsOk /\ left = {} /\ current = Empty
        /\ paras = <<>> /\ sentences = <<>>
    BY <2>1 DEF LossInv, Split
  <2>3. RunsInOrder' /\ LettersLeft'
    BY <2>1, <2>2 DEF RunsInOrder, LettersLeft, SameRun, reading, splitting
  <2>4. \A k \in Nat : UnitsOf(k)' = UnitsOf(k)
    BY <2>1 DEF UnitsOf, splitting
  <2>5. \A i \in 1..Len(fragments) : Taken(i)' = Taken(i)
    BY <2>1 DEF Taken, reading, splitting
  <2>6. UnitsTaken' /\ AllTaken' /\ UnitsInOrder'
    <3>1. left' \subseteq left /\ UNCHANGED <<file, fragments>>
      BY <2>1 DEF reading, splitting
    <3>2. QED BY <2>2, <2>4, <2>5, <3>1, SlotsKeep
  <2>7. CurrentRun'
    BY <2>1, <2>2, <2>4
       DEF SlotsOk, CurrentRun, IsSlot, UnitAt, SameRun, reading, splitting
  <2>8. QED
    BY <2>1, <2>2, <2>3, <2>6, <2>7 DEF LossInv, SlotsOk, Split, splitting
<1>2. CASE UNCHANGED vars
  <2>1. UNCHANGED <<file, pc, fragments, left, here, paras, sentences, at, current, drafts>>
    BY <1>2 DEF vars
  <2>2. (RunsInOrder' <=> RunsInOrder) /\ (LettersLeft' <=> LettersLeft)
    BY <2>1 DEF RunsInOrder, LettersLeft, SameRun
  <2>3. (UnitsTaken' <=> UnitsTaken) /\ (AllTaken' <=> AllTaken)
    BY <2>1 DEF UnitsTaken, AllTaken, IsSlot, UnitAt, UnitsOf, Taken, Covers
  <2>4. (UnitsInOrder' <=> UnitsInOrder) /\ (CurrentRun' <=> CurrentRun)
    BY <2>1 DEF UnitsInOrder, CurrentRun, Precedes, Earlier, SameRun, IsSlot, UnitAt, UnitsOf
  <2>5. QED
    BY <2>1, <2>2, <2>3, <2>4 DEF LossInv, SlotsOk, Split
<1>3. QED
  BY <1>1, <1>2, LossReads, LossEndOfFile, LossNextFragment, LossNextParagraph,
     LossNextSentence, LossEndOfText DEF Next

\* Once a file is split, the units of its chunks are all the units there are.
LEMMA SplitUnits ==
  ASSUME PackInv, LossInv, Split
  PROVE  /\ \A k, m \in Nat : IsSlot(k, m) <=> <<k, m>> \in Units
         /\ \A k, m \in Nat : IsSlot(k, m) => UnitAt(k, m) = Unit(<<k, m>>)
         /\ \A u \in Units : u = <<u[1], u[2]>> /\ u[1] \in Nat /\ u[2] \in Nat
<1>1. /\ current.units = <<>> /\ Len(<<>>) = 0 /\ Len(drafts) \in Nat
      /\ \A k \in Nat : Len(UnitsOf(k)) \in Nat
  BY EmptySeq, DraftLen, UnitsType DEF LossInv, Empty
<1>2. ASSUME NEW k \in Nat, NEW m \in Nat
      PROVE  /\ IsSlot(k, m) <=> k \in 1..Len(drafts) /\ m \in 1..Len(drafts[k].piece.units)
             /\ k \in 1..Len(drafts) => UnitsOf(k) = drafts[k].piece.units
  BY <1>1 DEF IsSlot, UnitsOf
<1>3. \A k, m : <<k, m>> \in Units
                  <=> k \in 1..Len(drafts) /\ m \in 1..Len(drafts[k].piece.units)
  BY DEF Units
<1>4. ASSUME NEW k \in Nat, NEW m \in Nat, IsSlot(k, m)
      PROVE  UnitAt(k, m) = Unit(<<k, m>>)
  BY <1>2, <1>4 DEF UnitAt, Unit
<1>5. ASSUME NEW u \in Units
      PROVE  u = <<u[1], u[2]>> /\ u[1] \in Nat /\ u[2] \in Nat
  <2>1. PICK k \in 1..Len(drafts) : u \in {k} \X (1..Len(drafts[k].piece.units))
    BY DEF Units
  <2>2. Len(drafts[k].piece.units) \in Nat /\ k \in Nat
    <3>1. k \in Nat
      BY <1>1
    <3>2. UnitsOf(k) = drafts[k].piece.units
      BY <1>2, <3>1
    <3>3. QED BY <1>1, <3>1, <3>2
  <2>3. u = <<u[1], u[2]>> /\ u[1] = k /\ u[2] \in 1..Len(drafts[k].piece.units)
    BY <2>1
  <2>4. QED BY <2>2, <2>3
<1>6. QED
  BY <1>2, <1>3, <1>4, <1>5

LEMMA LossImplies == PackInv /\ LossInv => NothingLost
<1> SUFFICES ASSUME PackInv, LossInv, Split PROVE NothingLost
  BY DEF NothingLost
<1>1. RunsInOrder /\ LettersLeft /\ SlotsOk /\ left = {} /\ paras = <<>> /\ sentences = <<>>
  BY DEF LossInv, Split
<1>2. ASSUME NEW i \in 1..Len(fragments)
      PROVE  Taken(i) = Letters(fragments[i].paras) /\ Letters(fragments[i].paras) \in Nat
  <2>1. CASE i = here
    <3>1. here # 0 /\ at \in Nat
      BY <2>1, LenProperties DEF PackInv, TypeOK
    <3>2. QED
      BY <1>1, <2>1, <3>1, TotalEmpty, LettersEmpty, TakenType DEF LettersLeft, Taken
  <2>2. CASE i # here
    BY <1>1, <2>2, TakenType DEF Taken
  <2>3. QED BY <2>1, <2>2
<1>3. ASSUME NEW u \in Units, NEW v \in Units, Before(u, v),
             SameRun(Unit(u).fragment, Unit(v).fragment)
      PROVE  /\ Unit(u).fragment < Unit(v).fragment
                \/ (/\ Unit(u).fragment = Unit(v).fragment
                    /\ Unit(u).from + Unit(u).letters <= Unit(v).from)
             /\ Unit(u).letters > 0
             /\ Unit(u) \in UnitRecords /\ Unit(v) \in UnitRecords
  <2>1. PICK k \in Nat, m \in Nat : u = <<k, m>>
    BY SplitUnits
  <2>2. PICK l \in Nat, p \in Nat : v = <<l, p>>
    BY SplitUnits
  <2>3. /\ IsSlot(k, m) /\ IsSlot(l, p) /\ UnitAt(k, m) = Unit(u) /\ UnitAt(l, p) = Unit(v)
        /\ Earlier(k, m, l, p)
    BY <1>3, <2>1, <2>2, SplitUnits DEF Earlier, Before
  <2>4. Precedes(UnitAt(k, m), UnitAt(l, p)) /\ UnitAt(k, m).letters > 0
    BY <1>1, <2>3 DEF SlotsOk, UnitsInOrder, UnitsTaken
  <2>5. QED
    BY <1>3, <2>3, <2>4, UnitsType DEF Precedes
<1>4. ASSUME NEW i \in 1..Len(fragments), NEW x \in 0..(Letters(fragments[i].paras) - 1)
      PROVE  Cardinality({u \in Units : Unit(u).fragment = i /\ Unit(u).from <= x
                                        /\ x < Unit(u).from + Unit(u).letters}) = 1
  <2> DEFINE C == {u \in Units : Unit(u).fragment = i /\ Unit(u).from <= x
                                 /\ x < Unit(u).from + Unit(u).letters}
  <2>1. x \in Nat /\ x < Taken(i)
    BY <1>2
  <2>2. PICK k \in Nat, m \in Nat : IsSlot(k, m) /\ Covers(UnitAt(k, m), i, x)
    BY <1>1, <2>1 DEF SlotsOk, AllTaken
  <2>3. <<k, m>> \in C
    BY <2>2, SplitUnits DEF Covers
  <2>4. ASSUME NEW u \in C, NEW v \in C, Before(u, v) PROVE FALSE
    <3>1. SameRun(Unit(u).fragment, Unit(v).fragment)
      BY DEF SameRun
    <3>2. /\ Unit(u).from + Unit(u).letters <= Unit(v).from
          /\ Unit(u) \in UnitRecords /\ Unit(v) \in UnitRecords
      <4>1. Unit(u).fragment = i /\ Unit(v).fragment = i /\ ~(i < i)
        OBVIOUS
      <4>2. QED BY <1>3, <2>4, <3>1, <4>1
    <3>3. Unit(v).from <= x /\ x < Unit(u).from + Unit(u).letters
      OBVIOUS
    <3>4. QED BY <2>1, <3>2, <3>3 DEF UnitRecords
  <2>5. ASSUME NEW u \in C, NEW v \in C PROVE u = v
    <3>1. /\ u = <<u[1], u[2]>> /\ u[1] \in Nat /\ u[2] \in Nat
          /\ v = <<v[1], v[2]>> /\ v[1] \in Nat /\ v[2] \in Nat
      BY SplitUnits
    <3>2. Before(u, v) \/ Before(v, u) \/ (u[1] = v[1] /\ u[2] = v[2])
      BY <3>1 DEF Before
    <3>3. ~Before(u, v) /\ ~Before(v, u)
      BY <2>4
    <3>4. QED BY <3>1, <3>2, <3>3
  <2> HIDE DEF C
  <2>6. C = {<<k, m>>}
    BY <2>3, <2>5
  <2>7. Cardinality(C) = 1
    BY <2>6, FS_Singleton
  <2>8. QED BY <2>7 DEF C
<1>5. ASSUME NEW u \in Units, NEW v \in Units
      PROVE  /\ Before(u, v) /\ SameRun(Unit(u).fragment, Unit(v).fragment) =>
                  \/ Unit(u).fragment < Unit(v).fragment
                  \/ Unit(u).fragment = Unit(v).fragment /\ Unit(u).from < Unit(v).from
             /\ u[1] = v[1] => SameRun(Unit(u).fragment, Unit(v).fragment)
  <2>1. CASE Before(u, v) /\ SameRun(Unit(u).fragment, Unit(v).fragment)
    <3>1. /\ Unit(u).fragment < Unit(v).fragment
             \/ (/\ Unit(u).fragment = Unit(v).fragment
                 /\ Unit(u).from + Unit(u).letters <= Unit(v).from)
          /\ Unit(u).letters > 0 /\ Unit(u) \in UnitRecords /\ Unit(v) \in UnitRecords
      BY <1>3, <2>1
    <3>2. \/ Unit(u).fragment < Unit(v).fragment
          \/ Unit(u).fragment = Unit(v).fragment /\ Unit(u).from < Unit(v).from
      BY <3>1 DEF UnitRecords
    <3>3. QED BY <1>3, <3>2, <2>1
  <2>2. u[1] = v[1] => SameRun(Unit(u).fragment, Unit(v).fragment)
    <3>1. PICK k \in Nat, m \in Nat : u = <<k, m>>
      BY SplitUnits
    <3>2. PICK l \in Nat, p \in Nat : v = <<l, p>>
      BY SplitUnits
    <3>3. IsSlot(k, m) /\ IsSlot(l, p) /\ UnitAt(k, m) = Unit(u) /\ UnitAt(l, p) = Unit(v)
      BY <3>1, <3>2, SplitUnits
    <3>4. k = l => SameRun(UnitAt(k, m).fragment, UnitAt(l, p).fragment)
      BY <1>1, <3>3 DEF SlotsOk, UnitsInOrder
    <3>5. QED BY <3>1, <3>2, <3>3, <3>4
  <2>3. QED BY <2>1, <2>2
<1>6. QED
  BY <1>4, <1>5 DEF NothingLost

\* Whatever the file, every letter of it is in exactly one chunk, in the order of the text.
THEOREM NothingLostCorrect == Spec => []NothingLost
<1>1. Init => LossInv
  BY LossInit
<1>2. PackInv /\ PackInv' /\ LossInv /\ [Next]_vars => LossInv'
  BY LossNext
<1>3. PackInv /\ LossInv => NothingLost
  BY LossImplies
<1>4. QED
  BY <1>1, <1>2, <1>3, PackAlways, PTL DEF Spec

-----------------------------------------------------------------------------
(* The headings an item is below.                                          *)

LevelOf(j) == file.items[j].level
IsHeading(j) == file.items[j].kind = "heading" /\ file.items[j].name # ""

\* The solver knows no empty string: this keeps it out of its sight.
LEMMA HeadingsAre == \A i : Headings(i) = {j \in 1..i : IsHeading(j)}
BY Zenon DEF Headings, IsHeading

LEMMA HeadingIs == \A j : IsHeading(j) => file.items[j].kind = "heading"
BY Zenon DEF IsHeading

LEMMA FileItems ==
  ASSUME PackInv
  PROVE  /\ Len(file.items) \in Nat
         /\ \A j \in 1..Len(file.items) : file.items[j] \in Items
BY ConstantsAssumption, LenProperties, ElementOfSeq DEF PackInv, TypeOK

LEMMA HeadingFacts ==
  ASSUME PackInv, NEW i \in 0..Len(file.items)
  PROVE  /\ i \in Nat
         /\ \A j \in Headings(i) :
              /\ j \in 1..i /\ j \in Nat /\ LevelOf(j) \in Nat \ {0}
              /\ file.items[j].name \in STRING
         /\ \A k \in 0..Len(file.items) : i <= k => Headings(i) \subseteq Headings(k)
         /\ \A j \in Headings(i), k \in 1..i : j <= k => j \in Headings(k)
<1>1. Len(file.items) \in Nat /\ i \in Nat
  BY FileItems
<1>2. ASSUME NEW j \in Headings(i)
      PROVE  j \in 1..i /\ LevelOf(j) \in Nat \ {0} /\ file.items[j].name \in STRING
  <2>1. j \in 1..i /\ file.items[j].kind = "heading"
    BY HeadingsAre, HeadingIs
  <2>2. file.items[j] \in Items
    BY <1>1, <2>1, FileItems
  <2>3. QED BY <2>1, <2>2 DEF Items, LevelOf
<1>3. ASSUME NEW k \in 0..Len(file.items), i <= k
      PROVE  Headings(i) \subseteq Headings(k)
  <2>1. 1..i \subseteq 1..k
    BY <1>1, <1>3
  <2>2. QED BY <2>1, HeadingsAre
<1>4. ASSUME NEW j \in Headings(i), NEW k \in 1..i, j <= k PROVE j \in Headings(k)
  <2>1. IsHeading(j) /\ j \in 1..i
    BY HeadingsAre
  <2>2. j \in 1..k
    BY <1>1, <1>4, <2>1
  <2>3. QED BY <2>1, <2>2, HeadingsAre
<1>5. QED
  BY <1>1, <1>2, <1>3, <1>4

\* The headings above an item get deeper.
LEMMA AboveDeeper ==
  ASSUME PackInv, NEW i \in 0..Len(file.items)
  PROVE  /\ Above(i) \subseteq 1..i /\ IsFiniteSet(Above(i))
         /\ Cardinality(Above(i)) \in Nat
         /\ \A j \in Above(i) : LevelOf(j) \in Nat \ {0} /\ j \in Nat
         /\ \A j, k \in Above(i) : j < k => LevelOf(j) < LevelOf(k)
<1>1. i \in Nat /\ Above(i) \subseteq Headings(i) /\ Headings(i) \subseteq 1..i
  BY HeadingFacts DEF Above
<1>2. IsFiniteSet(1..i)
  BY <1>1, FS_Interval
<1>3. IsFiniteSet(Above(i)) /\ Cardinality(Above(i)) \in Nat
  BY <1>1, <1>2, FS_Subset, FS_CardinalityType
<1>4. \A j \in Above(i) : LevelOf(j) \in Nat \ {0} /\ j \in Nat
  BY <1>1, HeadingFacts
<1>5. \A j, k \in Above(i) : j < k => LevelOf(j) < LevelOf(k)
  <2> SUFFICES ASSUME NEW j \in Above(i), NEW k \in Above(i), j < k
               PROVE  LevelOf(j) < LevelOf(k)
    OBVIOUS
  <2>1. k \in Headings(i) /\ k > j
    BY <1>1, <1>4
  <2>2. file.items[k].level > file.items[j].level
    BY <2>1 DEF Above
  <2>3. QED BY <1>4, <2>2 DEF LevelOf
<1>6. QED
  BY <1>1, <1>3, <1>4, <1>5

\* What is above a heading is what is above the items below it, down to that heading.
LEMMA AboveOfAbove ==
  ASSUME PackInv, NEW i \in 0..Len(file.items), NEW j \in Above(i)
  PROVE  {h \in Above(i) : h <= j} = Above(j)
<1>1. j \in 1..i /\ j \in 0..Len(file.items) /\ i \in Nat /\ j \in Headings(i)
  <2>1. j \in Headings(i)
    BY DEF Above
  <2>2. j \in 1..i /\ i \in Nat
    BY <2>1, HeadingFacts
  <2>3. QED BY <2>1, <2>2, FileItems
<1>2. j \in Headings(j) /\ Headings(j) \subseteq Headings(i)
  <2>1. j <= j /\ j <= i
    BY <1>1
  <2>2. j \in Headings(j)
    BY <1>1, <2>1, HeadingFacts
  <2>3. QED BY <1>1, <2>1, <2>2, HeadingFacts
<1>3. \A h \in Headings(i) :
        /\ h \in Nat /\ LevelOf(h) \in Nat
        /\ h <= j => h \in Headings(j)
  BY <1>1, HeadingFacts
<1>4. ASSUME NEW h \in Above(i), h <= j PROVE h \in Above(j)
  BY <1>2, <1>3, <1>4 DEF Above
<1>5. ASSUME NEW h \in Above(j) PROVE h \in Above(i) /\ h <= j
  <2>1. h \in Headings(j) /\ h \in Headings(i) /\ h <= j /\ h \in Nat
    <3>1. h \in Headings(j)
      BY DEF Above
    <3>2. h \in 1..j
      BY <1>1, <3>1, HeadingFacts
    <3>3. QED BY <1>1, <1>2, <3>1, <3>2
  <2>2. LevelOf(h) <= LevelOf(j)
    <3>1. CASE h = j
      BY <1>3, <2>1, <3>1
    <3>2. CASE h # j
      <4>1. j > h
        BY <1>1, <2>1, <3>2
      <4>2. file.items[j].level > file.items[h].level
        BY <1>2, <4>1 DEF Above
      <4>3. LevelOf(h) \in Nat /\ LevelOf(j) \in Nat
        BY <1>1, <1>3, <2>1
      <4>4. QED BY <4>2, <4>3 DEF LevelOf
    <3>3. QED BY <3>1, <3>2
  <2>3. ASSUME NEW k \in Headings(i), k > h PROVE file.items[k].level > file.items[h].level
    <3>1. CASE k <= j
      <4>1. k \in Headings(j)
        BY <1>3, <3>1
      <4>2. QED BY <2>3, <4>1 DEF Above
    <3>2. CASE ~(k <= j)
      <4>1. k > j
        BY <1>1, <1>3, <3>2
      <4>2. file.items[k].level > file.items[j].level
        BY <4>1 DEF Above
      <4>3. LevelOf(h) \in Nat /\ LevelOf(j) \in Nat /\ LevelOf(k) \in Nat
        BY <1>1, <1>3, <2>1
      <4>4. QED BY <2>2, <4>2, <4>3 DEF LevelOf
    <3>3. QED BY <3>1, <3>2
  <2>4. QED BY <2>1, <2>3 DEF Above
<1>6. QED
  BY <1>4, <1>5

\* In a file whose headings skip no level, the k-th heading above an item has level k.
LEMMA LevelsAbove ==
  ASSUME PackInv, WellNested, NEW i \in 0..Len(file.items)
  PROVE  /\ \A j \in Above(i) :
              /\ Cardinality({h \in Above(i) : h <= j}) = LevelOf(j)
              /\ LevelOf(j) \in 1..Cardinality(Above(i))
         /\ \A k \in 1..Cardinality(Above(i)) : \E j \in Above(i) : LevelOf(j) = k
         /\ \A j, k \in Above(i) : LevelOf(j) = LevelOf(k) => j = k
<1> DEFINE A == Above(i)
           n == Cardinality(A)
<1>1. /\ IsFiniteSet(A) /\ n \in Nat
      /\ \A j \in A : LevelOf(j) \in Nat \ {0} /\ j \in Nat
      /\ \A j, k \in A : j < k => LevelOf(j) < LevelOf(k)
  BY AboveDeeper
<1>2. ASSUME NEW j \in A
      PROVE  /\ Cardinality({h \in A : h <= j}) = LevelOf(j)
             /\ LevelOf(j) \in 1..n
  <2>1. {h \in A : h <= j} = Above(j)
    BY AboveOfAbove
  <2>2. Headings(i) \subseteq Headings(Len(file.items)) /\ j \in Headings(i)
    <3>1. j \in Headings(i)
      BY DEF Above
    <3>2. Len(file.items) \in 0..Len(file.items) /\ i <= Len(file.items)
      BY FileItems
    <3>3. QED BY <3>1, <3>2, HeadingFacts
  <2>3. LevelOf(j) = Cardinality(Above(j))
    BY <2>2 DEF WellNested, LevelOf
  <2>4. Cardinality({h \in A : h <= j}) <= n
    <3>1. {h \in A : h <= j} \in SUBSET A
      OBVIOUS
    <3> HIDE DEF A
    <3>2. QED BY <1>1, <3>1, FS_Subset
  <2>5. QED
    <3>1. LevelOf(j) \in Nat \ {0}
      BY <1>1
    <3>2. Cardinality({h \in A : h <= j}) = LevelOf(j)
      BY <2>1, <2>3
    <3> HIDE DEF n, A
    <3>3. QED BY <1>1, <2>4, <3>1, <3>2
<1>3. \A j, k \in A : LevelOf(j) = LevelOf(k) => j = k
  <2> SUFFICES ASSUME NEW j \in A, NEW k \in A, LevelOf(j) = LevelOf(k), j # k PROVE FALSE
    OBVIOUS
  <2> HIDE DEF A
  <2>1. j < k \/ k < j
    BY <1>1
  <2>2. LevelOf(j) < LevelOf(k) \/ LevelOf(k) < LevelOf(j)
    BY <1>1, <2>1
  <2>3. QED BY <1>1, <2>2
<1>4. \A k \in 1..n : \E j \in A : LevelOf(j) = k
  <2> DEFINE f == [j \in A |-> LevelOf(j)]
  <2>1. \A j \in A : LevelOf(j) \in 1..n
    BY <1>2
  <2> HIDE DEF A, n
  <2>2. f \in Injection(A, 1..n)
    BY <1>3, <2>1 DEF Injection, IsInjective
  <2>3. IsFiniteSet(1..n) /\ Cardinality(1..n) = n
    <3>1. n \in Int /\ 1 \in Int /\ n \in Nat
      BY <1>1
    <3>2. IsFiniteSet(1..n) /\ Cardinality(1..n) = IF 1 > n THEN 0 ELSE n - 1 + 1
      BY <3>1, FS_Interval
    <3>3. QED BY <3>1, <3>2
  <2>4. f \in Surjection(A, 1..n)
    <3> HIDE DEF f
    <3>1. IsFiniteSet(A) => (Cardinality(A) = Cardinality(1..n) <=> f \in Surjection(A, 1..n))
      BY <2>2, <2>3, FS_Injection
    <3>2. QED BY <1>1, <2>3, <3>1 DEF n
  <2>5. QED BY <2>4 DEF Surjection
<1>5. QED
  BY <1>2, <1>3, <1>4

\* The path of an item, by the levels of the headings above it.
LEMMA PathByLevel ==
  ASSUME PackInv, WellNested, NEW i \in 0..Len(file.items)
  PROVE  /\ Path(i) \in Seq(STRING) /\ Len(Path(i)) = Cardinality(Above(i))
         /\ \A j \in Above(i) : Path(i)[LevelOf(j)] = file.items[j].name
<1> DEFINE A == Above(i)
           n == Cardinality(A)
           Named(k) == CHOOSE j \in A : Cardinality({h \in A : h <= j}) = k
<1>1. n \in Nat /\ \A j \in A : file.items[j].name \in STRING
  <2>1. n \in Nat
    BY AboveDeeper
  <2>2. \A j \in A : j \in Headings(i)
    BY DEF Above
  <2>3. QED BY <2>1, <2>2, HeadingFacts
<1>2. \A k \in 1..n : Named(k) \in A /\ LevelOf(Named(k)) = k
  <2> SUFFICES ASSUME NEW k \in 1..n PROVE Named(k) \in A /\ LevelOf(Named(k)) = k
    OBVIOUS
  <2>1. \A j \in A : Cardinality({h \in A : h <= j}) = LevelOf(j)
    BY LevelsAbove
  <2>2. \E j \in A : LevelOf(j) = k
    BY LevelsAbove
  <2> HIDE DEF A
  <2>3. \E j \in A : Cardinality({h \in A : h <= j}) = k
    BY <2>1, <2>2
  <2>4. Named(k) \in A /\ Cardinality({h \in A : h <= Named(k)}) = k
    BY <2>3
  <2>5. QED BY <2>1, <2>4
<1>3. Path(i) = [k \in 1..n |-> file.items[Named(k)].name]
  BY DEF Path
<1> HIDE DEF Named
<1>4. \A k \in 1..n : file.items[Named(k)].name \in STRING
  BY <1>1, <1>2
<1>5. Path(i) \in Seq(STRING) /\ Len(Path(i)) = n
  <2> HIDE DEF n, A
  <2>1. [k \in 1..n |-> file.items[Named(k)].name] \in [1..n -> STRING]
    BY <1>4
  <2>2. QED BY <1>1, <1>3, <2>1
<1>6. ASSUME NEW j \in A PROVE Path(i)[LevelOf(j)] = file.items[j].name
  <2>1. LevelOf(j) \in 1..n
    BY LevelsAbove
  <2>2. Named(LevelOf(j)) \in A /\ LevelOf(Named(LevelOf(j))) = LevelOf(j)
    BY <1>2, <2>1
  <2>3. Named(LevelOf(j)) = j
    BY <2>2, LevelsAbove
  <2>4. Path(i)[LevelOf(j)] = file.items[Named(LevelOf(j))].name
    <3> HIDE DEF n, A
    <3> QED BY <1>3, <2>1
  <2>5. QED BY <2>3, <2>4
<1>7. QED
  BY <1>5, <1>6

\* An item that is no heading is below the same headings as the one before.
LEMMA PathOfText ==
  ASSUME PackInv, NEW i \in 0..Len(file.items), i + 1 \in 1..Len(file.items),
         ~IsHeading(i + 1)
  PROVE  Path(i + 1) = Path(i)
<1>1. Headings(i + 1) = Headings(i)
  <2>1. i \in Nat
    BY HeadingFacts
  <2>2. \A j : j \in 1..(i + 1) <=> j \in 1..i \/ j = i + 1
    BY <2>1
  <2>3. QED BY <2>2, HeadingsAre
<1>2. Above(i + 1) = Above(i)
  BY <1>1 DEF Above
<1> DEFINE PathOf(A) == [k \in 1..Cardinality(A) |->
                           file.items[CHOOSE j \in A : Cardinality({h \in A : h <= j}) = k].name]
<1>3. Path(i + 1) = PathOf(Above(i + 1)) /\ Path(i) = PathOf(Above(i))
  BY DEF Path
<1>4. QED
  <2> HIDE DEF PathOf
  <2> QED BY <1>2, <1>3

\* Below a heading, the path is that of its level above it, and its name.
LEMMA PathOfHeading ==
  ASSUME PackInv, WellNested, NEW i \in 0..Len(file.items), i + 1 \in 1..Len(file.items),
         IsHeading(i + 1), stack = Path(i)
  PROVE  Path(i + 1) = Nest(LevelOf(i + 1), file.items[i + 1].name)
<1> DEFINE L == LevelOf(i + 1)
           name == file.items[i + 1].name
           m == Cardinality(Above(i))
<1>1. i \in Nat /\ i + 1 \in 0..Len(file.items) /\ Len(file.items) \in Nat
  BY FileItems
<1>2. i + 1 \in Headings(i + 1) /\ i + 1 \in Headings(Len(file.items))
  <2>1. i + 1 \in 1..(i + 1)
    BY <1>1
  <2>2. QED BY <2>1, HeadingsAre
<1>3. i + 1 \in Above(i + 1)
  <2>1. \A k \in Headings(i + 1) : ~(k > i + 1)
    BY <1>1, HeadingFacts
  <2>2. QED BY <1>2, <2>1 DEF Above
<1>4. L = Cardinality(Above(i + 1)) /\ L \in Nat \ {0} /\ name \in STRING
  <2>1. L = Cardinality(Above(i + 1))
    BY <1>2 DEF WellNested, LevelOf
  <2>2. QED BY <1>1, <1>2, <2>1, HeadingFacts
<1>5. /\ Path(i + 1) \in Seq(STRING) /\ Len(Path(i + 1)) = L /\ Path(i + 1)[L] = name
      /\ Path(i) \in Seq(STRING) /\ Len(Path(i)) = m /\ m \in Nat
  BY <1>1, <1>3, <1>4, PathByLevel, AboveDeeper
<1>6. ASSUME NEW k \in 1..(L - 1)
      PROVE  k <= m /\ Path(i + 1)[k] = Path(i)[k]
  <2>1. PICK j \in Above(i + 1) : LevelOf(j) = k
    <3>1. k \in 1..Cardinality(Above(i + 1))
      BY <1>4
    <3>2. QED BY <1>1, <3>1, LevelsAbove
  <2>2. j # i + 1 /\ j \in 1..(i + 1)
    <3>1. Above(i + 1) \subseteq 1..(i + 1)
      BY <1>1, AboveDeeper
    <3>2. QED BY <1>4, <2>1, <3>1
  <2>3. j \in Above(i)
    <3>1. j \in 1..i
      BY <1>1, <2>2
    <3>2. j \in Headings(i) /\ Headings(i) \subseteq Headings(i + 1)
      <4>1. j \in Headings(i + 1)
        BY <2>1 DEF Above
      <4>2. IsHeading(j)
        BY <4>1, HeadingsAre
      <4>3. i <= i + 1
        BY <1>1
      <4>4. QED BY <1>1, <3>1, <4>2, <4>3, HeadingsAre, HeadingFacts
    <3>3. QED BY <3>2 DEF Above
  <2>4. k \in 1..m
    BY <2>1, <2>3, LevelsAbove
  <2>5. Path(i + 1)[k] = file.items[j].name /\ Path(i)[k] = file.items[j].name
    BY <1>1, <2>1, <2>3, PathByLevel
  <2>6. QED BY <1>5, <2>4, <2>5
<1>7. L - 1 <= m
  <2>1. CASE L = 1
    BY <1>5, <2>1
  <2>2. CASE L # 1
    <3>1. L - 1 \in 1..(L - 1)
      BY <1>4, <2>2
    <3>2. QED BY <1>6, <3>1
  <2>3. QED BY <2>1, <2>2
<1>8. Nest(L, name) = Append(SubSeq(stack, 1, L - 1), name)
  BY <1>5, <1>7 DEF Nest
<1> HIDE DEF L, name, m
<1>9. /\ SubSeq(stack, 1, L - 1) \in Seq(STRING) /\ Len(SubSeq(stack, 1, L - 1)) = L - 1
      /\ \A k \in 1..(L - 1) : SubSeq(stack, 1, L - 1)[k] = stack[k]
  <2>1. \A k \in 1..(L - 1) : stack[k] \in STRING
    BY <1>5, <1>7, <1>4, ElementOfSeq
  <2>2. 1 \in Int /\ L - 1 \in Int
    BY <1>4
  <2>3. /\ SubSeq(stack, 1, L - 1) \in Seq(STRING)
        /\ Len(SubSeq(stack, 1, L - 1)) = IF 1 <= L - 1 THEN (L - 1) - 1 + 1 ELSE 0
        /\ \A k \in 1..((L - 1) - 1 + 1) : SubSeq(stack, 1, L - 1)[k] = stack[1 + k - 1]
    BY <2>1, <2>2, SubSeqProperties
  <2>4. (L - 1) - 1 + 1 = L - 1 /\ \A k \in 1..(L - 1) : 1 + k - 1 = k
    BY <1>4
  <2>5. Len(SubSeq(stack, 1, L - 1)) = L - 1
    BY <1>4, <2>3
  <2>6. QED BY <2>3, <2>4, <2>5
<1> DEFINE s == Append(SubSeq(stack, 1, L - 1), name)
<1>10. /\ s \in Seq(STRING) /\ Len(s) = L /\ s[L] = name
       /\ \A k \in 1..(L - 1) : s[k] = stack[k]
  <2> DEFINE q == SubSeq(stack, 1, L - 1)
  <2>1. q \in Seq(STRING) /\ Len(q) = L - 1 /\ \A k \in 1..(L - 1) : q[k] = stack[k]
    BY <1>9
  <2> HIDE DEF q
  <2>2. /\ Append(q, name) \in Seq(STRING) /\ Len(Append(q, name)) = Len(q) + 1
        /\ \A k \in 1..Len(q) : Append(q, name)[k] = q[k]
        /\ Append(q, name)[Len(q) + 1] = name
    BY <1>4, <2>1, AppendProperties
  <2>3. (L - 1) + 1 = L
    BY <1>4
  <2>4. QED BY <2>1, <2>2, <2>3 DEF q
<1> HIDE DEF s
<1>11. \A k \in 1..L : s[k] = Path(i + 1)[k]
  <2> SUFFICES ASSUME NEW k \in 1..L PROVE s[k] = Path(i + 1)[k]
    OBVIOUS
  <2>1. CASE k = L
    BY <1>5, <1>10, <2>1
  <2>2. CASE k # L
    <3>1. k \in 1..(L - 1)
      BY <1>4, <2>2
    <3>2. QED BY <1>6, <1>10, <3>1
  <2>3. QED BY <2>1, <2>2
<1>12. s = Path(i + 1)
  BY <1>5, <1>10, <1>11, SeqEqual
<1>13. QED
  BY <1>8, <1>12 DEF s, L, name

-----------------------------------------------------------------------------
(* Where a chunk says it is.                                               *)

FragmentPlaced(f) ==
  /\ f.item \in 0..Len(file.items)
  /\ WellNested => f.section = Path(f.item)
  /\ file.type = "pdf" => f.page = f.item

\* A chunk is where the fragment of its first unit is.
PiecePlaced(piece) ==
  /\ piece.units # <<>> /\ piece.units[1].fragment \in 1..Len(fragments)
  /\ piece.section = fragments[piece.units[1].fragment].section
  /\ piece.page = fragments[piece.units[1].fragment].page

\* The inductive invariant: of the extraction, and of the packing.
ReadInv ==
  /\ WellNested => stack = Path(pos)
  /\ \A k \in 1..Len(fragments) : FragmentPlaced(fragments[k])
  /\ file.type # "md" => block = <<>>

ChunkInv ==
  /\ current # Empty => PiecePlaced(current)
  /\ \A k \in 1..Len(drafts) :
       PiecePlaced(drafts[k].piece) /\ drafts[k] = Draft(drafts[k].piece)

PlaceInv == ReadInv /\ ChunkInv

LEMMA PathKeeps ==
  ASSUME UNCHANGED file
  PROVE  (WellNested' <=> WellNested) /\ \A i : Path(i)' = Path(i)
<1>1. \A i : Headings(i)' = Headings(i)
  BY Zenon DEF Headings
<1>2. ASSUME NEW i PROVE Above(i)' = Above(i)
  <2>1. Headings(i)' = Headings(i)
    BY <1>1
  <2>2. QED BY <2>1 DEF Above
<1> DEFINE PathOf(A, items) ==
             [k \in 1..Cardinality(A) |->
                items[CHOOSE j \in A : Cardinality({h \in A : h <= j}) = k].name]
<1>3. ASSUME NEW i PROVE Path(i)' = Path(i)
  <2>1. Path(i) = PathOf(Above(i), file.items) /\ Path(i)' = PathOf(Above(i)', file'.items)
    BY DEF Path
  <2>2. Above(i)' = Above(i)
    BY <1>2
  <2> HIDE DEF PathOf
  <2>3. QED BY <2>1, <2>2
<1>4. WellNested' <=> WellNested
  BY <1>1, <1>2 DEF WellNested
<1>5. QED
  BY <1>3, <1>4

LEMMA PlacedKeeps ==
  ASSUME UNCHANGED file, \A k \in 1..Len(fragments') : FragmentPlaced(fragments'[k])
  PROVE  \A k \in 1..Len(fragments') : FragmentPlaced(fragments[k])'
<1>1. (WellNested' <=> WellNested) /\ \A i : Path(i)' = Path(i)
  BY PathKeeps
<1>2. QED
  BY <1>1 DEF FragmentPlaced

\* A fragment that is added to placed ones is to be placed itself.
LEMMA AppendPlaced ==
  ASSUME PackInv, ReadInv, NEW new \in Fragments, FragmentPlaced(new),
         fragments' = Append(fragments, new)
  PROVE  \A k \in 1..Len(fragments') : FragmentPlaced(fragments'[k])
<1>1. fragments \in Seq(Fragments) /\ Len(fragments) \in Nat
  BY LenProperties DEF PackInv, TypeOK
<1>2. /\ Len(fragments') = Len(fragments) + 1 /\ fragments'[Len(fragments) + 1] = new
      /\ \A k \in 1..Len(fragments) : fragments'[k] = fragments[k]
  BY <1>1, AppendProperties
<1>3. ASSUME NEW k \in 1..Len(fragments') PROVE FragmentPlaced(fragments'[k])
  <2>1. CASE k = Len(fragments) + 1
    BY <1>2, <2>1
  <2>2. CASE k # Len(fragments) + 1
    <3>1. k \in 1..Len(fragments)
      BY <1>1, <1>2, <2>2
    <3>2. QED BY <1>2, <3>1 DEF ReadInv
  <2>3. QED BY <2>1, <2>2
<1>4. QED
  BY <1>3

\* A heading or the end of the file closes the block before it.
LEMMA BlockPlaced ==
  ASSUME PackInv, ReadInv, fragments' = WithFragment(block, 0)
  PROVE  \A k \in 1..Len(fragments') : FragmentPlaced(fragments'[k])
<1> DEFINE new == [paras |-> block, section |-> stack, page |-> 0, item |-> pos]
<1>1. CASE block = <<>>
  <2>1. fragments' = fragments
    BY <1>1 DEF WithFragment
  <2>2. QED BY <2>1 DEF ReadInv
<1>2. CASE block # <<>>
  <2>1. fragments' = Append(fragments, new)
    BY <1>2 DEF WithFragment
  <2>2. new \in Fragments
    BY LenProperties, FileItems DEF PackInv, TypeOK, Fragments
  <2>3. FragmentPlaced(new)
    BY <1>2 DEF FragmentPlaced, ReadInv, PackInv, TypeOK
  <2> HIDE DEF new
  <2>4. QED BY <2>1, <2>2, <2>3, AppendPlaced
<1>3. QED
  BY <1>1, <1>2

LEMMA ReadHeadingFacts ==
  ASSUME ReadHeading
  PROVE  \/ IsHeading(pos + 1) /\ stack' = Nest(LevelOf(pos + 1), file.items[pos + 1].name)
         \/ ~IsHeading(pos + 1) /\ stack' = stack
BY Zenon DEF ReadHeading, IsHeading, LevelOf

LEMMA PlaceReadHeading ==
  ASSUME PackInv, PackInv', ReadInv, ReadHeading
  PROVE  ReadInv'
<1>1. /\ UNCHANGED file /\ pos' = pos + 1 /\ block' = <<>> /\ pos < Len(file.items)
      /\ fragments' = WithFragment(block, 0)
  BY DEF ReadHeading
<1>2. \A k \in 1..Len(fragments') : FragmentPlaced(fragments[k])'
  BY <1>1, BlockPlaced, PlacedKeeps
<1>3. WellNested => stack' = Path(pos + 1)
  <2> SUFFICES ASSUME WellNested PROVE stack' = Path(pos + 1)
    OBVIOUS
  <2>1. pos \in 0..Len(file.items) /\ pos + 1 \in 1..Len(file.items) /\ stack = Path(pos)
    BY <1>1, FileItems DEF ReadInv, PackInv, TypeOK
  <2>2. CASE IsHeading(pos + 1) /\ stack' = Nest(LevelOf(pos + 1), file.items[pos + 1].name)
    BY <2>1, <2>2, PathOfHeading
  <2>3. CASE ~IsHeading(pos + 1) /\ stack' = stack
    BY <2>1, <2>3, PathOfText
  <2>4. QED BY <2>2, <2>3, ReadHeadingFacts
<1>4. WellNested' => stack' = Path(pos)'
  <2>1. (WellNested' <=> WellNested) /\ \A i : Path(i)' = Path(i)
    BY <1>1, PathKeeps
  <2>2. QED BY <1>1, <1>3, <2>1
<1>5. QED
  BY <1>1, <1>2, <1>4 DEF ReadInv

LEMMA PlaceReadText ==
  ASSUME PackInv, PackInv', ReadInv, ReadText
  PROVE  ReadInv'
<1> DEFINE item == file.items[pos + 1]
           new == [paras |-> item.paras, section |-> stack, item |-> pos + 1,
                   page |-> IF file.type = "pdf" THEN pos + 1 ELSE 0]
<1>1. /\ UNCHANGED <<file, stack>> /\ pos' = pos + 1 /\ pos < Len(file.items)
      /\ item.kind = "text"
      /\ file.type # "md" => UNCHANGED block
      /\ fragments' = fragments \/ fragments' = Append(fragments, new)
  BY DEF ReadText
<1>2. pos \in 0..Len(file.items) /\ pos + 1 \in 1..Len(file.items) /\ item \in Items
      /\ pos + 1 \in 0..Len(file.items)
  BY <1>1, FileItems DEF PackInv, TypeOK
<1>3. ~IsHeading(pos + 1)
  <2>1. file.items[pos + 1].kind # "heading"
    BY <1>1
  <2>2. QED BY <2>1, HeadingIs
<1>4. Path(pos + 1) = Path(pos)
  BY <1>2, <1>3, PathOfText
<1>5. \A k \in 1..Len(fragments') : FragmentPlaced(fragments'[k])
  <2>1. CASE fragments' = fragments
    BY <2>1 DEF ReadInv
  <2>2. CASE fragments' = Append(fragments, new)
    <3>1. item.paras \in Seq(Paragraphs)
      BY <1>1, <1>2 DEF Items
    <3>2. new \in Fragments
      BY <1>2, <3>1, FileItems DEF Fragments, PackInv, TypeOK
    <3>3. FragmentPlaced(new)
      BY <1>2, <1>4 DEF FragmentPlaced, ReadInv
    <3> HIDE DEF new
    <3>4. QED BY <2>2, <3>2, <3>3, AppendPlaced
  <2>3. QED BY <1>1, <2>1, <2>2
<1>6. \A k \in 1..Len(fragments') : FragmentPlaced(fragments[k])'
  BY <1>1, <1>5, PlacedKeeps
<1>7. WellNested' => stack' = Path(pos)'
  <2>1. (WellNested' <=> WellNested) /\ \A i : Path(i)' = Path(i)
    BY <1>1, PathKeeps
  <2>2. QED BY <1>1, <1>4, <2>1 DEF ReadInv
<1>8. QED
  BY <1>1, <1>6, <1>7 DEF ReadInv

LEMMA PlaceEndOfFile ==
  ASSUME PackInv, PackInv', ReadInv, EndOfFile
  PROVE  ReadInv'
<1>1. UNCHANGED <<file, pos, stack>> /\ block' = <<>> /\ fragments' = WithFragment(block, 0)
  BY DEF EndOfFile
<1>2. \A k \in 1..Len(fragments') : FragmentPlaced(fragments[k])'
  BY <1>1, BlockPlaced, PlacedKeeps
<1>3. WellNested' => stack' = Path(pos)'
  <2>1. (WellNested' <=> WellNested) /\ \A i : Path(i)' = Path(i)
    BY <1>1, PathKeeps
  <2>2. QED BY <1>1, <2>1 DEF ReadInv
<1>4. QED
  BY <1>1, <1>2, <1>3 DEF ReadInv

LEMMA ReadKeeps ==
  ASSUME ReadInv, UNCHANGED <<file, reading>>
  PROVE  ReadInv'
<1>1. UNCHANGED <<file, pos, stack, block, fragments>>
  BY DEF reading
<1>2. (WellNested' <=> WellNested) /\ \A i : Path(i)' = Path(i)
  BY <1>1, PathKeeps
<1>3. \A k \in 1..Len(fragments') : FragmentPlaced(fragments[k])'
  BY <1>1, PlacedKeeps DEF ReadInv
<1>4. QED
  BY <1>1, <1>2, <1>3 DEF ReadInv

-----------------------------------------------------------------------------

DraftsPlaced(ds) ==
  \A k \in 1..Len(ds) : PiecePlaced(ds[k].piece) /\ ds[k] = Draft(ds[k].piece)

LEMMA FlushPlaced ==
  ASSUME PackInv, ChunkInv, current # Empty, drafts' = Append(drafts, Draft(current))
  PROVE  DraftsPlaced(drafts')
<1> DEFINE S == [piece : Pieces, header : Seq(STRING)]
           new == Draft(current)
<1>1. drafts \in Seq(S) /\ new \in S /\ new.piece = current /\ Len(drafts) \in Nat
  BY DraftType, LenProperties DEF PackInv, TypeOK
<1>2. PiecePlaced(new.piece) /\ new = Draft(new.piece)
  BY <1>1 DEF ChunkInv
<1>3. drafts' = Append(drafts, new)
  OBVIOUS
<1> HIDE DEF new
<1>4. /\ Len(drafts') = Len(drafts) + 1 /\ drafts'[Len(drafts) + 1] = new
      /\ \A k \in 1..Len(drafts) : drafts'[k] = drafts[k]
  BY <1>1, <1>3, AppendProperties
<1>5. ASSUME NEW k \in 1..Len(drafts')
      PROVE  PiecePlaced(drafts'[k].piece) /\ drafts'[k] = Draft(drafts'[k].piece)
  <2>1. CASE k = Len(drafts) + 1
    BY <1>2, <1>4, <2>1
  <2>2. CASE k # Len(drafts) + 1
    <3>1. k \in 1..Len(drafts)
      BY <1>1, <1>4, <2>2
    <3>2. QED BY <1>4, <3>1 DEF ChunkInv
  <2>3. QED BY <2>1, <2>2
<1>6. QED
  BY <1>5 DEF DraftsPlaced

LEMMA ChunkKeeps ==
  ASSUME UNCHANGED <<file, fragments>>, DraftsPlaced(drafts'),
         current' # Empty => PiecePlaced(current')
  PROVE  ChunkInv'
BY DEF ChunkInv, DraftsPlaced, PiecePlaced, Draft

LEMMA PackPlaced ==
  ASSUME PackInv, ChunkInv, here \in 1..Len(fragments), UNCHANGED <<file, fragments>>,
         NEW n \in Nat, NEW letters \in Nat, Pack(n, letters)
  PROVE  ChunkInv'
<1> DEFINE unit == [fragment |-> here, from |-> at, letters |-> letters]
           started(len) == [len |-> len, units |-> <<unit>>,
                            section |-> fragments[here].section, page |-> fragments[here].page]
<1>1. \A len : PiecePlaced(started(len))
  BY DEF PiecePlaced
<1>2. DraftsPlaced(drafts)
  BY DEF ChunkInv, DraftsPlaced
<1>3. CASE current = Empty /\ current' = started(n) /\ UNCHANGED drafts
  <2> HIDE DEF started
  <2> QED BY <1>1, <1>2, <1>3, ChunkKeeps
<1>4. CASE /\ current # Empty
           /\ current' = [current EXCEPT !.len = @ + 1 + n, !.units = Append(@, unit)]
           /\ UNCHANGED drafts
  <2>1. current \in Pieces /\ PiecePlaced(current)
    BY <1>4 DEF PackInv, TypeOK, ChunkInv
  <2>2. unit \in UnitRecords /\ current.units \in Seq(UnitRecords) /\ current.units # <<>>
    BY <2>1 DEF Pieces, UnitRecords, PiecePlaced, PackInv, TypeOK
  <2> HIDE DEF unit
  <2>3. /\ current'.units = Append(current.units, unit)
        /\ current'.section = current.section /\ current'.page = current.page
    BY <1>4, <2>1 DEF Pieces
  <2>4. Append(current.units, unit) # <<>> /\ Append(current.units, unit)[1] = current.units[1]
    <3>1. 1 \in 1..Len(current.units)
      <4>1. Len(current.units) \in Nat \ {0}
        BY <2>2, EmptySeq
      <4>2. QED BY <4>1
    <3>2. QED BY <2>2, <3>1, AppendProperties
  <2>5. PiecePlaced(current')
    BY <2>1, <2>3, <2>4 DEF PiecePlaced
  <2>6. DraftsPlaced(drafts')
    BY <1>2, <1>4
  <2>7. QED BY <2>5, <2>6, ChunkKeeps
<1>5. CASE /\ current # Empty /\ drafts' = Append(drafts, Draft(current))
           /\ \E tail \in Tails(current.len) :
                current' = started(IF tail = 0 THEN n ELSE tail + 1 + n)
  <2>1. PiecePlaced(current')
    <3> HIDE DEF started
    <3> QED BY <1>1, <1>5
  <2>2. DraftsPlaced(drafts')
    BY <1>5, FlushPlaced
  <2>3. QED BY <2>1, <2>2, ChunkKeeps
<1>6. QED
  BY <1>3, <1>4, <1>5 DEF Pack

LEMMA PlaceInit == Init => PlaceInv
<1> SUFFICES ASSUME Init PROVE PlaceInv
  OBVIOUS
<1>1. /\ stack = <<>> /\ pos = 0 /\ fragments = <<>> /\ block = <<>> /\ current = Empty
      /\ drafts = <<>> /\ Len(<<>>) = 0
  BY EmptySeq DEF Init
<1>2. Path(0) = <<>>
  <2>1. Headings(0) = {}
    BY HeadingsAre
  <2>2. Above(0) = {}
    BY <2>1 DEF Above
  <2>3. Cardinality(Above(0)) = 0
    BY <2>2, FS_EmptySet
  <2>4. QED BY <2>3 DEF Path
<1>3. ReadInv /\ ChunkInv
  BY <1>1, <1>2 DEF ReadInv, ChunkInv
<1>4. QED
  BY <1>3 DEF PlaceInv

LEMMA PlaceNext == PackInv /\ PackInv' /\ LossInv /\ PlaceInv /\ [Next]_vars => PlaceInv'
<1> SUFFICES ASSUME PackInv, PackInv', LossInv, ReadInv, ChunkInv, [Next]_vars
             PROVE  ReadInv' /\ ChunkInv'
  BY DEF PlaceInv
<1>1. CASE Unreadable \/ ReadHeading \/ ReadText \/ EndOfFile
  <2>1. UNCHANGED <<file, current, drafts>> /\ pc = "extract"
    BY <1>1 DEF Unreadable, ReadHeading, ReadText, EndOfFile, splitting
  <2>2. current' = Empty /\ drafts' = <<>> /\ Len(<<>>) = 0
    BY <2>1, EmptySeq DEF LossInv
  <2>3. ChunkInv'
    BY <2>2 DEF ChunkInv
  <2>4. ReadInv'
    <3>1. Unreadable => UNCHANGED <<file, reading>>
      BY DEF Unreadable
    <3>2. QED
      BY <1>1, <3>1, ReadKeeps, PlaceReadHeading, PlaceReadText, PlaceEndOfFile
  <2>5. QED BY <2>3, <2>4
<1>2. CASE NextFragment
  <2>1. /\ UNCHANGED <<file, reading>>
        /\ \/ /\ current # Empty /\ drafts' = Append(drafts, Draft(current))
              /\ current' = Empty
           \/ UNCHANGED <<current, drafts>>
    BY <1>2 DEF NextFragment
  <2>2. DraftsPlaced(drafts)
    BY DEF ChunkInv, DraftsPlaced
  <2>3. DraftsPlaced(drafts') /\ (current' # Empty => PiecePlaced(current'))
    <3>1. CASE current # Empty /\ drafts' = Append(drafts, Draft(current)) /\ current' = Empty
      BY <3>1, FlushPlaced
    <3>2. CASE UNCHANGED <<current, drafts>>
      BY <2>2, <3>2 DEF ChunkInv
    <3>3. QED BY <2>1, <3>1, <3>2
  <2>4. UNCHANGED <<file, fragments>>
    BY <2>1 DEF reading
  <2>5. QED BY <2>1, <2>3, <2>4, ChunkKeeps, ReadKeeps
<1>3. CASE NextParagraph
  <2>1. /\ UNCHANGED <<file, reading>> /\ paras # <<>>
        /\ Pack(Head(paras).len, Head(paras).letters) \/ UNCHANGED <<current, drafts>>
    BY <1>3 DEF NextParagraph
  <2>2. here \in 1..Len(fragments) /\ Head(paras) \in Paragraphs
    BY <2>1, HeadTailProperties DEF PackInv, TypeOK
  <2>3. Head(paras).len \in Nat /\ Head(paras).letters \in Nat /\ UNCHANGED <<file, fragments>>
    BY <2>1, <2>2 DEF Paragraphs, reading
  <2>4. CASE Pack(Head(paras).len, Head(paras).letters)
    BY <2>1, <2>2, <2>3, <2>4, PackPlaced, ReadKeeps
  <2>5. CASE UNCHANGED <<current, drafts>>
    <3>1. DraftsPlaced(drafts') /\ (current' # Empty => PiecePlaced(current'))
      BY <2>5 DEF ChunkInv, DraftsPlaced
    <3>2. QED BY <2>1, <2>3, <3>1, ChunkKeeps, ReadKeeps
  <2>6. QED BY <2>1, <2>4, <2>5
<1>4. CASE NextSentence
  <2> DEFINE s == Head(sentences)
             n == IF s <= Size THEN s ELSE Size
  <2>1. UNCHANGED <<file, reading>> /\ sentences # <<>> /\ Pack(n, n)
    BY <1>4 DEF NextSentence
  <2>2. here \in 1..Len(fragments) /\ s \in Nat \ {0}
    BY <2>1, HeadTailProperties DEF PackInv, TypeOK
  <2>3. n \in Nat /\ UNCHANGED <<file, fragments>>
    BY <2>1, <2>2, ConstantsAssumption DEF reading
  <2> HIDE DEF n
  <2>4. QED BY <2>1, <2>2, <2>3, PackPlaced, ReadKeeps
<1>5. CASE EndOfText
  <2>1. /\ UNCHANGED <<file, reading, fragments>> /\ current' = Empty
        /\ drafts' = IF current = Empty THEN drafts ELSE Append(drafts, Draft(current))
    BY <1>5 DEF EndOfText, reading
  <2>2. DraftsPlaced(drafts')
    <3>1. CASE current = Empty
      BY <2>1, <3>1 DEF ChunkInv, DraftsPlaced
    <3>2. CASE current # Empty
      BY <2>1, <3>2, FlushPlaced
    <3>3. QED BY <3>1, <3>2
  <2>3. QED BY <2>1, <2>2, ChunkKeeps, ReadKeeps
<1>6. CASE EmbedBatch \/ EmbedFails \/ Store \/ UNCHANGED vars
  <2>1. UNCHANGED <<file, reading, fragments, current, drafts>>
    BY <1>6 DEF EmbedBatch, EmbedFails, Store, vars, reading, splitting
  <2>2. DraftsPlaced(drafts') /\ (current' # Empty => PiecePlaced(current'))
    BY <2>1 DEF ChunkInv, DraftsPlaced
  <2>3. QED BY <2>1, <2>2, ChunkKeeps, ReadKeeps
<1>7. QED
  BY <1>1, <1>2, <1>3, <1>4, <1>5, <1>6 DEF Next

LEMMA PlaceImplies == PackInv /\ PlaceInv => ChunkNamesItsPlace
<1> SUFFICES ASSUME PackInv, ReadInv, ChunkInv, WellNested, NEW k \in 1..Len(drafts)
             PROVE  LET piece == drafts[k].piece
                        item == fragments[piece.units[1].fragment].item
                    IN  /\ piece.section = Path(item)
                        /\ file.type = "pdf" => piece.page = item
                        /\ drafts[k].header =
                             IF Path(item) = <<>> /\ file.type # "md" THEN file.title
                             ELSE Path(item)
  BY DEF PlaceInv, ChunkNamesItsPlace
<1> DEFINE piece == drafts[k].piece
           f == piece.units[1].fragment
<1>1. PiecePlaced(piece) /\ drafts[k] = Draft(piece)
  BY DEF ChunkInv
<1>2. f \in 1..Len(fragments) /\ piece.section = fragments[f].section
      /\ piece.page = fragments[f].page
  BY <1>1 DEF PiecePlaced
<1>3. fragments[f].section = Path(fragments[f].item)
      /\ (file.type = "pdf" => fragments[f].page = fragments[f].item)
  BY <1>2 DEF ReadInv, FragmentPlaced
<1>4. drafts[k].header = IF piece.section # <<>> \/ file.type = "md" THEN piece.section
                         ELSE file.title
  <2> HIDE DEF piece
  <2> QED BY <1>1 DEF Draft
<1>5. QED
  BY <1>2, <1>3, <1>4

\* In a file whose headings skip no level, a chunk carries the path of the headings its first
\* new text is below, and in a PDF the page of that text.
THEOREM ChunkNamesItsPlaceCorrect == Spec => []ChunkNamesItsPlace
<1>1. Init => LossInv /\ PlaceInv
  BY LossInit, PlaceInit
<1>2. PackInv /\ PackInv' /\ LossInv /\ PlaceInv /\ [Next]_vars => LossInv' /\ PlaceInv'
  BY LossNext, PlaceNext
<1>3. PackInv /\ PlaceInv => ChunkNamesItsPlace
  BY PlaceImplies
<1>4. QED
  BY <1>1, <1>2, <1>3, PackAlways, PTL DEF Spec

=============================================================================
