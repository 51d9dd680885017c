------------------------------ MODULE Indexing ------------------------------
(***************************************************************************)
(* One file on its way into the index, inside _process: the extraction     *)
(* (ingestion/extract.py), the chunking (ingestion/chunking.py) and the    *)
(* embedding of the chunks in batches (embeddings/).                       *)
(*                                                                         *)
(* A file is a sequence of items, headings and texts (the pages of a PDF,  *)
(* the paragraphs and tables of a DOCX).  A text is its paragraphs, and a  *)
(* paragraph its length, the letters it has without the blanks between its *)
(* sentences, and the lengths of these.  A unit of text is known by its    *)
(* fragment and the letters it takes there; what joins units (newlines,    *)
(* blanks) counts in lengths only.                                         *)
(***************************************************************************)
EXTENDS Naturals, SequencesExt

CONSTANTS
  Files,        \* [type, title, items]; no title is <<>>, and a title is a path of one
  Size,         \* CHUNK_SIZE
  Overlap,      \* CHUNK_OVERLAP
  Batch,        \* _EMBED_BATCH_SIZE
  MinText       \* a PDF with fewer characters is taken for a scan

Total(counts) == FoldLeft(LAMBDA n, c : n + c, 0, counts)

\* A paragraph has the letters of its sentences, and is blank if it has none: it is stripped.
Paragraphs ==
  {p \in [len : Nat, letters : Nat, sentences : Seq(Nat \ {0})] :
     p.letters = Total(p.sentences) /\ p.letters <= p.len /\ (p.len > 0 => p.letters > 0)}
Items == [kind : {"heading"}, level : Nat \ {0}, name : STRING]
           \cup [kind : {"text"}, paras : Seq(Paragraphs)]

ASSUME ConstantsAssumption ==
  /\ Size \in Nat \ {0} /\ Overlap \in Nat /\ Batch \in Nat \ {0} /\ MinText \in Nat
  /\ \A f \in Files :
       /\ f.type \in {"md", "docx", "pdf", "txt", "other"}
       /\ f.title \in Seq(STRING) /\ f.items \in Seq(Items)

VARIABLES
  file,         \* the file
  provider,     \* EMBEDDING_PROVIDER
  pc,           \* extract, split, embed, done or failed
  pos,          \* items read
  stack,        \* the heading path
  block,        \* md: the paragraphs since the last heading
  fragments,    \* [paras, section, page, item]; "item" is for the properties
  left,         \* fragments that are not split yet
  here,         \* the fragment being split
  paras,        \* its paragraphs that are left
  sentences,    \* the sentences left of an oversized paragraph
  at,           \* its letters that are taken
  current,      \* the chunk being packed
  drafts,       \* the packed chunks
  chunks        \* [draft, vector]: embedded, "vector" is the draft it was computed from

reading == <<pos, stack, block, fragments>>
splitting == <<left, here, paras, sentences, at, current, drafts>>
vars == <<file, provider, pc, pos, stack, block, fragments, left, here, paras, sentences, at,
          current, drafts, chunks>>

Empty == [len |-> 0, units |-> <<>>, section |-> <<>>, page |-> 0]

Init ==
  /\ file \in Files /\ provider \in {"local", "azure_openai"}
  /\ pc = "extract"
  /\ pos = 0 /\ stack = <<>> /\ block = <<>> /\ fragments = <<>>
  /\ left = {} /\ here = 0 /\ paras = <<>> /\ sentences = <<>> /\ at = 0
  /\ current = Empty /\ drafts = <<>> /\ chunks = <<>>

-----------------------------------------------------------------------------
(* Extraction. *)

\* The fragment of a text below the headings of "stack"; blank texts make none.
WithFragment(text, page) ==
  IF text = <<>> THEN fragments
  ELSE Append(fragments, [paras |-> text, section |-> stack, page |-> page, item |-> pos])

\* Mutant: a heading leaves its predecessor of the same level on the stack.
NestDeeper(level, name) ==
  Append(SubSeq(stack, 1, IF level <= Len(stack) THEN level ELSE Len(stack)), name)

\* del stack[level - 1 :], then append.
Nest(level, name) ==
  Append(SubSeq(stack, 1, IF level - 1 <= Len(stack) THEN level - 1 ELSE Len(stack)), name)

\* pypdf or python-docx cannot open it, or no extractor has its type.
Unreadable ==
  /\ pc = "extract" /\ pos = 0 /\ file.type \in {"pdf", "docx", "other"}
  /\ pc' = "failed"
  /\ UNCHANGED <<file, provider, reading, splitting, chunks>>

ReadHeading ==
  /\ pc = "extract" /\ file.type \in {"md", "docx"} /\ pos < Len(file.items)
  /\ LET item == file.items[pos + 1] IN
     /\ item.kind = "heading"
     /\ fragments' = WithFragment(block, 0)
     /\ stack' = IF item.name = "" THEN stack ELSE Nest(item.level, item.name)
  /\ block' = <<>>
  /\ pos' = pos + 1
  /\ UNCHANGED <<file, provider, pc, splitting, chunks>>

ReadText ==
  /\ pc = "extract" /\ file.type # "other" /\ pos < Len(file.items)
  /\ LET item == file.items[pos + 1] IN
     /\ item.kind = "text"
     /\ IF file.type = "md"
        THEN block' = block \o item.paras /\ UNCHANGED fragments
        ELSE /\ fragments' =
                  IF item.paras = <<>> THEN fragments
                  ELSE Append(fragments,
                              [paras |-> item.paras, section |-> stack, item |-> pos + 1,
                               page |-> IF file.type = "pdf" THEN pos + 1 ELSE 0])
             /\ UNCHANGED block
  /\ pos' = pos + 1
  /\ UNCHANGED <<file, provider, pc, stack, splitting, chunks>>

TextLength(text) == Total([k \in DOMAIN text |-> text[k].len])
FileLength == Total([i \in DOMAIN fragments |-> TextLength(fragments[i].paras)])

EndOfFile ==
  /\ pc = "extract" /\ file.type # "other" /\ pos = Len(file.items)
  /\ fragments' = WithFragment(block, 0)
  /\ block' = <<>>
  /\ IF file.type = "pdf" /\ FileLength < MinText
     THEN pc' = "failed" /\ UNCHANGED left
     ELSE pc' = "split" /\ left' = 1..Len(fragments')
  /\ UNCHANGED <<file, provider, pos, stack, here, paras, sentences, at, current, drafts, chunks>>

-----------------------------------------------------------------------------
(* Chunking. *)

\* A chunk as it is embedded: below its section, or (but in Markdown) the title.
Draft(chunk) ==
  [piece |-> chunk,
   header |-> IF chunk.section # <<>> \/ file.type = "md" THEN chunk.section ELSE file.title]

\* What the next chunk repeats of one of n characters: cut to a word boundary, or all of it.
Tails(n) == IF Overlap = 0 THEN {0} ELSE IF n <= Overlap THEN {n} ELSE 0..Overlap

\* Markdown is packed section by section, in the order of their first fragments.
Follows(i) ==
  LET same == {j \in left : fragments[j].section = fragments[here].section} IN
  IF file.type = "md" /\ here # 0 /\ same # {} THEN i = Min(same) ELSE i = Min(left)

NewSection(i) == file.type = "md" /\ here # 0 /\ fragments[i].section # fragments[here].section

NextFragment ==
  /\ pc = "split" /\ paras = <<>> /\ sentences = <<>>
  /\ \E i \in left :
       /\ Follows(i)
       /\ here' = i /\ left' = left \ {i}
       /\ paras' = fragments[i].paras /\ at' = 0
       /\ IF NewSection(i) /\ current # Empty
          THEN drafts' = Append(drafts, Draft(current)) /\ current' = Empty
          ELSE UNCHANGED <<current, drafts>>
  /\ UNCHANGED <<file, provider, pc, reading, sentences, chunks>>

\* The next unit, of n characters: into the current chunk, or the first of another one.
Pack(n, letters) ==
  LET unit == [fragment |-> here, from |-> at, letters |-> letters]
      started(len) == [len |-> len, units |-> <<unit>>,
                       section |-> fragments[here].section, page |-> fragments[here].page]
  IN
  /\ at' = at + letters
  /\ \/ /\ current = Empty
        /\ current' = started(n)
        /\ UNCHANGED drafts
     \/ /\ current # Empty /\ current.len + 1 + n <= Size
        /\ current' = [current EXCEPT !.len = @ + 1 + n, !.units = Append(@, unit)]
        /\ UNCHANGED drafts
     \/ /\ current # Empty /\ current.len + 1 + n > Size
        /\ drafts' = Append(drafts, Draft(current))
        /\ \E tail \in Tails(current.len) :
             current' = started(IF tail = 0 THEN n ELSE tail + 1 + n)

\* A blank paragraph has no sentences and adds nothing.
NextParagraph ==
  /\ pc = "split" /\ paras # <<>> /\ sentences = <<>>
  /\ LET p == Head(paras) IN
     IF 0 < p.len /\ p.len <= Size
     THEN Pack(p.len, p.letters) /\ UNCHANGED sentences
     ELSE sentences' = p.sentences /\ UNCHANGED <<at, current, drafts>>
  /\ paras' = Tail(paras)
  /\ UNCHANGED <<file, provider, pc, reading, left, here, chunks>>

\* Mutant: an oversized sentence is not cut.
NextSentenceWhole ==
  /\ pc = "split" /\ sentences # <<>>
  /\ Pack(Head(sentences), Head(sentences))
  /\ sentences' = Tail(sentences)
  /\ UNCHANGED <<file, provider, pc, reading, left, here, paras, chunks>>

\* Mutant: the rest of an oversized sentence is dropped when it is a short one.
NextSentenceDropsRest ==
  /\ pc = "split" /\ sentences # <<>>
  /\ LET s == Head(sentences) IN
     IF s <= Size
     THEN Pack(s, s) /\ sentences' = Tail(sentences)
     ELSE /\ Pack(Size, Size)
          /\ sentences' = IF s - Size < Size THEN Tail(sentences)
                          ELSE <<s - Size>> \o Tail(sentences)
  /\ UNCHANGED <<file, provider, pc, reading, left, here, paras, chunks>>

\* A sentence that is too long is cut every Size characters.  None is blank: a paragraph has
\* no white space at its ends.
NextSentence ==
  /\ pc = "split" /\ sentences # <<>>
  /\ LET s == Head(sentences)
         n == IF s <= Size THEN s ELSE Size IN
     /\ Pack(n, n)
     /\ sentences' = IF s <= Size THEN Tail(sentences) ELSE <<s - Size>> \o Tail(sentences)
  /\ UNCHANGED <<file, provider, pc, reading, left, here, paras, chunks>>

EndOfText ==
  /\ pc = "split" /\ left = {} /\ paras = <<>> /\ sentences = <<>>
  /\ drafts' = IF current = Empty THEN drafts ELSE Append(drafts, Draft(current))
  /\ current' = Empty
  /\ pc' = "embed"
  /\ UNCHANGED <<file, provider, reading, left, here, paras, sentences, at, chunks>>

-----------------------------------------------------------------------------
(* Embedding. *)

\* The drafts that are not embedded yet, up to a batch of them.
BatchSize == IF Len(drafts) - Len(chunks) < Batch THEN Len(drafts) - Len(chunks) ELSE Batch

\* Azure answers the items of a batch by index, in any order; it may leave one out.
Replies(n) ==
  IF provider = "local" THEN {[k \in 1..n |-> k]}
  ELSE SetToSeqs(1..n) \cup (IF n > 1 THEN SetToSeqs(1..(n - 1)) ELSE {})

\* Mutant: the items are taken in the order of the answer.
Unordered(reply) == reply

\* sorted(response.data, key = item.index)
Ordered(reply) ==
  LET D == DOMAIN reply
      perm == CHOOSE p \in Bijection(D, D) : \A i, j \in D : i < j => reply[p[i]] <= reply[p[j]]
  IN  [i \in D |-> reply[perm[i]]]

\* zip(batch, vectors, strict=True)
EmbedBatch ==
  /\ pc = "embed" /\ Len(chunks) < Len(drafts)
  /\ \E reply \in Replies(BatchSize) :
       LET vectors == Ordered(reply) IN
       IF Len(vectors) # BatchSize
       THEN pc' = "failed" /\ UNCHANGED chunks
       ELSE /\ chunks' = chunks \o [k \in 1..BatchSize |->
                                      [draft |-> Len(chunks) + k,
                                       vector |-> Len(chunks) + vectors[k]]]
            /\ UNCHANGED pc
  /\ UNCHANGED <<file, provider, reading, splitting>>

EmbedFails ==
  /\ pc = "embed" /\ Len(chunks) < Len(drafts)
  /\ pc' = "failed"
  /\ UNCHANGED <<file, provider, reading, splitting, chunks>>

Store ==
  /\ pc = "embed" /\ Len(chunks) = Len(drafts)
  /\ pc' = "done"
  /\ UNCHANGED <<file, provider, reading, splitting, chunks>>

-----------------------------------------------------------------------------

Next ==
  \/ Unreadable \/ ReadHeading \/ ReadText \/ EndOfFile
  \/ NextFragment \/ NextParagraph \/ NextSentence \/ EndOfText
  \/ EmbedBatch \/ EmbedFails \/ Store

Spec == Init /\ [][Next]_vars

-----------------------------------------------------------------------------
(* Correctness. *)

Fragments == [paras : Seq(Paragraphs), section : Seq(STRING), page : Nat, item : Nat]
Pieces == [len : Nat, units : Seq([fragment : Nat, from : Nat, letters : Nat]),
           section : Seq(STRING), page : Nat]

TypeOK ==
  /\ file \in Files /\ provider \in {"local", "azure_openai"}
  /\ pc \in {"extract", "split", "embed", "done", "failed"}
  /\ pos \in 0..Len(file.items) /\ stack \in Seq(STRING) /\ block \in Seq(Paragraphs)
  /\ fragments \in Seq(Fragments) /\ left \subseteq 1..Len(fragments)
  /\ here \in Nat /\ paras \in Seq(Paragraphs) /\ sentences \in Seq(Nat \ {0}) /\ at \in Nat
  /\ here \in 1..Len(fragments) \/ (paras = <<>> /\ sentences = <<>>)
  /\ current \in Pieces
  /\ drafts \in Seq([piece : Pieces, header : Seq(STRING)])

\* No chunk is longer than Size + Overlap + 1 characters and its header, whatever the
\* sentences (chunking.py:9-10): the model's input and the embedder's window depend on it.
ChunkBounded ==
  \A k \in 1..Len(drafts) : drafts[k].piece.len <= Size + Overlap + 1

Split == pc \in {"embed", "done"}

Letters(text) == Total([k \in DOMAIN text |-> text[k].letters])

Units == UNION {{k} \X (1..Len(drafts[k].piece.units)) : k \in 1..Len(drafts)}
Unit(u) == drafts[u[1]].piece.units[u[2]]
Before(u, v) == u[1] < v[1] \/ (u[1] = v[1] /\ u[2] < v[2])
SameRun(i, j) == file.type # "md" \/ fragments[i].section = fragments[j].section

\* Every letter of every fragment is in exactly one chunk (besides those that repeat it as
\* their overlap), and chunks keep the order of the text, in Markdown within each section,
\* whose text no other chunk holds (chunking.py:35-161).
NothingLost ==
  Split =>
    /\ \A i \in 1..Len(fragments) :
         \A x \in 0..(Letters(fragments[i].paras) - 1) :
           Cardinality({u \in Units : Unit(u).fragment = i /\ Unit(u).from <= x
                                      /\ x < Unit(u).from + Unit(u).letters}) = 1
    /\ \A u, v \in Units :
         /\ Before(u, v) /\ SameRun(Unit(u).fragment, Unit(v).fragment) =>
              \/ Unit(u).fragment < Unit(v).fragment
              \/ Unit(u).fragment = Unit(v).fragment /\ Unit(u).from < Unit(v).from
         /\ u[1] = v[1] => SameRun(Unit(u).fragment, Unit(v).fragment)

Headings(i) == {j \in 1..i : file.items[j].kind = "heading" /\ file.items[j].name # ""}

\* The headings an item is below: those no later one of their level or above has closed.
Above(i) ==
  {j \in Headings(i) : \A k \in Headings(i) : k > j => file.items[k].level > file.items[j].level}

Path(i) == [k \in 1..Cardinality(Above(i)) |->
              file.items[CHOOSE j \in Above(i) : Cardinality({h \in Above(i) : h <= j}) = k].name]

\* No heading is more than one level below the one it stands under.
WellNested ==
  \A i \in Headings(Len(file.items)) : file.items[i].level = Cardinality(Above(i))

\* In a file whose headings skip no level, a chunk carries the path of the headings its first
\* new text is below, and in a PDF the page of that text (extract.py:83-148,
\* chunking.py:97-161).
ChunkNamesItsPlace ==
  Split /\ WellNested =>
    \A k \in 1..Len(drafts) :
      LET piece == drafts[k].piece
          item == fragments[piece.units[1].fragment].item
      IN  /\ piece.section = Path(item)
          /\ file.type = "pdf" => piece.page = item
          /\ drafts[k].header = IF Path(item) = <<>> /\ file.type # "md" THEN file.title
                                ELSE Path(item)

\* A stored chunk has the vector of its own text, and every chunk is stored, in whatever order
\* the provider answers and however the batches fall (service.py:211-225,
\* embeddings/azure.py:66-76).
VectorOfOwnText ==
  /\ \A k \in 1..Len(chunks) : chunks[k] = [draft |-> k, vector |-> k]
  /\ pc = "done" => Len(chunks) = Len(drafts)

=============================================================================
