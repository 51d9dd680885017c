------------------------------ MODULE Retrieval ------------------------------
(***************************************************************************)
(* A question against a corpus that changes: the hybrid search of          *)
(* store/pgvector.py (one statement, on one snapshot), the reranker, and   *)
(* the term statistics the search filters with, refreshed with a debounce  *)
(* by the ingestion service.                                               *)
(*                                                                         *)
(* A chunk is the terms it contains, a question a set of terms.  A term    *)
(* has a lexeme under each text search configuration, or none where it is  *)
(* a stopword.  How near a chunk is to the question and how densely it     *)
(* matches are arbitrary; the HNSW index is taken to be exact.  A ranking  *)
(* is a function from what it ranks to 1, 2, 3...: equal keys may fall     *)
(* either way, as row_number() lets them.                                  *)
(***************************************************************************)
EXTENDS Naturals, FiniteSets, FiniteSetsExt, Functions

CONSTANTS
  Docs, Chunks, Users, Terms, Configs, Words, NoWord,
  DocOf,        \* the document of a chunk
  Content,      \* the terms of a chunk
  Lexeme,       \* Lexeme[g][t]: the lexeme of t under configuration g, or NoWord
  Stoplist,     \* QUERY_STOPLIST
  Questions,    \* the questions asked, as sets of terms
  MaxDf,        \* MAX_DF_RATIO, in percent
  Candidates,   \* RETRIEVAL_CANDIDATES: what each leg ranks
  RrfK, WeightFts, Cap,
  K,            \* RETRIEVAL_TOP_K
  Pool,         \* RERANKER_CANDIDATES
  MaxChanges    \* bound: changes of the corpus

ASSUME ConstantsAssumption ==
  /\ NoWord \notin Words /\ IsFiniteSet(Chunks)
  /\ DocOf \in [Chunks -> Docs] /\ Content \in [Chunks -> SUBSET Terms]
  /\ Lexeme \in [Configs -> [Terms -> Words \cup {NoWord}]]
  /\ Stoplist \subseteq Terms /\ Questions \subseteq SUBSET Terms
  /\ {MaxDf, Candidates, RrfK, WeightFts, Cap, K, Pool, MaxChanges} \subseteq Nat
  /\ K <= Pool /\ Pool <= Candidates

VARIABLES
  reranking,    \* RERANKER_PROVIDER is not "none"
  stored,       \* documents whose chunks are in the table
  ready,        \* documents with that status
  readers,      \* who owns a document or holds a permission on it: somebody owns it
  stats,        \* lexeme_df: [ndoc, total]
  recent,       \* a refresh was attempted less than the interval ago
  due,          \* documents whose ingestion or deletion has its refresh to make
  changes,
  pc, user, question,
  vec, fts,     \* the legs: chunk to rank
  place,        \* ranking of the fused score
  hits,         \* what the search returns
  answer        \* what is left of it for the prompt

corpus == <<reranking, stored, ready, readers, due, changes>>
search == <<user, question, vec, fts, place, hits>>
vars == <<reranking, stored, ready, readers, stats, recent, due, changes, pc, user, question, vec, fts,
          place, hits, answer>>

Nothing == [x \in {} |-> 0]

Rows == {c \in Chunks : DocOf[c] \in stored}
Tsv(c) == {Lexeme[g][t] : g \in Configs, t \in Content[c]} \ {NoWord}

\* What REFRESH computes: the number of chunks with each word, and that of all chunks.
Fresh == [ndoc |-> [w \in Words |-> Cardinality({c \in Rows : w \in Tsv(c)})],
          total |-> Cardinality(Rows)]

\* The corpus of an earlier process, with its statistics or those of an empty table.
Init ==
  /\ reranking \in BOOLEAN
  /\ stored \in SUBSET Docs /\ ready = stored /\ due = {} /\ changes = 0
  /\ readers \in [Docs -> (SUBSET Users) \ {{}}]
  /\ stats \in {Fresh, [ndoc |-> [w \in Words |-> 0], total |-> 0]} /\ recent = FALSE
  /\ pc = "idle" /\ user = (CHOOSE u \in Users : TRUE) /\ question = {}
  /\ vec = Nothing /\ fts = Nothing /\ place = Nothing /\ hits = {} /\ answer = {}

-----------------------------------------------------------------------------
(* The corpus and its statistics. *)

\* The search works on what its one statement returned: the corpus is followed until then.
Open == pc \in {"idle", "asked"}

Change == Open /\ changes < MaxChanges /\ changes' = changes + 1

\* All the chunks of a document, in one transaction.
AddChunks(d) ==
  /\ Change /\ d \notin stored
  /\ stored' = stored \cup {d}
  /\ UNCHANGED <<reranking, ready, readers, stats, recent, due, pc, search, answer>>

MarkReady(d) ==
  /\ Open /\ d \in stored \ ready
  /\ ready' = ready \cup {d}
  /\ due' = due \cup {d}
  /\ UNCHANGED <<reranking, stored, readers, stats, recent, changes, pc, search, answer>>

Delete(d) ==
  /\ Change /\ d \in stored
  /\ stored' = stored \ {d} /\ ready' = ready \ {d}
  /\ due' = due \cup {d}
  /\ UNCHANGED <<reranking, readers, stats, recent, pc, search, answer>>

Share(d) ==
  /\ Change
  /\ \E us \in (SUBSET Users) \ {{}} : us # readers[d] /\ readers' = [readers EXCEPT ![d] = us]
  /\ UNCHANGED <<reranking, stored, ready, stats, recent, due, pc, search, answer>>

\* refresh_lexeme_stats: the attempt counts for the interval, whatever comes of it.
Refresh(d) ==
  /\ Open /\ d \in due
  /\ due' = due \ {d}
  /\ \/ recent /\ UNCHANGED <<stats, recent>>
     \/ ~recent /\ recent' = TRUE /\ stats' \in {stats, Fresh}
  /\ UNCHANGED <<reranking, stored, ready, readers, changes, pc, search, answer>>

IntervalEnds ==
  /\ Open /\ recent
  /\ recent' = FALSE
  /\ UNCHANGED <<corpus, stats, pc, search, answer>>

-----------------------------------------------------------------------------
(* The search. *)

\* The ACL predicate and the status filter of every leg.
Readable == {c \in Rows : DocOf[c] \in ready /\ user \in readers[DocOf[c]]}

Ceiling(s) == LET share == (s.total * MaxDf + 50) \div 100 IN IF share > 2 THEN share ELSE 2

\* The terms that select: no stopword under any configuration, and not known to be common.
Informative(s, q) ==
  {t \in q \ Stoplist :
     LET words == {Lexeme[g][t] : g \in Configs}
         known == {s.ndoc[w] : w \in words \ {NoWord}} \ {0}
     IN  NoWord \notin words /\ (known = {} \/ Min(known) <= Ceiling(s))}

Strict(ts, c) == ts # {} /\ \E g \in Configs : \A t \in ts : Lexeme[g][t] \in Tsv(c)
Relaxed(ts, c) == \E g \in Configs, t \in ts : Lexeme[g][t] \in Tsv(c)

Matching == {c \in Rows : Relaxed(question, c)}

\* The rankings of S by a key, best first.
Rankings(S, key) ==
  {r \in Bijection(S, 1..Cardinality(S)) : \A a, b \in S : key[a] > key[b] => r[a] < r[b]}
Top(r, n) == Restrict(r, {c \in DOMAIN r : r[c] <= n})

\* Mutant: the strict pass is looked for in the whole corpus.
LexicalAnywhere(density) ==
  LET ts == Informative(stats, question)
      strict == {c \in Rows : Strict(ts, c)}
      relaxed == {c \in Readable : Relaxed(ts, c)}
      best == Max({density[c] : c \in relaxed})
  IN  IF strict # {} THEN {Top(r, Candidates) : r \in Rankings(strict \cap Readable, density)}
      ELSE {Restrict(top, {c \in DOMAIN top : 10 * density[c] >= 6 * best}) :
              top \in {Top(r, Candidates) : r \in Rankings(relaxed, density)}}

\* Mutant: the relaxed pass forgets who asks.
LexicalOfAll(density) ==
  LET ts == Informative(stats, question)
      strict == {c \in Readable : Strict(ts, c)}
      relaxed == {c \in Rows : Relaxed(ts, c)}
      best == Max({density[c] : c \in relaxed})
  IN  IF strict # {} THEN {Top(r, Candidates) : r \in Rankings(strict, density)}
      ELSE {Restrict(top, {c \in DOMAIN top : 10 * density[c] >= 6 * best}) :
              top \in {Top(r, Candidates) : r \in Rankings(relaxed, density)}}

\* The lexical leg: all the terms, or some of them when no chunk has them all, and then only
\* what scores at least 60% of the best.
Lexical(density) ==
  LET ts == Informative(stats, question)
      strict == {c \in Readable : Strict(ts, c)}
      relaxed == {c \in Readable : Relaxed(ts, c)}
      best == Max({density[c] : c \in relaxed})
  IN  IF strict # {} THEN {Top(r, Candidates) : r \in Rankings(strict, density)}
      ELSE {Restrict(top, {c \in DOMAIN top : 10 * density[c] >= 6 * best}) :
              top \in {Top(r, Candidates) : r \in Rankings(relaxed, density)}}

\* 1 / (RrfK + rank) in a unit that divides all of them.
RrfUnit == FoldFunction(LAMBDA a, b : a * b, 1, [i \in 1..Candidates |-> RrfK + i])
Reciprocal(leg, c) == IF c \in DOMAIN leg THEN RrfUnit \div (RrfK + leg[c]) ELSE 0

\* Mutant: the rank itself is added where the leg has the chunk.
RankSum(v, f) ==
  [c \in DOMAIN v \cup DOMAIN f |->
     (IF c \in DOMAIN v THEN v[c] ELSE 0) + WeightFts * Reciprocal(f, c)]

Fused(v, f) ==
  [c \in DOMAIN v \cup DOMAIN f |-> Reciprocal(v, c) + WeightFts * Reciprocal(f, c)]

\* The best n chunks, after the cap has cut the chunks of one document.
Best(order, n) ==
  LET upTo(S, c) == {x \in S : order[x] <= order[c]}
      kept == {c \in DOMAIN order :
                 Cap = 0 \/ Cardinality({x \in upTo(DOMAIN order, c) : DocOf[x] = DocOf[c]}) <= Cap}
  IN  {c \in kept : Cardinality(upTo(kept, c)) <= n}

Ask ==
  /\ pc = "idle"
  /\ pc' = "asked"
  /\ user' \in Users /\ question' \in Questions
  /\ UNCHANGED <<corpus, stats, recent, vec, fts, place, hits, answer>>

HybridSearch ==
  /\ pc = "asked"
  /\ pc' = "found"
  /\ \E nearness \in Bijection(Readable, 1..Cardinality(Readable)) : vec' = Top(nearness, Candidates)
  /\ \E density \in [Matching -> {1, 2}] : fts' \in Lexical(density)
  /\ \E order \in Rankings(DOMAIN Fused(vec', fts'), Fused(vec', fts')) : place' = order
  /\ hits' = Best(place', IF reranking THEN Pool ELSE K)
  /\ UNCHANGED <<corpus, stats, recent, user, question, answer>>

\* The cross-encoder orders what it is given; a stable sort leaves equal scores as they were.
Rerank ==
  /\ pc = "found" /\ reranking
  /\ pc' = "answered"
  /\ \E logit \in [hits -> {1, 2}] :
       answer' = {c \in hits :
                    Cardinality({x \in hits : \/ logit[x] > logit[c]
                                              \/ logit[x] = logit[c] /\ place[x] <= place[c]}) <= K}
  /\ UNCHANGED <<corpus, stats, recent, search>>

ServeFused ==
  /\ pc = "found" /\ ~reranking
  /\ pc' = "answered"
  /\ answer' = hits
  /\ UNCHANGED <<corpus, stats, recent, search>>

-----------------------------------------------------------------------------

Next ==
  \/ \E d \in Docs : AddChunks(d) \/ MarkReady(d) \/ Delete(d) \/ Share(d) \/ Refresh(d)
  \/ IntervalEnds
  \/ Ask \/ HybridSearch \/ Rerank \/ ServeFused

Spec == Init /\ [][Next]_vars

-----------------------------------------------------------------------------
(* Correctness. *)

\* What a search returns is ready, and readable by who asks at that moment, through whichever
\* leg it came (pgvector.py:106-116, 171-194).
HitsAllowed == [][pc = "asked" /\ pc' = "found" => hits' \subseteq Readable]_vars

Dominates(c, h) ==
  /\ c \in DOMAIN vec /\ h \in DOMAIN vec /\ vec[c] < vec[h]
  /\ h \in DOMAIN fts => c \in DOMAIN fts /\ fts[c] <= fts[h]

\* A chunk is left out for one that is worse in both legs only if its document has its share
\* of the hits in better ones, and the prompt gets as many passages as there are, up to K
\* (pgvector.py:205-223, reranking/local.py:131-143).
NoInversion ==
  /\ \A c \in DOMAIN place \ hits, h \in hits :
       Dominates(c, h) =>
         Cap # 0 /\ Cardinality({x \in hits : DocOf[x] = DocOf[c] /\ ~Dominates(c, x)}) = Cap
  /\ pc = "answered" =>
       /\ answer \subseteq hits
       /\ Cardinality(answer) = IF Cardinality(hits) < K THEN Cardinality(hits) ELSE K

\* As long as the statistics leave a term of the question that a readable chunk has, the
\* lexical leg finds something, whatever others may read and however the two passes divide
\* (pgvector.py:118-122, 134-204).
RecallNet ==
  [][pc = "asked" /\ pc' = "found" /\ Candidates > 0
       /\ (\E c \in Readable : Relaxed(Informative(stats, question), c))
     => DOMAIN fts' # {}]_vars

\* Stale statistics never keep the lexical leg from finding what fresh ones let it find
\* (migrations/0002_lexeme_df.sql:11-14): NOT so.
LegNeverSilenced ==
  [][pc = "asked" /\ pc' = "found"
       /\ (\E c \in Readable : Relaxed(Informative(Fresh, question), c))
     => DOMAIN fts' # {}]_vars

=============================================================================
