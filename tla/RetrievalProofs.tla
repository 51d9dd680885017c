--------------------------- MODULE RetrievalProofs ---------------------------
(***************************************************************************)
(* Theorems about Retrieval, for every corpus, question, set of users,     *)
(* statistics and setting of the fusion.                                   *)
(***************************************************************************)
EXTENDS Retrieval, FiniteSetTheorems, FunctionTheorems, WellFoundedInduction, TLAPS

LEMMA RankingFacts ==
  ASSUME NEW S, NEW r \in Bijection(S, 1..Cardinality(S))
  PROVE  /\ DOMAIN r = S
         /\ \A c \in S : r[c] \in 1..Cardinality(S)
         /\ \A i \in 1..Cardinality(S) : \E c \in S : r[c] = i
BY DEF Bijection, Injection, Surjection

LEMMA TopFacts ==
  ASSUME NEW r, NEW n
  PROVE  /\ DOMAIN Top(r, n) = {c \in DOMAIN r : r[c] <= n}
         /\ \A c \in DOMAIN Top(r, n) : Top(r, n)[c] = r[c]
BY DEF Top, Restrict

LEMMA FirstIsRanked ==
  ASSUME NEW S, IsFiniteSet(S), S # {}, NEW r \in Bijection(S, 1..Cardinality(S)),
         NEW n \in Nat \ {0}
  PROVE  \E c \in S : r[c] = 1 /\ c \in DOMAIN Top(r, n)
<1>1. Cardinality(S) \in Nat /\ Cardinality(S) # 0
  BY FS_CardinalityType, FS_EmptySet
<1>2. PICK c \in S : r[c] = 1
  BY <1>1, RankingFacts
<1>3. c \in DOMAIN r /\ r[c] <= n
  BY <1>2, RankingFacts
<1>4. QED
  BY <1>2, <1>3, TopFacts

LEMMA ReadableFinite ==
  /\ Readable \subseteq Chunks /\ Rows \subseteq Chunks
  /\ \A S : S \subseteq Readable => IsFiniteSet(S)
BY ConstantsAssumption, FS_Subset DEF Readable, Rows

\* The lexical leg ranks readable chunks only.
LEMMA LexicalReadable ==
  ASSUME NEW density, NEW leg \in Lexical(density)
  PROVE  DOMAIN leg \subseteq Readable
<1> DEFINE ts == Informative(stats, question)
           strict == {c \in Readable : Strict(ts, c)}
           relaxed == {c \in Readable : Relaxed(ts, c)}
           best == Max({density[c] : c \in relaxed})
           close(top) == Restrict(top, {c \in DOMAIN top : 10 * density[c] >= 6 * best})
<1>1. CASE strict # {}
  <2>1. PICK r \in Rankings(strict, density) : leg = Top(r, Candidates)
    BY <1>1 DEF Lexical
  <2>2. DOMAIN r = strict
    BY RankingFacts DEF Rankings
  <2>3. QED
    BY <2>1, <2>2, TopFacts
<1>2. CASE strict = {}
  <2>1. PICK r \in Rankings(relaxed, density) : leg = close(Top(r, Candidates))
    BY <1>2 DEF Lexical
  <2>2. DOMAIN r = relaxed
    BY RankingFacts DEF Rankings
  <2>3. DOMAIN leg \subseteq DOMAIN Top(r, Candidates)
    BY <2>1 DEF Restrict
  <2>4. QED
    BY <2>2, <2>3, TopFacts
<1>3. QED
  BY <1>1, <1>2

\* If a readable chunk has an informative term, the leg is not empty: the first chunk of the
\* strict pass is in it, or the first of the relaxed pass, which has the best score.
LEMMA LexicalFinds ==
  ASSUME NEW density \in [Matching -> {1, 2}], NEW leg \in Lexical(density), Candidates > 0,
         NEW x \in Readable, Relaxed(Informative(stats, question), x)
  PROVE  DOMAIN leg # {}
<1> DEFINE ts == Informative(stats, question)
           strict == {c \in Readable : Strict(ts, c)}
           relaxed == {c \in Readable : Relaxed(ts, c)}
           best == Max({density[c] : c \in relaxed})
           close(top) == Restrict(top, {c \in DOMAIN top : 10 * density[c] >= 6 * best})
<1>0. Candidates \in Nat \ {0}
  BY ConstantsAssumption
<1>1. CASE strict # {}
  <2>1. PICK r \in Rankings(strict, density) : leg = Top(r, Candidates)
    BY <1>1 DEF Lexical
  <2>2. r \in Bijection(strict, 1..Cardinality(strict))
    BY DEF Rankings
  <2>3. IsFiniteSet(strict)
    BY ReadableFinite
  <2> HIDE DEF strict
  <2>4. QED
    BY <1>0, <1>1, <2>1, <2>2, <2>3, FirstIsRanked
<1>2. CASE strict = {}
  <2>1. PICK r \in Rankings(relaxed, density) : leg = close(Top(r, Candidates))
    BY <1>2 DEF Lexical
  <2>2. /\ r \in Bijection(relaxed, 1..Cardinality(relaxed))
        /\ \A a, b \in relaxed : density[a] > density[b] => r[a] < r[b]
    BY DEF Rankings
  <2>3. IsFiniteSet(relaxed) /\ relaxed # {}
    BY ReadableFinite
  <2>4. \A c \in relaxed : density[c] \in {1, 2}
    <3>1. ts \subseteq question
      BY DEF Informative
    <3>2. relaxed \subseteq Matching
      BY <3>1 DEF Relaxed, Matching, Readable
    <3>3. QED BY <3>2
  <2>5. PICK c \in relaxed : r[c] = 1 /\ c \in DOMAIN Top(r, Candidates)
    <3> HIDE DEF relaxed
    <3> QED BY <1>0, <2>2, <2>3, FirstIsRanked
  <2>6. \A a \in relaxed : r[a] \in Nat /\ r[a] >= 1
    <3>1. Cardinality(relaxed) \in Nat
      BY <2>3, FS_CardinalityType
    <3> HIDE DEF relaxed
    <3>2. QED BY <2>2, <3>1, RankingFacts
  <2>7. \A a \in relaxed : density[a] <= density[c]
    BY <2>2, <2>4, <2>5, <2>6
  <2>8. best = density[c]
    <3> DEFINE D == {density[a] : a \in relaxed}
    <3>1. density[c] \in D /\ \A d \in D : d \in {1, 2} /\ d <= density[c]
      BY <2>4, <2>7
    <3>2. best \in D /\ \A d \in D : best >= d
      <4>1. \A d \in D : density[c] >= d
        BY <3>1
      <4> HIDE DEF D
      <4>2. Max(D) \in D /\ \A d \in D : Max(D) >= d
        BY <3>1, <4>1 DEF Max
      <4>3. QED BY <4>2 DEF D
    <3>3. QED BY <3>1, <3>2
  <2>9. c \in DOMAIN leg
    <3>1. DOMAIN close(Top(r, Candidates))
            = {a \in DOMAIN Top(r, Candidates) : 10 * density[a] >= 6 * best}
      BY DEF Restrict
    <3>2. 10 * density[c] >= 6 * best
      BY <2>4, <2>8
    <3>3. QED
      BY <2>1, <2>5, <3>1, <3>2
  <2>10. QED
    BY <2>9
<1>3. QED
  BY <1>1, <1>2

\* A step that answers the question is the search.
LEMMA OnlySearchFinds ==
  ASSUME [Next]_vars, pc = "asked", pc' = "found"
  PROVE  HybridSearch
BY DEF Next, vars, AddChunks, MarkReady, Delete, Share, Refresh, IntervalEnds, Ask, Rerank,
       ServeFused

-----------------------------------------------------------------------------

\* Whatever the legs rank and the fusion keeps, a search returns ready chunks that who asks may
\* read.
THEOREM SearchRespectsAccess == Spec => HitsAllowed
<1>1. ASSUME [Next]_vars, pc = "asked", pc' = "found"
      PROVE  hits' \subseteq Readable
  <2>1. HybridSearch
    BY <1>1, OnlySearchFinds
  <2>2. DOMAIN vec' \subseteq Readable
    <3>1. PICK nearness \in Bijection(Readable, 1..Cardinality(Readable)) :
                 vec' = Top(nearness, Candidates)
      BY <2>1 DEF HybridSearch
    <3>2. DOMAIN nearness = Readable
      BY RankingFacts
    <3>3. QED BY <3>1, <3>2, TopFacts
  <2>3. DOMAIN fts' \subseteq Readable
    BY <2>1, LexicalReadable DEF HybridSearch
  <2>4. DOMAIN place' = DOMAIN vec' \cup DOMAIN fts'
    <3>1. PICK order \in Rankings(DOMAIN Fused(vec', fts'), Fused(vec', fts')) : place' = order
      BY <2>1 DEF HybridSearch
    <3>2. DOMAIN order = DOMAIN Fused(vec', fts')
      BY RankingFacts DEF Rankings
    <3>3. DOMAIN Fused(vec', fts') = DOMAIN vec' \cup DOMAIN fts'
      BY DEF Fused
    <3>4. QED BY <3>1, <3>2, <3>3
  <2>5. \A n : Best(place', n) \subseteq DOMAIN place'
    BY DEF Best
  <2>6. QED
    BY <2>1, <2>2, <2>3, <2>4, <2>5 DEF HybridSearch
<1>2. QED
  BY <1>1, PTL DEF Spec, HitsAllowed

\* Whatever the corpus, its readers and the statistics, the lexical leg is empty only if no
\* readable chunk has a term the statistics leave.
THEOREM LexicalLegFinds == Spec => RecallNet
<1> DEFINE Found == pc = "asked" /\ pc' = "found" /\ Candidates > 0
                      /\ (\E c \in Readable : Relaxed(Informative(stats, question), c))
                    => DOMAIN fts' # {}
<1>1. [Next]_vars => Found
  <2> SUFFICES ASSUME [Next]_vars, pc = "asked", pc' = "found", Candidates > 0,
                      \E c \in Readable : Relaxed(Informative(stats, question), c)
               PROVE  DOMAIN fts' # {}
    OBVIOUS
  <2>1. PICK density \in [Matching -> {1, 2}] : fts' \in Lexical(density)
    BY OnlySearchFinds DEF HybridSearch
  <2>2. QED
    BY <2>1, LexicalFinds
<1>2. QED
  BY <1>1, PTL DEF Spec, RecallNet

-----------------------------------------------------------------------------
(* Counting down a ranking.                                                *)

\* The first n of a totally ordered finite set are n, or all of it.
LEMMA PrefixCount ==
  ASSUME NEW S, IsFiniteSet(S), NEW below \in [S -> SUBSET S], NEW n \in Nat,
         \A x \in S : x \in below[x],
         \A x, y \in S : x # y => (x \in below[y] /\ y \notin below[x])
                                    \/ (y \in below[x] /\ x \notin below[y]),
         \A x, y \in S : x \in below[y] => below[x] \subseteq below[y]
  PROVE  Cardinality({x \in S : Cardinality(below[x]) <= n})
           = IF Cardinality(S) < n THEN Cardinality(S) ELSE n
<1> DEFINE T == {x \in S : Cardinality(below[x]) <= n}
           s == Cardinality(S)
           m == IF s < n THEN s ELSE n
           rank == [x \in S |-> Cardinality(below[x])]
<1>1. s \in Nat /\ m \in Nat /\ m <= s /\ m <= n
  BY FS_CardinalityType
<1>2. \A x \in S : IsFiniteSet(below[x]) /\ rank[x] \in 1..s
  <2> SUFFICES ASSUME NEW x \in S PROVE IsFiniteSet(below[x]) /\ rank[x] \in 1..s
    OBVIOUS
  <2>1. IsFiniteSet(below[x]) /\ Cardinality(below[x]) <= s
    BY FS_Subset
  <2>2. Cardinality(below[x]) \in Nat /\ Cardinality(below[x]) # 0
    BY <2>1, FS_CardinalityType, FS_EmptySet
  <2>3. QED
    BY <1>1, <2>1, <2>2
<1>3. \A x, y \in S : x # y => rank[x] # rank[y]
  <2>1. ASSUME NEW x \in S, NEW y \in S, x \in below[y], y \notin below[x]
        PROVE  rank[x] # rank[y]
    <3>1. below[x] \in SUBSET below[y] /\ below[x] # below[y]
      BY <2>1
    <3>2. Cardinality(below[x]) # Cardinality(below[y])
      BY <1>2, <3>1, FS_Subset
    <3>3. QED BY <3>2
  <2>2. QED
    BY <2>1
<1>4. rank \in Injection(S, 1..s)
  BY <1>2, <1>3 DEF Injection, IsInjective
<1>5. IsFiniteSet(1..s) /\ Cardinality(1..s) = s
  BY <1>1, FS_Interval
<1>6. rank \in Surjection(S, 1..s)
  <2> HIDE DEF rank
  <2> QED BY <1>4, <1>5, FS_Injection
<1>7. ExistsBijection(1..m, T)
  <2> DEFINE first == [x \in T |-> rank[x]]
  <2>1. first \in [T -> 1..m]
    BY <1>1, <1>2
  <2>2. first \in Injection(T, 1..m)
    BY <2>1, <1>3 DEF Injection, IsInjective
  <2>3. \A i \in 1..m : \E x \in T : first[x] = i
    <3> SUFFICES ASSUME NEW i \in 1..m PROVE \E x \in T : first[x] = i
      OBVIOUS
    <3>1. i \in 1..s /\ i <= n
      BY <1>1
    <3>2. PICK x \in S : rank[x] = i
      BY <1>6, <3>1 DEF Surjection
    <3>3. x \in T
      BY <3>1, <3>2
    <3>4. QED BY <3>2, <3>3
  <2>4. first \in Bijection(T, 1..m)
    BY <2>1, <2>2, <2>3 DEF Bijection, Surjection
  <2>5. ExistsBijection(T, 1..m)
    <3> HIDE DEF first
    <3> QED BY <2>4 DEF ExistsBijection
  <2>6. QED
    BY <2>5, Fun_ExistsBijSymmetric
<1>8. IsFiniteSet(1..m) /\ Cardinality(1..m) = m
  <2>1. 1 \in Int /\ m \in Int /\ (IF 1 > m THEN 0 ELSE m - 1 + 1) = m
    BY <1>1
  <2> HIDE DEF m
  <2>2. QED
    BY <2>1, FS_Interval
<1>9. Cardinality(T) = m
  <2> HIDE DEF T, m
  <2> QED BY <1>7, <1>8, FS_Bijection
<1>10. QED
  BY <1>9

LEMMA RankedPrefix ==
  ASSUME NEW S, IsFiniteSet(S), NEW r, NEW n \in Nat,
         \A x \in S : r[x] \in Nat, \A x, y \in S : r[x] = r[y] => x = y
  PROVE  Cardinality({x \in S : Cardinality({y \in S : r[y] <= r[x]}) <= n})
           = IF Cardinality(S) < n THEN Cardinality(S) ELSE n
<1> DEFINE below == [x \in S |-> {y \in S : r[y] <= r[x]}]
<1>1. below \in [S -> SUBSET S] /\ \A x \in S : x \in below[x]
  OBVIOUS
<1>2. \A x, y \in S : x # y => (x \in below[y] /\ y \notin below[x])
                                  \/ (y \in below[x] /\ x \notin below[y])
  OBVIOUS
<1>3. \A x, y \in S : x \in below[y] => below[x] \subseteq below[y]
  OBVIOUS
<1>4. \A x \in S : below[x] = {y \in S : r[y] <= r[x]}
  OBVIOUS
<1>5. {x \in S : Cardinality({y \in S : r[y] <= r[x]}) <= n}
        = {x \in S : Cardinality(below[x]) <= n}
  BY <1>4
<1> HIDE DEF below
<1>6. Cardinality({x \in S : Cardinality(below[x]) <= n})
        = IF Cardinality(S) < n THEN Cardinality(S) ELSE n
  BY <1>1, <1>2, <1>3, PrefixCount
<1>7. QED
  BY <1>5, <1>6

LEMMA SubsetCount ==
  ASSUME NEW S, IsFiniteSet(S), NEW T \in SUBSET S
  PROVE  /\ Cardinality(S) \in Nat /\ Cardinality(T) \in Nat
         /\ Cardinality(T) <= Cardinality(S)
BY FS_Subset, FS_CardinalityType

\* A ranking as the fused scores make it.
Ranked(order) ==
  /\ IsFiniteSet(DOMAIN order)
  /\ \A c \in DOMAIN order : order[c] \in Nat
  /\ \A c, h \in DOMAIN order : order[c] = order[h] => c = h

SameDoc(order, c) == {x \in DOMAIN order : DocOf[x] = DocOf[c]}
Kept(order) ==
  {c \in DOMAIN order :
     Cap = 0 \/ Cardinality({y \in SameDoc(order, c) : order[y] <= order[c]}) <= Cap}

LEMMA BestIsPrefix ==
  ASSUME NEW order, NEW n
  PROVE  Best(order, n)
           = {c \in Kept(order) : Cardinality({y \in Kept(order) : order[y] <= order[c]}) <= n}
<1>1. ASSUME NEW c \in DOMAIN order
      PROVE  {x \in {y \in DOMAIN order : order[y] <= order[c]} : DocOf[x] = DocOf[c]}
               = {y \in SameDoc(order, c) : order[y] <= order[c]}
  BY DEF SameDoc
<1>2. QED
  BY <1>1 DEF Best, Kept

LEMMA BestCount ==
  ASSUME NEW order, Ranked(order), NEW n \in Nat
  PROVE  /\ IsFiniteSet(Best(order, n)) /\ Best(order, n) \subseteq DOMAIN order
         /\ Cardinality(Best(order, n)) <= n
<1>1. IsFiniteSet(Kept(order)) /\ Kept(order) \in SUBSET DOMAIN order
  BY FS_Subset DEF Kept, Ranked
<1> DEFINE B == {c \in Kept(order) :
                   Cardinality({y \in Kept(order) : order[y] <= order[c]}) <= n}
<1>2. Cardinality(B) = IF Cardinality(Kept(order)) < n THEN Cardinality(Kept(order)) ELSE n
  <2>1. /\ \A x \in Kept(order) : order[x] \in Nat
        /\ \A x, y \in Kept(order) : order[x] = order[y] => x = y
    BY <1>1 DEF Ranked
  <2>2. QED
    BY <1>1, <2>1, RankedPrefix
<1>3. Cardinality(Kept(order)) \in Nat
  BY <1>1, FS_CardinalityType
<1>4. B \in SUBSET Kept(order)
  OBVIOUS
<1>5. IsFiniteSet(B) /\ Cardinality(B) <= n
  <2> HIDE DEF B
  <2> QED BY <1>1, <1>2, <1>3, <1>4, FS_Subset
<1>6. QED
  BY <1>1, <1>4, <1>5, BestIsPrefix

\* A chunk is cut ahead of one that is kept by the cap of its document alone, which then has
\* its share of the kept ones, all of them ahead of it.
LEMMA CutByTheCap ==
  ASSUME NEW order, Ranked(order), NEW n \in Nat,
         NEW c \in DOMAIN order, c \notin Best(order, n),
         NEW h \in Best(order, n), order[c] < order[h]
  PROVE  /\ Cap # 0
         /\ Cardinality({x \in Best(order, n) : DocOf[x] = DocOf[c]}) = Cap
         /\ \A x \in Best(order, n) : DocOf[x] = DocOf[c] => order[x] < order[c]
<1> DEFINE kept == Kept(order)
           upTo(x) == {y \in kept : order[y] <= order[x]}
           same == SameDoc(order, c)
           ahead(x) == {y \in same : order[y] <= order[x]}
           share == {x \in same : Cardinality(ahead(x)) <= Cap}
<1>1. /\ kept \in SUBSET DOMAIN order /\ same \in SUBSET DOMAIN order
      /\ IsFiniteSet(kept) /\ IsFiniteSet(same)
  BY FS_Subset DEF Kept, SameDoc, Ranked
<1>2. /\ \A x \in DOMAIN order : x \in Best(order, n) <=> x \in kept /\ Cardinality(upTo(x)) <= n
      /\ \A x \in Best(order, n) : x \in DOMAIN order
  BY <1>1, BestIsPrefix
<1>3. ASSUME NEW x \in kept, order[x] < order[h]
      PROVE  x \in Best(order, n)
  <2>1. upTo(x) \in SUBSET upTo(h) /\ upTo(h) \in SUBSET kept
    BY <1>1, <1>2, <1>3 DEF Ranked
  <2>2. IsFiniteSet(upTo(h))
    BY <1>1, <2>1, FS_Subset
  <2>3. Cardinality(upTo(x)) \in Nat /\ Cardinality(upTo(h)) \in Nat
        /\ Cardinality(upTo(x)) <= Cardinality(upTo(h))
    <3> HIDE DEF upTo
    <3> QED BY <2>1, <2>2, SubsetCount
  <2>4. Cardinality(upTo(h)) <= n
    BY <1>2
  <2>5. Cardinality(upTo(x)) <= n
    <3> HIDE DEF upTo
    <3> QED BY <2>3, <2>4
  <2>6. QED
    BY <1>1, <1>2, <2>5
<1>4. c \notin kept
  BY <1>3
<1>5. Cap # 0 /\ Cap \in Nat /\ ~(Cardinality(ahead(c)) <= Cap)
  BY <1>4, ConstantsAssumption DEF Kept
<1>6. Cardinality(share) = Cap
  <2>1. /\ \A x \in same : order[x] \in Nat
        /\ \A x, y \in same : order[x] = order[y] => x = y
    BY <1>1 DEF Ranked
  <2>2. Cardinality(share) = IF Cardinality(same) < Cap THEN Cardinality(same) ELSE Cap
    <3>0. Cap \in Nat /\ IsFiniteSet(same)
      BY <1>1, <1>5
    <3> HIDE DEF same
    <3>1. Cardinality({x \in same : Cardinality({y \in same : order[y] <= order[x]}) <= Cap})
            = IF Cardinality(same) < Cap THEN Cardinality(same) ELSE Cap
      BY <2>1, <3>0, RankedPrefix
    <3>2. QED BY <3>1
  <2>3. Cardinality(same) \in Nat /\ Cardinality(ahead(c)) \in Nat
        /\ Cardinality(ahead(c)) <= Cardinality(same)
    <3>1. ahead(c) \in SUBSET same
      OBVIOUS
    <3> HIDE DEF same, ahead
    <3>2. QED BY <1>1, <3>1, SubsetCount
  <2>4. QED
    <3> HIDE DEF same, share, ahead
    <3> QED BY <1>5, <2>2, <2>3
<1>7. \A x \in share : order[x] < order[c]
  <2> SUFFICES ASSUME NEW x \in share, ~(order[x] < order[c]) PROVE FALSE
    OBVIOUS
  <2>1. ahead(c) \in SUBSET ahead(x) /\ ahead(x) \in SUBSET same
    BY <1>1 DEF Ranked
  <2>2. IsFiniteSet(ahead(x))
    BY <1>1, <2>1, FS_Subset
  <2>3. Cardinality(ahead(x)) <= Cap
    OBVIOUS
  <2>4. Cardinality(ahead(c)) \in Nat /\ Cardinality(ahead(x)) \in Nat
        /\ Cardinality(ahead(c)) <= Cardinality(ahead(x))
    <3> HIDE DEF ahead
    <3> QED BY <2>1, <2>2, SubsetCount
  <2>5. QED
    <3> HIDE DEF ahead
    <3> QED BY <1>5, <2>3, <2>4
<1>8. share \subseteq kept
  <2> SUFFICES ASSUME NEW x \in share PROVE x \in kept
    OBVIOUS
  <2>1. SameDoc(order, x) = same /\ x \in DOMAIN order
    BY DEF SameDoc
  <2>2. QED
    BY <2>1 DEF Kept
<1>9. ASSUME NEW x \in share
      PROVE  x \in Best(order, n) /\ DocOf[x] = DocOf[c] /\ order[x] < order[c]
  <2>1. x \in DOMAIN order /\ DocOf[x] = DocOf[c]
    BY DEF SameDoc
  <2>2. order[x] < order[c] /\ order[x] \in Nat /\ order[c] \in Nat /\ order[h] \in Nat
    BY <1>2, <1>7, <2>1 DEF Ranked
  <2>3. QED
    BY <1>3, <1>8, <2>1, <2>2
<1>10. ASSUME NEW x \in Best(order, n), DocOf[x] = DocOf[c]
       PROVE  x \in share
  <2>1. x \in kept /\ x \in same /\ SameDoc(order, x) = same
    BY <1>2, <1>10 DEF SameDoc
  <2>2. QED
    BY <1>5, <2>1 DEF Kept
<1>11. {x \in Best(order, n) : DocOf[x] = DocOf[c]} = share
  BY <1>9, <1>10
<1>12. QED
  BY <1>5, <1>6, <1>7, <1>10, <1>11

-----------------------------------------------------------------------------
(* The unit of the fused scores.                                           *)

LEMMA LeastOf ==
  ASSUME NEW T \in SUBSET Nat, T # {}
  PROVE  \E x \in T : \A y \in T : x <= y
<1> DEFINE R == {ss \in Nat \X Nat : ss[1] < ss[2]}
<1>1. IsWellFoundedOn(R, Nat)
  BY NatLessThanWellFounded DEF OpToRel
<1>2. PICK x \in T : \A y \in T : <<y, x>> \notin R
  <2> HIDE DEF R
  <2> QED BY <1>1, WFMin, Zenon
<1>3. ASSUME NEW y \in T PROVE x <= y
  <2>1. <<y, x>> \in Nat \X Nat
    OBVIOUS
  <2>2. ~(y < x)
    BY <1>2, <2>1
  <2>3. QED BY <2>2
<1>4. QED
  BY <1>3

\* Induction over Nat for what a set can hold.
LEMMA SetInduction ==
  ASSUME NEW T \in SUBSET Nat, 0 \in T, \A n \in T : n + 1 \in T
  PROVE  T = Nat
<1> SUFFICES ASSUME Nat \ T # {} PROVE FALSE
  OBVIOUS
<1>1. PICK m \in Nat \ T : \A y \in Nat \ T : m <= y
  BY LeastOf
<1>2. QED
  BY <1>1

Ranks == 1..Candidates
Factor == [i \in Ranks |-> RrfK + i]
Pick(s) == CHOOSE i \in s : TRUE

\* One step of the fold over a set of ranks, and the fold.
Multiplied(g) ==
  [s \in SUBSET Ranks |-> IF s = {} THEN 1 ELSE Factor[Pick(s)] * g[s \ {Pick(s)}]]
Product == CHOOSE g : g = Multiplied(g)

LEMMA UnitIsProduct == RrfUnit = Product[Ranks]
<1>1. DOMAIN Factor = Ranks
  BY DEF Factor
<1>2. RrfUnit = FoldFunctionOnSet(LAMBDA a, b : a * b, 1, Factor, Ranks)
  BY <1>1 DEF RrfUnit, FoldFunction, Factor, Ranks
<1>3. QED
  BY <1>2 DEF FoldFunctionOnSet, MapThenFoldSet, Product, Multiplied, Pick

LEMMA RanksFinite ==
  /\ Candidates \in Nat /\ RrfK \in Nat /\ IsFiniteSet(Ranks)
  /\ \A s \in SUBSET Ranks : IsFiniteSet(s) /\ Cardinality(s) \in Nat
<1>1. Candidates \in Nat /\ RrfK \in Nat
  BY ConstantsAssumption
<1>2. IsFiniteSet(Ranks)
  BY <1>1, FS_Interval DEF Ranks
<1>3. QED
  BY <1>1, <1>2, FS_Subset, FS_CardinalityType

LEMMA PickFacts ==
  ASSUME NEW s \in SUBSET Ranks, s # {}
  PROVE  /\ Pick(s) \in s /\ s \ {Pick(s)} \in SUBSET Ranks
         /\ Cardinality(s \ {Pick(s)}) = Cardinality(s) - 1
<1>1. Pick(s) \in s
  BY DEF Pick
<1>2. IsFiniteSet(s)
  BY RanksFinite
<1>3. QED
  BY <1>1, <1>2, FS_RemoveElement

\* The recursion has a solution: one for the sets of at most n ranks, whatever n.
LEMMA ProductExists == \E g : g = Multiplied(g)
<1> DEFINE Upto(g, n) == \A s \in SUBSET Ranks : Cardinality(s) <= n => g[s] = Multiplied(g)[s]
           T == {n \in Nat : \E g : Upto(g, n)}
<1>1. 0 \in T
  <2> DEFINE g == [s \in SUBSET Ranks |-> 1]
  <2>1. ASSUME NEW s \in SUBSET Ranks, Cardinality(s) <= 0
        PROVE  g[s] = Multiplied(g)[s]
    <3>1. s = {}
      BY <2>1, RanksFinite, FS_EmptySet
    <3>2. QED
      BY <3>1 DEF Multiplied
  <2>2. Upto(g, 0)
    BY <2>1
  <2>3. QED
    <3> HIDE DEF g
    <3> QED BY <2>2
<1>2. ASSUME NEW n \in Nat, NEW g, Upto(g, n)
      PROVE  \A s \in SUBSET Ranks :
               Cardinality(s) <= n + 1 => Multiplied(g)[s] = Multiplied(Multiplied(g))[s]
  <2> SUFFICES ASSUME NEW s \in SUBSET Ranks, Cardinality(s) <= n + 1
               PROVE  Multiplied(g)[s] = Multiplied(Multiplied(g))[s]
    OBVIOUS
  <2>1. CASE s = {}
    BY <2>1 DEF Multiplied
  <2>2. CASE s # {}
    <3> DEFINE rest == s \ {Pick(s)}
    <3>1. rest \in SUBSET Ranks /\ Cardinality(rest) <= n
      BY <2>2, PickFacts, RanksFinite
    <3>2. g[rest] = Multiplied(g)[rest]
      BY <1>2, <3>1
    <3>3. Multiplied(g)[s] = Factor[Pick(s)] * g[rest]
      BY <2>2 DEF Multiplied
    <3>4. Multiplied(Multiplied(g))[s] = Factor[Pick(s)] * Multiplied(g)[rest]
      <4> DEFINE h == Multiplied(g)
      <4> HIDE DEF h
      <4>1. Multiplied(h)[s] = Factor[Pick(s)] * h[rest]
        BY <2>2 DEF Multiplied
      <4>2. QED
        BY <4>1 DEF h
    <3>5. QED
      BY <3>2, <3>3, <3>4
  <2>3. QED
    BY <2>1, <2>2
<1>3. \A n \in T : n + 1 \in T
  <2> SUFFICES ASSUME NEW n \in T PROVE n + 1 \in T
    OBVIOUS
  <2>1. PICK g : Upto(g, n)
    OBVIOUS
  <2>2. Upto(Multiplied(g), n + 1)
    BY <1>2, <2>1
  <2>3. QED
    <3> HIDE DEF Upto
    <3> QED BY <2>2
<1>4. T = Nat
  <2>1. T \in SUBSET Nat
    OBVIOUS
  <2> HIDE DEF T
  <2>2. QED
    BY <1>1, <1>3, <2>1, SetInduction
<1>5. PICK g : Upto(g, Cardinality(Ranks))
  <2>1. Cardinality(Ranks) \in T
    BY <1>4, RanksFinite
  <2> HIDE DEF Upto
  <2>2. QED
    BY <2>1
<1>6. \A s \in SUBSET Ranks : Cardinality(s) <= Cardinality(Ranks)
  BY RanksFinite, FS_Subset
<1>7. \A s \in SUBSET Ranks : g[s] = Multiplied(g)[s]
  BY <1>5, <1>6
<1>8. Multiplied(g) = Multiplied(Multiplied(g))
  <2> DEFINE h == Multiplied(g)
  <2>1. \A s \in SUBSET Ranks : h[s] = g[s]
    BY <1>7
  <2> HIDE DEF h
  <2>2. \A s \in SUBSET Ranks : s \ {Pick(s)} \in SUBSET Ranks
    OBVIOUS
  <2>3. Multiplied(g) = Multiplied(h)
    BY <2>1, <2>2 DEF Multiplied
  <2>4. QED
    BY <2>3 DEF h
<1>9. QED
  BY <1>8

LEMMA ProductStep ==
  ASSUME NEW s \in SUBSET Ranks
  PROVE  Product[s] = IF s = {} THEN 1 ELSE Factor[Pick(s)] * Product[s \ {Pick(s)}]
<1>1. Product = Multiplied(Product)
  BY ProductExists DEF Product
<1>2. Product[s] = Multiplied(Product)[s]
  BY <1>1
<1> DEFINE P == Product
<1> HIDE DEF P
<1>3. Multiplied(P)[s] = IF s = {} THEN 1 ELSE Factor[Pick(s)] * P[s \ {Pick(s)}]
  BY DEF Multiplied
<1>4. QED
  BY <1>2, <1>3 DEF P

\* A positive multiple of each of its factors.
Divided(s) ==
  /\ Product[s] \in Nat \ {0}
  /\ \A i \in s : \E q \in Nat : Product[s] = q * (RrfK + i)

LEMMA MultipleOf ==
  ASSUME NEW a \in Nat, NEW q \in Nat, NEW b \in Nat
  PROVE  b * (q * a) = (b * q) * a /\ b * q \in Nat
OBVIOUS

LEMMA PositiveProduct ==
  ASSUME NEW a \in Nat \ {0}, NEW b \in Nat \ {0}
  PROVE  a * b \in Nat \ {0} /\ a * b = b * a
OBVIOUS

LEMMA ProductDivided == \A s \in SUBSET Ranks : Divided(s)
<1> DEFINE T == {n \in Nat : \A s \in SUBSET Ranks : Cardinality(s) = n => Divided(s)}
<1>1. 0 \in T
  <2> SUFFICES ASSUME NEW s \in SUBSET Ranks, Cardinality(s) = 0 PROVE Divided(s)
    OBVIOUS
  <2>1. s = {}
    BY RanksFinite, FS_EmptySet
  <2>2. Product[s] = 1
    BY <2>1, ProductStep
  <2>3. QED
    BY <2>1, <2>2 DEF Divided
<1>2. ASSUME NEW n \in T PROVE n + 1 \in T
  <2> SUFFICES ASSUME NEW s \in SUBSET Ranks, Cardinality(s) = n + 1 PROVE Divided(s)
    OBVIOUS
  <2> DEFINE x == Pick(s)
             rest == s \ {x}
             p == Product[rest]
             f == RrfK + x
  <2>1. s # {}
    BY FS_EmptySet, RanksFinite
  <2>2. x \in s /\ rest \in SUBSET Ranks /\ Cardinality(rest) = n
    BY <2>1, PickFacts
  <2>3. Divided(rest)
    BY <2>2
  <2>4. f \in Nat \ {0} /\ Factor[x] = f
    <3>1. x \in Ranks
      BY <2>2
    <3> HIDE DEF x
    <3>2. QED BY <3>1, RanksFinite DEF Ranks, Factor
  <2>5. Product[s] = f * p
    BY <2>1, <2>4, ProductStep
  <2>6. p \in Nat \ {0} /\ \A i \in rest : \E q \in Nat : p = q * (RrfK + i)
    BY <2>3 DEF Divided
  <2>7. \A i \in s : i = x \/ i \in rest
    OBVIOUS
  <2>8. \A i \in s : RrfK + i \in Nat
    BY RanksFinite DEF Ranks
  <2> HIDE DEF p, f, rest
  <2>9. Product[s] \in Nat \ {0}
    BY <2>4, <2>5, <2>6, PositiveProduct
  <2>10. ASSUME NEW i \in rest, i \in s PROVE \E q \in Nat : Product[s] = q * (RrfK + i)
    <3>1. PICK q \in Nat : p = q * (RrfK + i)
      BY <2>6
    <3>2. f * (q * (RrfK + i)) = (f * q) * (RrfK + i) /\ f * q \in Nat
      BY <2>4, <2>8, <2>10, MultipleOf
    <3>3. QED
      BY <2>5, <3>1, <3>2
  <2>11. Product[s] = p * f
    BY <2>4, <2>5, <2>6, PositiveProduct
  <2>12. \E q \in Nat : Product[s] = q * (RrfK + x)
    BY <2>6, <2>11 DEF f
  <2>13. QED
    BY <2>7, <2>9, <2>10, <2>12 DEF Divided, rest
<1>3. T = Nat
  <2>1. T \in SUBSET Nat
    OBVIOUS
  <2> HIDE DEF T
  <2>2. QED
    BY <1>1, <1>2, <2>1, SetInduction
<1>4. QED
  BY <1>3, RanksFinite

LEMMA DivExact ==
  ASSUME NEW q \in Nat, NEW d \in Nat \ {0}
  PROVE  (q * d) \div d = q
OBVIOUS

LEMMA SmallerQuotient ==
  ASSUME NEW u \in Nat \ {0}, NEW a \in Nat \ {0}, NEW b \in Nat \ {0}, a < b,
         NEW q \in Nat, NEW r \in Nat, u = q * a, u = r * b
  PROVE  q > r
<1>1. SUFFICES ASSUME q <= r PROVE FALSE
  OBVIOUS
<1>2. r # 0
  <2>1. CASE r = 0
    BY <2>1
  <2>2. QED BY <2>1
<1>3. q * a <= r * a
  BY <1>1
<1>4. r * a < r * b
  BY <1>2
<1>5. QED
  BY <1>3, <1>4

\* A better rank scores more, and none less than nothing.
LEMMA ReciprocalFalls ==
  ASSUME NEW i \in Ranks, NEW j \in Ranks, i < j
  PROVE  /\ RrfUnit \div (RrfK + i) \in Nat /\ RrfUnit \div (RrfK + j) \in Nat
         /\ RrfUnit \div (RrfK + i) > RrfUnit \div (RrfK + j)
<1> DEFINE u == RrfUnit
           a == RrfK + i
           b == RrfK + j
<1>1. a \in Nat \ {0} /\ b \in Nat \ {0} /\ a < b
  BY RanksFinite DEF Ranks
<1>2. Divided(Ranks)
  BY ProductDivided
<1>3. u \in Nat \ {0} /\ (\E q \in Nat : u = q * a) /\ (\E q \in Nat : u = q * b)
  BY <1>2, UnitIsProduct DEF Divided
<1> HIDE DEF u, a, b
<1>4. PICK q \in Nat : u = q * a
  BY <1>3
<1>5. PICK r \in Nat : u = r * b
  BY <1>3
<1>6. u \div a = q /\ u \div b = r
  BY <1>1, <1>4, <1>5, DivExact
<1>7. q > r
  BY <1>1, <1>3, <1>4, <1>5, SmallerQuotient
<1>8. QED
  BY <1>6, <1>7 DEF u, a, b

-----------------------------------------------------------------------------
(* What a search found, and what is left of it.                            *)

\* A leg gives some chunks ranks from 1 to Candidates.
LegType(leg) == \A c \in DOMAIN leg : leg[c] \in Ranks

LEMMA TopIsLeg ==
  ASSUME NEW S, IsFiniteSet(S), NEW r \in Bijection(S, 1..Cardinality(S))
  PROVE  LegType(Top(r, Candidates))
<1>1. Cardinality(S) \in Nat /\ Candidates \in Nat
  BY FS_CardinalityType, ConstantsAssumption
<1>2. DOMAIN r = S /\ \A c \in S : r[c] \in 1..Cardinality(S)
  BY RankingFacts
<1>3. /\ DOMAIN Top(r, Candidates) = {c \in DOMAIN r : r[c] <= Candidates}
      /\ \A c \in DOMAIN Top(r, Candidates) : Top(r, Candidates)[c] = r[c]
  BY TopFacts
<1>4. QED
  BY <1>1, <1>2, <1>3 DEF LegType, Ranks

LEMMA RestrictedLeg ==
  ASSUME NEW leg, LegType(leg), NEW S, S \subseteq DOMAIN leg
  PROVE  LegType(Restrict(leg, S))
BY DEF LegType, Restrict

LEMMA LexicalIsLeg ==
  ASSUME NEW density, NEW leg \in Lexical(density)
  PROVE  LegType(leg)
<1> DEFINE ts == Informative(stats, question)
           strict == {c \in Readable : Strict(ts, c)}
           relaxed == {c \in Readable : Relaxed(ts, c)}
           best == Max({density[c] : c \in relaxed})
           close(top) == {c \in DOMAIN top : 10 * density[c] >= 6 * best}
<1>1. CASE strict # {}
  <2>1. PICK r \in Rankings(strict, density) : leg = Top(r, Candidates)
    BY <1>1 DEF Lexical
  <2>2. r \in Bijection(strict, 1..Cardinality(strict)) /\ IsFiniteSet(strict)
    BY ReadableFinite DEF Rankings
  <2> HIDE DEF strict
  <2>3. QED
    BY <2>1, <2>2, TopIsLeg
<1>2. CASE strict = {}
  <2>1. PICK r \in Rankings(relaxed, density) :
               leg = Restrict(Top(r, Candidates), close(Top(r, Candidates)))
    BY <1>2 DEF Lexical
  <2>2. r \in Bijection(relaxed, 1..Cardinality(relaxed)) /\ IsFiniteSet(relaxed)
    BY ReadableFinite DEF Rankings
  <2>3. close(Top(r, Candidates)) \subseteq DOMAIN Top(r, Candidates)
    OBVIOUS
  <2> HIDE DEF relaxed, close
  <2>4. LegType(Top(r, Candidates))
    BY <2>2, TopIsLeg
  <2>5. QED
    BY <2>1, <2>3, <2>4, RestrictedLeg
<1>3. QED
  BY <1>1, <1>2

LEMMA ReciprocalType ==
  ASSUME NEW leg, LegType(leg), NEW c
  PROVE  Reciprocal(leg, c) \in Nat
<1>1. CASE c \in DOMAIN leg
  <2> DEFINE i == leg[c]
  <2>1. i \in 1..Candidates /\ Candidates \in Nat /\ RrfK \in Nat
    BY <1>1, RanksFinite DEF LegType, Ranks
  <2>2. RrfUnit \div (RrfK + i) \in Nat
    <3>1. RrfUnit \in Nat
      BY ProductDivided, UnitIsProduct DEF Divided
    <3>2. RrfK + i \in Nat \ {0}
      BY <2>1
    <3> DEFINE d == RrfK + i
               u == RrfUnit
    <3>3. u \in Nat /\ d \in Nat \ {0}
      BY <3>1, <3>2
    <3> HIDE DEF d, u
    <3>4. u \div d \in Nat
      BY <3>3
    <3>5. QED BY <3>4 DEF d, u
  <2>3. QED
    BY <1>1, <2>2 DEF Reciprocal
<1>2. CASE c \notin DOMAIN leg
  BY <1>2 DEF Reciprocal
<1>3. QED
  BY <1>1, <1>2

\* A chunk ranks ahead of those that are worse in both legs.
Beats(v, f, c, h) ==
  /\ c \in DOMAIN v /\ h \in DOMAIN v /\ v[c] < v[h]
  /\ h \in DOMAIN f => c \in DOMAIN f /\ f[c] <= f[h]

LEMMA MoreIsMore ==
  ASSUME NEW a \in Nat, NEW b \in Nat, NEW x \in Nat, NEW y \in Nat, NEW w \in Nat,
         a > b, x >= y
  PROVE  a + w * x > b + w * y
<1>1. w * x >= w * y
  OBVIOUS
<1>2. w * x \in Nat /\ w * y \in Nat
  OBVIOUS
<1>3. QED
  BY <1>1, <1>2

LEMMA BeatsScoresMore ==
  ASSUME NEW v, NEW f, LegType(v), LegType(f), NEW c, NEW h, Beats(v, f, c, h)
  PROVE  /\ c \in DOMAIN Fused(v, f) /\ h \in DOMAIN Fused(v, f)
         /\ Fused(v, f)[c] > Fused(v, f)[h]
<1>1. v[c] \in Ranks /\ v[h] \in Ranks
  BY DEF Beats, LegType
<1>2. Reciprocal(v, c) > Reciprocal(v, h)
  BY <1>1, ReciprocalFalls DEF Beats, Reciprocal
<1>3. Reciprocal(f, c) >= Reciprocal(f, h)
  <2>1. CASE h \notin DOMAIN f
    <3>1. Reciprocal(f, h) = 0
      BY <2>1 DEF Reciprocal
    <3>2. QED BY <3>1, ReciprocalType
  <2>2. CASE h \in DOMAIN f
    <3>1. f[c] \in Ranks /\ f[h] \in Ranks /\ f[c] <= f[h] /\ c \in DOMAIN f
      BY <2>2 DEF Beats, LegType
    <3>2. f[c] = f[h] \/ f[c] < f[h]
      BY <3>1, RanksFinite DEF Ranks
    <3>3. CASE f[c] = f[h]
      <4>1. Reciprocal(f, c) = Reciprocal(f, h)
        BY <2>2, <3>1, <3>3 DEF Reciprocal
      <4>2. QED BY <4>1, ReciprocalType
    <3>4. CASE f[c] < f[h]
      <4>1. /\ RrfUnit \div (RrfK + f[c]) \in Nat /\ RrfUnit \div (RrfK + f[h]) \in Nat
            /\ RrfUnit \div (RrfK + f[c]) > RrfUnit \div (RrfK + f[h])
        BY <3>1, <3>4, ReciprocalFalls
      <4>2. /\ Reciprocal(f, c) = RrfUnit \div (RrfK + f[c])
            /\ Reciprocal(f, h) = RrfUnit \div (RrfK + f[h])
        BY <2>2, <3>1 DEF Reciprocal
      <4>3. QED BY <4>1, <4>2
    <3>5. QED BY <3>2, <3>3, <3>4
  <2>3. QED BY <2>1, <2>2
<1>4. c \in DOMAIN v \cup DOMAIN f /\ h \in DOMAIN v \cup DOMAIN f
  BY DEF Beats
<1>5. /\ Fused(v, f)[c] = Reciprocal(v, c) + WeightFts * Reciprocal(f, c)
      /\ Fused(v, f)[h] = Reciprocal(v, h) + WeightFts * Reciprocal(f, h)
      /\ DOMAIN Fused(v, f) = DOMAIN v \cup DOMAIN f
  BY <1>4 DEF Fused
<1>6. WeightFts \in Nat
  BY ConstantsAssumption
<1>7. Reciprocal(v, c) + WeightFts * Reciprocal(f, c)
        > Reciprocal(v, h) + WeightFts * Reciprocal(f, h)
  BY <1>2, <1>3, <1>6, ReciprocalType, MoreIsMore
<1>8. QED
  BY <1>4, <1>5, <1>7

\* The inductive invariant: the ranking of the fused scores respects both legs, and the hits
\* are cut from it.
SearchInv ==
  /\ pc \in {"idle", "asked"} => place = Nothing /\ hits = {}
  /\ pc \notin {"idle", "asked"} =>
       /\ Ranked(place)
       /\ \A c, h : Beats(vec, fts, c, h) =>
            c \in DOMAIN place /\ h \in DOMAIN place /\ place[c] < place[h]
       /\ hits = Best(place, IF reranking THEN Pool ELSE K)
  /\ pc = "answered" =>
       /\ answer \subseteq hits
       /\ Cardinality(answer) = IF Cardinality(hits) < K THEN Cardinality(hits) ELSE K

LEMMA HybridSearchInv ==
  ASSUME SearchInv, HybridSearch PROVE SearchInv'
<1>1. PICK nearness \in Bijection(Readable, 1..Cardinality(Readable)) :
             vec' = Top(nearness, Candidates)
  BY DEF HybridSearch
<1>2. PICK density \in [Matching -> {1, 2}] : fts' \in Lexical(density)
  BY DEF HybridSearch
<1>3. LegType(vec') /\ LegType(fts')
  BY <1>1, <1>2, ReadableFinite, TopIsLeg, LexicalIsLeg
<1> DEFINE v == vec'
           f == fts'
           order == place'
           score == Fused(v, f)
           D == DOMAIN score
<1>4. order \in Rankings(D, score)
  BY DEF HybridSearch
<1>5. D = DOMAIN v \cup DOMAIN f
  BY DEF Fused
<1>6. IsFiniteSet(D)
  <2>1. DOMAIN v \subseteq Readable
    <3>1. DOMAIN nearness = Readable
      BY RankingFacts
    <3>2. QED
      BY <1>1, <3>1, TopFacts
  <2>2. DOMAIN f \subseteq Readable
    BY <1>2, LexicalReadable
  <2>3. D \subseteq Readable
    BY <1>5, <2>1, <2>2
  <2>4. QED
    <3> HIDE DEF D
    <3> QED BY <2>3, ReadableFinite
<1>7. LegType(v) /\ LegType(f)
  BY <1>3
<1>8. pc' = "found" /\ reranking' = reranking
  BY DEF HybridSearch, corpus
<1>9. hits' = Best(order, IF reranking' THEN Pool ELSE K)
  BY <1>8 DEF HybridSearch
<1> HIDE DEF v, f, order
<1>10. /\ DOMAIN order = D /\ \A c \in D : order[c] \in 1..Cardinality(D)
       /\ \A a, b \in D : score[a] > score[b] => order[a] < order[b]
       /\ \A a, b \in D : order[a] = order[b] => a = b
  <2> HIDE DEF D, score
  <2>1. order \in Bijection(D, 1..Cardinality(D))
        /\ \A a, b \in D : score[a] > score[b] => order[a] < order[b]
    BY <1>4 DEF Rankings
  <2>2. DOMAIN order = D /\ \A c \in D : order[c] \in 1..Cardinality(D)
    BY <2>1, RankingFacts
  <2>3. \A a, b \in D : order[a] = order[b] => a = b
    BY <2>1, <2>2 DEF Bijection, Injection, IsInjective
  <2>4. QED BY <2>1, <2>2, <2>3
<1>11. Ranked(order)
  <2> HIDE DEF D
  <2>1. Cardinality(D) \in Nat
    BY <1>6, FS_CardinalityType
  <2>2. QED BY <1>6, <1>10, <2>1 DEF Ranked
<1>12. \A c, h : Beats(v, f, c, h) =>
         c \in DOMAIN order /\ h \in DOMAIN order /\ order[c] < order[h]
  <2> SUFFICES ASSUME NEW c, NEW h, Beats(v, f, c, h)
               PROVE  c \in DOMAIN order /\ h \in DOMAIN order /\ order[c] < order[h]
    OBVIOUS
  <2>1. c \in D /\ h \in D /\ score[c] > score[h]
    BY <1>7, BeatsScoresMore
  <2>2. QED BY <1>10, <2>1
<1>13. QED
  BY <1>8, <1>9, <1>11, <1>12 DEF SearchInv, v, f, order

\* The cross-encoder orders the hits by its scores, ties by their places: of a total order, the
\* first K are as many as there are, up to K.
LEMMA RerankInv ==
  ASSUME SearchInv, Rerank PROVE SearchInv'
<1>1. PICK logit \in [hits -> {1, 2}] :
        answer' = {c \in hits :
                     Cardinality({x \in hits : \/ logit[x] > logit[c]
                                               \/ logit[x] = logit[c] /\ place[x] <= place[c]}) <= K}
  BY DEF Rerank
<1>2. /\ pc = "found" /\ pc' = "answered"
      /\ UNCHANGED <<reranking, vec, fts, place, hits>>
  BY DEF Rerank, corpus, search
<1>3. K \in Nat /\ Pool \in Nat
  BY ConstantsAssumption
<1>4. Ranked(place) /\ hits = Best(place, IF reranking THEN Pool ELSE K)
  BY <1>2 DEF SearchInv
<1>5. IsFiniteSet(hits) /\ hits \subseteq DOMAIN place
  BY <1>3, <1>4, BestCount
<1> DEFINE ahead(x, c) == \/ logit[x] > logit[c]
                          \/ (logit[x] = logit[c] /\ place[x] <= place[c])
           below == [c \in hits |-> {x \in hits : ahead(x, c)}]
<1>6. /\ \A c \in hits : logit[c] \in {1, 2} /\ place[c] \in Nat
      /\ \A c, h \in hits : place[c] = place[h] => c = h
  BY <1>4, <1>5 DEF Ranked
<1>7. below \in [hits -> SUBSET hits] /\ \A c \in hits : below[c] = {x \in hits : ahead(x, c)}
  OBVIOUS
<1>8. \A x \in hits : ahead(x, x)
  BY <1>6
<1>9. \A x, y \in hits : x # y => (ahead(x, y) /\ ~ahead(y, x)) \/ (ahead(y, x) /\ ~ahead(x, y))
  BY <1>6
<1>10. \A x, y, z \in hits : ahead(x, y) /\ ahead(z, x) => ahead(z, y)
  BY <1>6
<1>11. /\ \A x \in hits : x \in below[x]
       /\ \A x, y \in hits : x # y => (x \in below[y] /\ y \notin below[x])
                                        \/ (y \in below[x] /\ x \notin below[y])
       /\ \A x, y \in hits : x \in below[y] => below[x] \subseteq below[y]
  <2> HIDE DEF ahead, below
  <2> QED BY <1>7, <1>8, <1>9, <1>10
<1>12. answer' = {c \in hits : Cardinality(below[c]) <= K}
  BY <1>1, <1>7
<1>13. Cardinality(answer') = IF Cardinality(hits) < K THEN Cardinality(hits) ELSE K
  <2> HIDE DEF below
  <2> QED BY <1>3, <1>5, <1>7, <1>11, <1>12, PrefixCount
<1>14. answer' \subseteq hits
  BY <1>12
<1>15. QED
  BY <1>2, <1>13, <1>14 DEF SearchInv

LEMMA ServeFusedInv ==
  ASSUME SearchInv, ServeFused PROVE SearchInv'
<1>1. /\ pc = "found" /\ pc' = "answered" /\ answer' = hits /\ ~reranking
      /\ UNCHANGED <<reranking, vec, fts, place, hits>>
  BY DEF ServeFused, corpus, search
<1>2. K \in Nat /\ Ranked(place) /\ hits = Best(place, K)
  BY <1>1, ConstantsAssumption DEF SearchInv
<1>3. Cardinality(hits) <= K /\ Cardinality(hits) \in Nat
  BY <1>2, BestCount, FS_CardinalityType
<1>4. Cardinality(answer') = IF Cardinality(hits) < K THEN Cardinality(hits) ELSE K
  BY <1>1, <1>2, <1>3
<1>5. QED
  BY <1>1, <1>4 DEF SearchInv

LEMMA SearchNext == SearchInv /\ [Next]_vars => SearchInv'
<1> SUFFICES ASSUME SearchInv, [Next]_vars PROVE SearchInv'
  OBVIOUS
<1>1. ASSUME UNCHANGED <<reranking, pc, search, answer>> PROVE SearchInv'
  BY <1>1 DEF SearchInv, search
<1>2. ASSUME NEW d \in Docs, AddChunks(d) \/ MarkReady(d) \/ Delete(d) \/ Share(d) \/ Refresh(d)
      PROVE  UNCHANGED <<reranking, pc, search, answer>>
  BY <1>2 DEF AddChunks, MarkReady, Delete, Share, Refresh
<1>3. CASE IntervalEnds
  BY <1>1, <1>3 DEF IntervalEnds, corpus
<1>4. CASE Ask
  BY <1>4 DEF Ask, SearchInv
<1>5. CASE UNCHANGED vars
  BY <1>1, <1>5 DEF vars, search
<1>6. QED
  BY <1>1, <1>2, <1>3, <1>4, <1>5, HybridSearchInv, RerankInv, ServeFusedInv DEF Next

LEMMA SearchAlways == Spec => []SearchInv
<1>1. Init => SearchInv
  BY DEF Init, SearchInv
<1>2. QED
  BY <1>1, SearchNext, PTL DEF Spec

\* Whatever the legs rank, the weights and the cap, a chunk yields to one that is worse in both
\* legs only to its document's cap, and the prompt gets all the passages it can.
THEOREM NoInversionCorrect == Spec => []NoInversion
<1>1. SearchInv => NoInversion
  <2> SUFFICES ASSUME SearchInv PROVE NoInversion
    OBVIOUS
  <2>1. ASSUME NEW c \in DOMAIN place \ hits, NEW h \in hits, Dominates(c, h)
        PROVE  Cap # 0 /\ Cardinality({x \in hits : DocOf[x] = DocOf[c] /\ ~Dominates(c, x)}) = Cap
    <3> DEFINE n == IF reranking THEN Pool ELSE K
    <3>1. pc \notin {"idle", "asked"}
      BY <2>1 DEF SearchInv
    <3>2. /\ Ranked(place) /\ hits = Best(place, n) /\ n \in Nat
          /\ \A x : Dominates(c, x) => x \in DOMAIN place /\ place[c] < place[x]
      BY <3>1, ConstantsAssumption DEF SearchInv, Dominates, Beats
    <3>3. place[c] < place[h]
      BY <2>1, <3>2
    <3> HIDE DEF n
    <3>4. /\ Cap # 0
          /\ Cardinality({x \in hits : DocOf[x] = DocOf[c]}) = Cap
          /\ \A x \in hits : DocOf[x] = DocOf[c] => place[x] < place[c]
      BY <3>2, <3>3, CutByTheCap
    <3>5. \A x \in hits : DocOf[x] = DocOf[c] => ~Dominates(c, x)
      <4>1. hits \subseteq DOMAIN place
        BY <3>2, BestCount
      <4>2. QED
        BY <3>2, <3>4, <4>1 DEF Ranked
    <3>6. {x \in hits : DocOf[x] = DocOf[c] /\ ~Dominates(c, x)} = {x \in hits : DocOf[x] = DocOf[c]}
      BY <3>5
    <3>7. QED
      BY <3>4, <3>6
  <2>2. QED
    BY <2>1 DEF SearchInv, NoInversion
<1>2. QED
  BY <1>1, SearchAlways, PTL

=============================================================================
