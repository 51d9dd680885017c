---------------------------- MODULE ServingProofs ----------------------------
(***************************************************************************)
(* Theorems about a process from its boot to its end, and about what it    *)
(* serves besides the components with modules of their own: the call of a  *)
(* model, the readiness probe, the authentication of a request, the        *)
(* messages table and its export.  They hold for every value of the        *)
(* constants.                                                              *)
(***************************************************************************)
EXTENDS Boot, Delegation, Readiness, Authentication, ConversationExport, SequenceTheorems,
        TLAPS

-----------------------------------------------------------------------------
(* Delegation.                                                             *)

Rules == {"email", "iban", "avs", "phone"}

\* A run as the rules leave it: the same identifiers in the same order.
Image(r, run) ==
  /\ r \in [DOMAIN run -> Identifier]
  /\ \A n \in DOMAIN run : r[n].kind = run[n].kind /\ r[n].taken = run[n].taken

\* Behind a number whose match may go on.
Behind(run, n) ==
  n > 1 /\ run[n].taken # "none" /\ run[n - 1].kind \in Direct \ {"email", "iban1"}

LEMMA RunsAre ==
  ASSUME NEW run \in Runs
  PROVE  /\ DOMAIN run \subseteq Nat \ {0}
         /\ \A n \in DOMAIN run : 1..n \subseteq DOMAIN run
         /\ \A n \in DOMAIN run :
              /\ run[n] \in Identifier /\ run[n].state = "plain"
              /\ run[n].kind = "iban1" => run[n].taken # "whole"
BY DEF Runs

LEMMA OutcomeIn ==
  ASSUME NEW r, NEW rule, NEW n, r[n] \in Identifier
  PROVE  Outcome(rule, r, n) \in {"plain", "masked", "tail", "torn"}
BY DEF Outcome, Identifier

LEMMA SubstituteImage ==
  ASSUME NEW run \in Runs, NEW r, Image(r, run), NEW rule
  PROVE  /\ Image(Substitute(rule, r), run)
         /\ \A n \in DOMAIN run : Substitute(rule, r)[n].state = Outcome(rule, r, n)
<1>1. DOMAIN r = DOMAIN run /\ \A n \in DOMAIN run : r[n] \in Identifier
  BY DEF Image
<1>2. ASSUME NEW n \in DOMAIN run
      PROVE  /\ Substitute(rule, r)[n] \in Identifier
             /\ Substitute(rule, r)[n].kind = r[n].kind
             /\ Substitute(rule, r)[n].taken = r[n].taken
             /\ Substitute(rule, r)[n].state = Outcome(rule, r, n)
  <2>1. Substitute(rule, r)[n] = [r[n] EXCEPT !.state = Outcome(rule, r, n)]
    BY <1>1 DEF Substitute
  <2>2. Outcome(rule, r, n) \in {"plain", "masked", "tail", "torn"}
    BY <1>1, OutcomeIn
  <2>3. QED
    BY <1>1, <2>1, <2>2 DEF Identifier
<1>3. Substitute(rule, r) \in [DOMAIN run -> Identifier]
  BY <1>1, <1>2 DEF Substitute
<1>4. QED
  BY <1>2, <1>3 DEF Image

\* A match that goes on does so from a number into what its rule may take.
LEMMA ReachedIsBehind ==
  ASSUME NEW run \in Runs, NEW r, Image(r, run), NEW rule \in Rules, NEW n \in DOMAIN run,
         Reaches(rule, r, n)
  PROVE  run[n].kind \in Takes(rule) /\ Behind(run, n)
<1>1. PICK j \in 1..(n - 1) :
        /\ r[j].kind \in Goes(rule)
        /\ \A i \in j..n : r[i].state = "plain" /\ (i > j => r[i].kind \in Takes(rule))
        /\ \A i \in (j + 1)..(n - 1) : r[i].taken = "whole"
        /\ r[n].taken # "none"
  BY DEF Reaches
<1>2. n \in Nat /\ n > j /\ n - 1 \in DOMAIN run /\ n - 1 \in j..n /\ n \in j..n /\ j \in DOMAIN run
  BY <1>1, RunsAre
<1>3. run[n].kind \in Takes(rule) /\ run[n].taken # "none"
  BY <1>1, <1>2 DEF Image
<1>4. CASE n - 1 = j
  BY <1>1, <1>2, <1>3, <1>4 DEF Image, Behind, Goes, Rules, Direct, Ibans, Phones
<1>5. CASE n - 1 # j
  <2>1. n - 1 \in (j + 1)..(n - 1)
    BY <1>2, <1>5
  <2>2. run[n - 1].taken = "whole" /\ run[n - 1].kind \in Takes(rule)
    BY <1>1, <1>2, <2>1 DEF Image
  <2>3. run[n - 1].kind # "iban1"
    BY <1>2, <2>2, RunsAre
  <2>4. QED
    BY <1>2, <1>3, <2>2, <2>3 DEF Behind, Takes, Rules, Direct, Ibans, Phones
<1>6. QED
  BY <1>3, <1>4, <1>5

\* What one rule does to one identifier.
LEMMA OutcomeIs ==
  ASSUME NEW run \in Runs, NEW r, Image(r, run), NEW rule \in Rules, NEW n \in DOMAIN run
  PROVE  LET s == Outcome(rule, r, n)
             k == run[n].kind
         IN  \/ r[n].state # "plain" /\ s = r[n].state
             \/ /\ r[n].state = "plain" /\ k \in Takes(rule) /\ Behind(run, n)
                /\ s = IF run[n].taken = "whole" THEN "masked" ELSE "torn"
             \/ /\ r[n].state = "plain" /\ k \in Own(rule)
                /\ s = IF k = "iban1" THEN "tail" ELSE "masked"
             \/ /\ r[n].state = "plain" /\ k \notin Own(rule)
                /\ s = IF Finds(rule, k) THEN "torn" ELSE "plain"
<1>1. r[n].kind = run[n].kind /\ r[n].taken = run[n].taken
  BY DEF Image
<1>2. CASE Reaches(rule, r, n)
  BY <1>1, <1>2, ReachedIsBehind DEF Outcome
<1>3. CASE ~Reaches(rule, r, n)
  <2> DEFINE s == Outcome(rule, r, n)
             k == run[n].kind
  <2>1. CASE r[n].state # "plain"
    BY <2>1 DEF Outcome
  <2>2. CASE r[n].state = "plain" /\ k \in Own(rule)
    <3>1. s = IF k = "iban1" THEN "tail" ELSE "masked"
      <4>1. ~Finds(rule, k)
        BY <2>2 DEF Rules, Own, Finds, Ibans, Phones
      <4>2. QED
        BY <1>1, <1>3, <2>2, <4>1 DEF Outcome
    <3>2. QED
      BY <2>2, <3>1
  <2>3. CASE r[n].state = "plain" /\ k \notin Own(rule)
    <3>1. s = IF Finds(rule, k) THEN "torn" ELSE "plain"
      BY <1>1, <1>3, <2>3 DEF Outcome
    <3>2. QED
      BY <2>3, <3>1
  <2>4. QED
    BY <2>1, <2>2, <2>3
<1>4. QED
  BY <1>2, <1>3

\* The order of the rules: an address goes before anything can match inside it,
\* an IBAN before the digit runs in it can, an AVS number before a phone number in it.
LEMMA RulesMask ==
  ASSUME NEW run \in Runs
  PROVE  /\ Image(RedactPatterns(run), run)
         /\ \A n \in DOMAIN run : run[n].kind \in Direct => KeptIn(RedactPatterns(run), n)
<1> DEFINE t1 == Substitute("email", run)
           t2 == Substitute("iban", t1)
           t3 == Substitute("avs", t2)
           t4 == Substitute("phone", t3)
<1>1. RedactPatterns(run) = t4
  BY DEF RedactPatterns
<1>2. Image(run, run)
  <2>1. run \in [DOMAIN run -> Identifier]
    BY RunsAre DEF Runs
  <2>2. QED
    BY <2>1 DEF Image
<1>3. Image(t1, run) /\ \A n \in DOMAIN run : t1[n].state = Outcome("email", run, n)
  BY <1>2, SubstituteImage
<1> HIDE DEF t1
<1>4. Image(t2, run) /\ \A n \in DOMAIN run : t2[n].state = Outcome("iban", t1, n)
  BY <1>3, SubstituteImage
<1> HIDE DEF t2
<1>5. Image(t3, run) /\ \A n \in DOMAIN run : t3[n].state = Outcome("avs", t2, n)
  BY <1>4, SubstituteImage
<1> HIDE DEF t3
<1>6. Image(t4, run) /\ \A n \in DOMAIN run : t4[n].state = Outcome("phone", t3, n)
  BY <1>5, SubstituteImage
<1> HIDE DEF t4
<1>7. ASSUME NEW n \in DOMAIN run, run[n].kind \in Direct PROVE KeptIn(t4, n)
  <2> DEFINE k == run[n].kind
             cut == IF run[n].taken = "whole" THEN "masked" ELSE "torn"
  <2>1. run[n].state = "plain" /\ run[n] \in Identifier
    BY RunsAre
  <2>2. t1[n].state = IF k = "email" THEN "masked" ELSE "plain"
    BY <1>2, <1>3, <2>1, OutcomeIs DEF Rules, Own, Takes, Finds
  <2>3. CASE k = "email"
    <3>1. t2[n].state = "masked"
      BY <1>3, <1>4, <2>2, <2>3, OutcomeIs DEF Rules
    <3>2. t3[n].state = "masked"
      BY <1>4, <1>5, <3>1, OutcomeIs DEF Rules
    <3>3. t4[n].state = "masked"
      BY <1>5, <1>6, <3>2, OutcomeIs DEF Rules
    <3>4. QED
      BY <3>3 DEF KeptIn
  <2>4. ASSUME k # "email"
        PROVE  \/ t2[n].state = cut /\ Behind(run, n) /\ k # "phone+"
               \/ k \in Ibans /\ t2[n].state = IF k = "iban1" THEN "tail" ELSE "masked"
               \/ k \notin Ibans /\ t2[n].state = "plain"
    BY <1>3, <1>4, <2>2, <2>4, OutcomeIs DEF Rules, Own, Takes, Finds, Ibans
  <2>5. ASSUME k # "email"
        PROVE  \/ t3[n].state = cut /\ Behind(run, n) /\ k # "phone+"
               \/ k \in Ibans /\ t3[n].state = IF k = "iban1" THEN "tail" ELSE "masked"
               \/ k = "avs" /\ t3[n].state = "masked"
               \/ k \in Phones /\ t3[n].state = "plain"
    BY <1>4, <1>5, <1>7, <2>4, <2>5, OutcomeIs DEF Rules, Own, Takes, Finds, Ibans, Phones, Direct
  <2>6. ASSUME k # "email"
        PROVE  \/ t4[n].state = cut /\ Behind(run, n) /\ k # "phone+"
               \/ k = "iban1" /\ t4[n].state = "tail"
               \/ t4[n].state = "masked"
    BY <1>5, <1>6, <2>5, <2>6, OutcomeIs DEF Rules, Own, Takes, Finds, Ibans, Phones
  <2>7. CASE k # "email"
    <3>1. t4[n].kind = k /\ t4[n].taken = run[n].taken /\ run[n].taken \in {"none", "part", "whole"}
      BY <1>6, <2>1 DEF Image, Identifier
    <3>2. Behind(run, n) => n > 1 /\ t4[n - 1].kind \in Direct \ {"email", "iban1"}
                            /\ run[n].taken # "none"
      <4>1. n > 1 => n - 1 \in DOMAIN run
        BY RunsAre
      <4>2. QED
        BY <1>6, <4>1 DEF Behind, Image
    <3>3. QED
      BY <2>6, <2>7, <3>1, <3>2 DEF KeptIn
  <2>8. QED
    BY <2>3, <2>7
<1>8. QED
  BY <1>1, <1>6, <1>7

\* What leaves of a run, with either redactor.
LEMMA RedactMasks ==
  ASSUME NEW text \in SUBSET Runs, redaction \in {"patterns", "ner"},
         NEW out \in Redact(text), NEW n \in DOMAIN out, out[n].kind \in Direct
  PROVE  KeptIn(out, n)
<1>1. CASE redaction = "patterns"
  <2>1. PICK run \in text : out = RedactPatterns(run)
    BY <1>1 DEF Redact
  <2>2. QED
    BY <2>1, RulesMask DEF Image
<1>2. CASE redaction = "ner"
  <2>1. PICK run \in text : out = RedactNames(run)
    BY <1>2 DEF Redact
  <2> DEFINE masked == RedactPatterns(run)
  <2>2. Image(masked, run)
    BY RulesMask
  <2>3. \A i \in DOMAIN run : run[i].kind \in Direct => KeptIn(masked, i)
    BY RulesMask
  <2>4. out = [i \in DOMAIN masked |->
                 IF masked[i].kind = "name" THEN [masked[i] EXCEPT !.state = "masked"]
                 ELSE masked[i]]
    BY <2>1 DEF RedactNames
  <2> HIDE DEF masked
  <2>5. DOMAIN out = DOMAIN run /\ DOMAIN masked = DOMAIN run
        /\ \A i \in DOMAIN run : out[i].kind = masked[i].kind
    BY <2>2, <2>4 DEF Image, Identifier
  <2>6. out[n] = masked[n]
    BY <2>4, <2>5 DEF Direct, Ibans, Phones
  <2>7. n > 1 => n - 1 \in DOMAIN run
    BY <2>5, RunsAre
  <2>8. n > 1 => out[n - 1].kind = masked[n - 1].kind
    BY <2>5, <2>7
  <2>9. KeptIn(masked, n)
    BY <2>2, <2>3, <2>5, <2>6 DEF Image
  <2>10. QED
    BY <2>6, <2>8, <2>9 DEF KeptIn
<1>3. QED
  BY <1>1, <1>2

Prompt == {Message(r, t) : r \in {"system", "user", "assistant"}, t \in SUBSET Runs}

LEMMA Enclosed ==
  ASSUME NEW S, NEW a \in S, NEW h \in Seq(S), NEW b \in S
  PROVE  <<a>> \o h \o <<b>> \in Seq(S)
OBVIOUS

LEMMA ElementIn ==
  ASSUME NEW S, NEW s \in Seq(S), NEW i \in DOMAIN s
  PROVE  s[i] \in S
OBVIOUS

LEMMA EmptyIn == \A S : <<>> \in Seq(S)
OBVIOUS

LEMMA PairIn ==
  ASSUME NEW S, NEW a \in S, NEW b \in S
  PROVE  <<a, b>> \in Seq(S)
OBVIOUS

LEMMA HistoriesPlain == Histories \subseteq Seq(Prompt)
<1> SUFFICES ASSUME NEW h \in Histories PROVE h \in Seq(Prompt)
  OBVIOUS
<1>1. CASE h = <<>>
  BY <1>1, EmptyIn, Zenon
<1>2. CASE h # <<>>
  <2>1. PICK q \in Texts, a \in Texts : h = <<Message("user", q), Message("assistant", a)>>
    BY <1>2 DEF Histories
  <2>2. Message("user", q) \in Prompt /\ Message("assistant", a) \in Prompt
    BY TextsAssumption DEF Prompt
  <2>3. QED
    BY <2>1, <2>2, PairIn, Zenon
<1>3. QED
  BY <1>1, <1>2

LEMMA MessagesPlain ==
  ASSUME NEW history \in Histories, NEW q \in Texts, NEW n \in Nat, NEW hits \in [1..n -> Texts]
  PROVE  BuildMessages(history, q, hits) \in Seq(Prompt)
<1> DEFINE system == Message("system", IF hits = <<>> THEN Nothing ELSE Context(hits))
           last == Message("user", q)
<1>1. Nothing \in SUBSET Runs /\ Context(hits) \in SUBSET Runs
  BY TextsAssumption DEF Nothing, Context
<1>2. system \in Prompt
  BY <1>1 DEF Prompt
<1>3. last \in Prompt
  BY TextsAssumption DEF Prompt
<1>4. history \in Seq(Prompt)
  BY HistoriesPlain
<1>5. BuildMessages(history, q, hits) = <<system>> \o history \o <<last>>
  BY DEF BuildMessages
<1> HIDE DEF system, last
<1>6. QED
  BY <1>2, <1>3, <1>4, <1>5, Enclosed, Zenon

LEMMA MaskedStaysIn ==
  ASSUME NEW outgoing \in Seq(Prompt), redaction \in {"patterns", "ner"},
         NEW i \in DOMAIN Masked(outgoing), NEW run \in Masked(outgoing)[i].text,
         NEW n \in DOMAIN run, run[n].kind \in Direct
  PROVE  KeptIn(run, n)
<1>1. i \in DOMAIN outgoing /\ Masked(outgoing)[i] = Message(outgoing[i].role, Redact(outgoing[i].text))
  BY DEF Masked
<1>2. outgoing[i] \in Prompt
  BY <1>1, ElementIn, Zenon
<1>3. outgoing[i].text \in SUBSET Runs
  BY <1>2 DEF Prompt, Message
<1>4. run \in Redact(outgoing[i].text)
  BY <1>1 DEF Message
<1>5. QED
  BY <1>3, <1>4, RedactMasks

\* The fields of the call, and what its two properties rest on.
Shape ==
  exchange = [pc |-> exchange.pc, outbound |-> exchange.outbound, server |-> exchange.server,
              generated |-> exchange.generated, pieces |-> exchange.pieces,
              counted |-> exchange.counted]

CallInv ==
  /\ CallTypeOK /\ Shape /\ IdentifiersStayIn
  /\ exchange.pieces = exchange.generated
  /\ exchange.server = "crashed" => exchange.pc = "failed"
  /\ exchange.pc = "finished" => exchange.server = "complete"

LEMMA CallInitial == CallInit => CallInv
BY DEF CallInit, NoCall, CallInv, CallTypeOK, Shape, IdentifiersStayIn

LEMMA PromptLeaves ==
  ASSUME CallInv, StreamChat
  PROVE  IdentifiersStayIn'
<1> SUFFICES ASSUME redaction \in {"patterns", "ner"},
                    NEW i \in DOMAIN exchange'.outbound, NEW run \in exchange'.outbound[i].text,
                    NEW m \in DOMAIN run, run[m].kind \in Direct
             PROVE  KeptIn(run, m)
  BY DEF IdentifiersStayIn, CallInv, CallTypeOK, StreamChat
<1>1. PICK n \in 0..MaxPassages :
        \E hits \in [1..n -> Texts], history \in Histories, q \in Texts :
          exchange' = [exchange EXCEPT !.pc = "streaming",
                                       !.outbound = Masked(BuildMessages(history, q, hits))]
  BY DEF StreamChat
<1>2. PICK hits \in [1..n -> Texts], history \in Histories, q \in Texts :
          exchange' = [exchange EXCEPT !.pc = "streaming",
                                       !.outbound = Masked(BuildMessages(history, q, hits))]
  BY <1>1
<1>3. exchange'.outbound = Masked(BuildMessages(history, q, hits))
  BY <1>2 DEF CallInv, Shape
<1>4. BuildMessages(history, q, hits) \in Seq(Prompt)
  BY MessagesPlain
<1>5. QED
  BY <1>3, <1>4, MaskedStaysIn

\* Text that is read adds to both counts.
LEMMA Longer ==
  ASSUME CallInv, NEW n \in Nat, exchange'.generated = exchange.generated + n,
         exchange'.pieces = exchange.pieces + n, exchange'.outbound = exchange.outbound,
         UNCHANGED <<redaction, wire>>
  PROVE  /\ exchange'.generated \in Nat /\ exchange'.pieces \in Nat
         /\ exchange'.pieces = exchange'.generated
         /\ IdentifiersStayIn'
BY DEF CallInv, CallTypeOK, IdentifiersStayIn

LEMMA CallStep == CallInv /\ [CallNext]_callVars => CallInv'
<1> SUFFICES ASSUME CallInv, [CallNext]_callVars PROVE CallInv'
  OBVIOUS
<1> USE DEF CallInv, CallTypeOK, Shape, Streaming
<1>1. CASE StreamChat
  <2>1. IdentifiersStayIn'
    BY <1>1, PromptLeaves
  <2>2. PICK out : exchange' = [exchange EXCEPT !.pc = "streaming", !.outbound = out]
    BY <1>1 DEF StreamChat
  <2>3. UNCHANGED <<redaction, wire>> /\ exchange.pc = "new"
    BY <1>1 DEF StreamChat
  <2>4. QED
    BY <2>1, <2>2, <2>3
<1>2. CASE ReadDelta
  <2>1. exchange' = [exchange EXCEPT !.generated = exchange.generated + 1,
                                     !.pieces = exchange.pieces + 1]
    BY <1>2 DEF ReadDelta
  <2>2. UNCHANGED <<redaction, wire>> /\ exchange.pc = "streaming"
    BY <1>2 DEF ReadDelta
  <2>3. QED
    BY <2>1, <2>2, Longer
<1>3. CASE ReadFinal
  <2>1. PICK counts \in BOOLEAN, text \in Nat :
          exchange' = [exchange EXCEPT !.server = "complete", !.counted = counts,
                                       !.generated = exchange.generated + text,
                                       !.pieces = exchange.pieces + text,
                                       !.pc = IF wire = "ollama" THEN "finished" ELSE exchange.pc]
    <3>1. 0..1 \subseteq Nat /\ {0} \subseteq Nat
      OBVIOUS
    <3>2. QED
      BY <1>3, <3>1 DEF ReadFinal
  <2>2. UNCHANGED <<redaction, wire>> /\ exchange.pc = "streaming"
    BY <1>3 DEF ReadFinal
  <2>3. QED
    BY <2>1, <2>2, Longer
<1>4. CASE ReadError
  BY <1>4 DEF ReadError, IdentifiersStayIn
<1>5. CASE ProviderError
  BY <1>5 DEF ProviderError, IdentifiersStayIn
<1>6. CASE EndOfBody
  BY <1>6 DEF EndOfBody, IdentifiersStayIn
<1>7. CASE CloseStream
  BY <1>7 DEF CloseStream, IdentifiersStayIn
<1>8. CASE UNCHANGED callVars
  BY <1>8 DEF callVars, IdentifiersStayIn
<1>9. QED
  BY <1>1, <1>2, <1>3, <1>4, <1>5, <1>6, <1>7, <1>8 DEF CallNext

\* The type invariant of a model call.
THEOREM CallTypeCorrect == CallSpec => []CallTypeOK
<1>1. CallInv => CallTypeOK
  BY DEF CallInv
<1>2. QED
  BY <1>1, CallInitial, CallStep, PTL DEF CallSpec

\* With a redactor, no message of a call shows an identifier the rules recognize, but the last
\* character of an IBAN in groups and the rest of a number behind another whose match ends in
\* it, for all prompts (chat/prompts.py, llm/redacting.py, redaction.py).
THEOREM IdentifiersStayInCorrect == CallSpec => []IdentifiersStayIn
<1>1. CallInv => IdentifiersStayIn
  BY DEF CallInv
<1>2. QED
  BY <1>1, CallInitial, CallStep, PTL DEF CallSpec

\* A reply without ProviderError is whole, for replies of every length (llm/ollama.py, llm/azure.py).
THEOREM FinishedIsWholeCorrect == CallSpec => []FinishedIsWhole
<1>1. CallInv => FinishedIsWhole
  BY DEF CallInv, FinishedIsWhole
<1>2. QED
  BY <1>1, CallInitial, CallStep, PTL DEF CallSpec

-----------------------------------------------------------------------------
(* Readiness.                                                              *)

\* Every check of a cached verdict is younger than its stamp, and every check of
\* a running probe younger than the probe.
Verdicts == Seq([ok : BOOLEAN, at : Nat])
Since(s, began) == \A i \in 1..Len(s) : s[i].at >= began

ProbeRecord ==
  [pc : {"new", "checking", "answered"}, began : Nat, checks : Verdicts]

ProbeOK(r) ==
  /\ r.pc = "checking" => r.began <= seconds /\ Since(r.checks, r.began)
  /\ r.pc = "answered" =>
       /\ Len(r.checks) = Len(Deps)
       /\ \A i \in 1..Len(Deps) : r.checks[i].at + ReadyTtl > r.began

CacheOK ==
  cache # <<>> =>
    /\ cache[1].stamp \in Nat /\ cache[1].checks \in Verdicts
    /\ Len(cache[1].checks) = Len(Deps)
    /\ Since(cache[1].checks, cache[1].stamp)

ReadyInv ==
  /\ seconds \in Nat
  /\ probe \in [Probes -> ProbeRecord]
  /\ \A p \in Probes : ProbeOK(probe[p])
  /\ CacheOK

LEMMA OneMore ==
  ASSUME NEW s \in Verdicts, NEW ok \in BOOLEAN, NEW at \in Nat, NEW began \in Nat,
         began <= at, Since(s, began)
  PROVE  /\ Append(s, [ok |-> ok, at |-> at]) \in Verdicts
         /\ Since(Append(s, [ok |-> ok, at |-> at]), began)
<1> DEFINE r == [ok |-> ok, at |-> at]
<1>1. r \in [ok : BOOLEAN, at : Nat] /\ r.at = at
  OBVIOUS
<1> HIDE DEF r
<1>2. Append(s, r) \in Verdicts /\ Len(Append(s, r)) = Len(s) + 1
  BY <1>1 DEF Verdicts
<1>3. ASSUME NEW i \in 1..Len(Append(s, r)) PROVE Append(s, r)[i].at >= began
  <2>1. CASE i \in 1..Len(s)
    BY <2>1 DEF Since, Verdicts
  <2>2. CASE i = Len(s) + 1
    <3>1. Append(s, r)[i] = r
      BY <2>2 DEF Verdicts
    <3>2. QED
      BY <3>1, <1>1
  <2>3. QED
    BY <1>2, <2>1, <2>2 DEF Verdicts
<1>4. QED
  BY <1>2, <1>3 DEF Since, r

LEMMA VerdictAt ==
  ASSUME NEW s \in Verdicts, NEW i \in 1..Len(s)
  PROVE  s[i].at \in Nat
<1>1. i \in DOMAIN s
  BY DEF Verdicts
<1>2. s[i] \in [ok : BOOLEAN, at : Nat]
  BY <1>1, ElementIn, Zenon DEF Verdicts
<1>3. QED
  BY <1>2

\* A step that replaces one record keeps the invariant when the record is right.
LEMMA OneProbe ==
  ASSUME ReadyInv, NEW p \in Probes, NEW r \in ProbeRecord, ProbeOK(r),
         probe' = [probe EXCEPT ![p] = r], UNCHANGED <<seconds, cache>>
  PROVE  ReadyInv'
<1>1. \A q \in Probes : probe'[q] = IF q = p THEN r ELSE probe[q]
  BY DEF ReadyInv
<1>2. \A q \in Probes : ProbeOK(probe[q])'
  BY <1>1 DEF ReadyInv, ProbeOK
<1>3. QED
  BY <1>2 DEF ReadyInv, CacheOK

LEMMA ReadyInitial == ReadyInit => ReadyInv
BY DEF ReadyInit, ReadyInv, ProbeRecord, ProbeOK, CacheOK, Verdicts

LEMMA ReadyStep == ReadyInv /\ [ReadyNext]_readyVars => ReadyInv'
<1> SUFFICES ASSUME ReadyInv, [ReadyNext]_readyVars PROVE ReadyInv'
  OBVIOUS
<1>0. /\ seconds \in Nat /\ probe \in [Probes -> ProbeRecord] /\ CacheOK
      /\ \A p \in Probes : ProbeOK(probe[p])
  BY DEF ReadyInv
<1>1. CASE Second
  BY <1>0, <1>1 DEF Second, ReadyInv, ProbeOK, CacheOK, ProbeRecord
<1>2. ASSUME NEW p \in Probes, Begin(p) PROVE ReadyInv'
  <2>1. CASE cache # <<>> /\ seconds - cache[1].stamp < ReadyTtl
    <3> DEFINE r == [pc |-> "answered", began |-> seconds, checks |-> cache[1].checks]
    <3>1. probe' = [probe EXCEPT ![p] = r] /\ UNCHANGED <<seconds, cache>>
      BY <1>2, <2>1 DEF Begin
    <3>2. r \in ProbeRecord
      BY <1>0, <2>1 DEF ProbeRecord, CacheOK
    <3>3. ASSUME NEW i \in 1..Len(Deps) PROVE r.checks[i].at + ReadyTtl > r.began
      <4>1. cache[1].checks[i].at \in Nat /\ cache[1].checks[i].at >= cache[1].stamp
        BY <1>0, <2>1, VerdictAt DEF CacheOK, Since
      <4>2. QED
        BY <1>0, <2>1, <4>1, ReadyAssumption DEF CacheOK
    <3>4. ProbeOK(r)
      BY <1>0, <2>1, <3>3 DEF ProbeOK, CacheOK
    <3> HIDE DEF r
    <3>5. QED
      BY <1>0, <3>1, <3>2, <3>4, OneProbe
  <2>2. CASE ~(cache # <<>> /\ seconds - cache[1].stamp < ReadyTtl)
    <3> DEFINE r == [pc |-> "checking", began |-> seconds, checks |-> <<>>]
    <3>1. probe' = [probe EXCEPT ![p] = r] /\ UNCHANGED <<seconds, cache>>
      BY <1>2, <2>2 DEF Begin
    <3>2. r \in ProbeRecord /\ ProbeOK(r)
      BY <1>0 DEF ProbeRecord, ProbeOK, Verdicts, Since
    <3> HIDE DEF r
    <3>3. QED
      BY <1>0, <3>1, <3>2, OneProbe
  <2>3. QED
    BY <2>1, <2>2
<1>3. ASSUME NEW p \in Probes, Check(p) PROVE ReadyInv'
  <2>1. PICK ok \in BOOLEAN :
          probe' = [probe EXCEPT ![p].checks =
                      Append(probe[p].checks, [ok |-> ok, at |-> seconds])]
    BY <1>3 DEF Check
  <2> DEFINE s == Append(probe[p].checks, [ok |-> ok, at |-> seconds])
             r == [probe[p] EXCEPT !.checks = s]
  <2>2. probe[p] \in ProbeRecord /\ probe[p].pc = "checking" /\ ProbeOK(probe[p])
    BY <1>0, <1>3 DEF Check
  <2>3. s \in Verdicts /\ Since(s, probe[p].began)
    BY <1>0, <2>2, OneMore DEF ProbeOK, ProbeRecord
  <2> HIDE DEF s
  <2>4. r \in ProbeRecord /\ ProbeOK(r)
    BY <2>2, <2>3 DEF ProbeRecord, ProbeOK
  <2>5. probe' = [probe EXCEPT ![p] = r] /\ UNCHANGED <<seconds, cache>>
    BY <1>0, <1>3, <2>1 DEF Check, s, ProbeRecord
  <2> HIDE DEF r
  <2>6. QED
    BY <1>0, <2>4, <2>5, OneProbe
<1>4. ASSUME NEW p \in Probes, StoreVerdict(p) PROVE ReadyInv'
  <2> DEFINE r == [probe[p] EXCEPT !.pc = "answered"]
             c == [stamp |-> probe[p].began, checks |-> probe[p].checks]
  <2>1. /\ probe[p] \in ProbeRecord /\ probe[p].pc = "checking" /\ ProbeOK(probe[p])
        /\ Len(probe[p].checks) = Len(Deps)
    BY <1>0, <1>4 DEF StoreVerdict
  <2>2. probe' = [probe EXCEPT ![p] = r] /\ cache' = <<c>> /\ seconds' = seconds
    BY <1>0, <1>4 DEF StoreVerdict, Stamp, ProbeRecord
  <2>3. \A i \in 1..Len(Deps) :
          /\ probe[p].checks[i].at \in Nat
          /\ probe[p].checks[i].at >= probe[p].began
    BY <2>1, VerdictAt DEF ProbeRecord, ProbeOK, Since
  <2>4. r \in ProbeRecord /\ ProbeOK(r)
    BY <2>1, <2>3, ReadyAssumption DEF ProbeRecord, ProbeOK
  <2>5. cache'[1] = c
    BY <2>2
  <2>6. CacheOK'
    BY <2>1, <2>5 DEF CacheOK, ProbeRecord, ProbeOK
  <2> HIDE DEF r, c
  <2>7. \A q \in Probes : probe'[q] = IF q = p THEN r ELSE probe[q]
    BY <1>0, <2>2
  <2>8. \A q \in Probes : ProbeOK(probe[q])'
    BY <1>0, <2>2, <2>4, <2>7 DEF ProbeOK
  <2>9. QED
    BY <1>0, <2>2, <2>4, <2>6, <2>8 DEF ReadyInv
<1>5. CASE UNCHANGED readyVars
  BY <1>0, <1>5 DEF readyVars, ReadyInv, ProbeOK, CacheOK
<1>6. QED
  BY <1>1, <1>2, <1>3, <1>4, <1>5 DEF ReadyNext

\* The verdict of a probe rests on checks younger than the cache allows, for every number of
\* probes and dependencies and every life of the cache (routes/health.py).
THEOREM ReadinessIsRecentCorrect == ReadySpec => []ReadinessIsRecent
<1>1. ReadyInv => ReadinessIsRecent
  BY DEF ReadyInv, ProbeOK, ReadinessIsRecent
<1>2. QED
  BY <1>1, ReadyInitial, ReadyStep, PTL DEF ReadySpec

-----------------------------------------------------------------------------
(* Authentication.                                                         *)

\* Published now, or retired no earlier than t.
Known(k, t) == k \in published \/ (lastPublished[k] >= 0 /\ lastPublished[k] >= t)

CallRecord ==
  [pc : {"new", "arrived", "fetch", "refetch", "accepted", "refused"}, cred : Credentials,
   since : Nat, reply : {<<>>} \cup {<<ks>> : ks \in SUBSET Kids}, steady : BOOLEAN]

\* A key set on its way holds keys that were published after the fetch began; it
\* holds the key of a token whose key was published all along.
RequestOK(c) ==
  /\ c.pc \in Fetching =>
       /\ c.cred.scheme = "jwt" /\ c.since <= clock /\ clock <= c.since + Latency
       /\ c.reply # <<>> => \A k \in c.reply[1] : Known(k, c.since)
       /\ c.reply # <<>> /\ c.steady => c.cred.kid \in c.reply[1]
  /\ c.steady => c.cred.scheme = "jwt" /\ c.cred.kid \in published
  /\ c.pc = "refused" /\ c.cred.scheme = "jwt" /\ c.steady => c.cred.good = FALSE

\* The cached keys were published when their fetch was under way.
JwksOK ==
  jwks # <<>> => /\ fetchedAt \in Nat /\ fetchedAt <= clock
                 /\ \A k \in jwks[1] : Known(k, fetchedAt - Latency)

AuthTypes ==
  /\ clock \in Nat /\ published \subseteq Kids /\ lastPublished \in [Kids -> Int]
  /\ jwks \in {<<>>} \cup {<<ks>> : ks \in SUBSET Kids}
  /\ call \in [AuthRequests -> CallRecord]

AuthInv == AuthTypes /\ JwksOK /\ \A r \in AuthRequests : RequestOK(call[r])

LEMMA AuthInitial == AuthInit => AuthInv
<1> SUFFICES ASSUME AuthInit PROVE AuthInv
  OBVIOUS
<1>1. [scheme |-> "none"] \in Credentials
  BY DEF Credentials
<1>2. AuthTypes
  BY <1>1, AuthAssumption DEF AuthInit, AuthTypes, CallRecord
<1>3. JwksOK /\ \A r \in AuthRequests : RequestOK(call[r])
  BY DEF AuthInit, JwksOK, RequestOK, Fetching
<1>4. QED
  BY <1>2, <1>3 DEF AuthInv

LEMMA GoodIsBoolean ==
  ASSUME NEW cred \in Credentials, cred.scheme = "jwt"
  PROVE  cred \in Tokens /\ cred.good \in BOOLEAN /\ cred.kid \in Kids
BY DEF Credentials, Tokens

\* A step of one request.
LEMMA OneRequest ==
  ASSUME AuthInv, NEW r \in AuthRequests, NEW c \in CallRecord, RequestOK(c),
         call' = [call EXCEPT ![r] = c], UNCHANGED <<clock, published, lastPublished>>,
         jwks' \in {<<>>} \cup {<<ks>> : ks \in SUBSET Kids}, JwksOK'
  PROVE  AuthInv'
<1>1. AuthTypes'
  BY DEF AuthInv, AuthTypes
<1>2. \A q \in AuthRequests : call'[q] = IF q = r THEN c ELSE call[q]
  BY DEF AuthInv, AuthTypes
<1>3. \A q \in AuthRequests : RequestOK(call[q])'
  BY <1>2 DEF AuthInv, RequestOK, Known
<1>4. QED
  BY <1>1, <1>3 DEF AuthInv

\* What becomes of a request that is settled, or goes on to fetch.
LEMMA SettledOK ==
  ASSUME AuthInv, NEW r \in AuthRequests, NEW keys \in SUBSET Kids,
         call[r].steady => call[r].cred.kid \in keys
  PROVE  LET c == Goto(r, Settled(call[r].cred, keys)) IN c \in CallRecord /\ RequestOK(c)
<1> DEFINE c == Goto(r, Settled(call[r].cred, keys))
           cred == call[r].cred
<1>1. call[r] \in CallRecord /\ RequestOK(call[r]) /\ cred \in Credentials
  BY DEF AuthInv, AuthTypes, CallRecord
<1>2. Settled(cred, keys) \in {"accepted", "refused"}
  BY DEF Settled, ByApiKey
<1>3. Settled(cred, keys) = "refused" /\ cred.scheme = "jwt" /\ cred.kid \in keys => cred.good = FALSE
  BY <1>1, GoodIsBoolean DEF Settled
<1>4. /\ c.pc = Settled(cred, keys) /\ c.cred = cred /\ c.steady = call[r].steady
      /\ c.reply = <<>> /\ c \in CallRecord
  BY <1>1, <1>2 DEF Goto, Fetching, CallRecord
<1> HIDE DEF c
<1>5. RequestOK(c)
  BY <1>1, <1>2, <1>3, <1>4 DEF RequestOK, Fetching
<1>6. QED
  BY <1>4, <1>5 DEF c

LEMMA FetchOK ==
  ASSUME AuthInv, NEW r \in AuthRequests, NEW label \in Fetching, call[r].cred.scheme = "jwt"
  PROVE  Goto(r, label) \in CallRecord /\ RequestOK(Goto(r, label))
<1> DEFINE c == Goto(r, label)
<1>1. call[r] \in CallRecord /\ RequestOK(call[r]) /\ clock \in Nat
  BY DEF AuthInv, AuthTypes
<1>2. /\ c.pc = label /\ c.cred = call[r].cred /\ c.steady = call[r].steady
      /\ c.reply = <<>> /\ c.since = clock /\ c \in CallRecord
  BY <1>1 DEF Goto, Fetching, CallRecord
<1> HIDE DEF c
<1>3. RequestOK(c)
  BY <1>1, <1>2, AuthAssumption DEF RequestOK, Fetching
<1>4. QED
  BY <1>2, <1>3 DEF c

\* A request without a token that needs its key: the API keys decide.
LEMMA ByKeyOK ==
  ASSUME AuthInv, NEW r \in AuthRequests, call[r].cred.scheme # "jwt"
  PROVE  RequestOK(Goto(r, ByApiKey(call[r].cred)))
<1> DEFINE c == Goto(r, ByApiKey(call[r].cred))
<1>1. call[r] \in CallRecord /\ RequestOK(call[r])
  BY DEF AuthInv, AuthTypes
<1>2. ByApiKey(call[r].cred) \in {"accepted", "refused"}
  BY DEF ByApiKey
<1>3. c.pc \notin Fetching /\ c.cred = call[r].cred /\ c.steady = call[r].steady
  BY <1>1, <1>2 DEF Goto, Fetching, CallRecord
<1> HIDE DEF c
<1>4. RequestOK(c)
  BY <1>1, <1>3 DEF RequestOK
<1>5. QED
  BY <1>4 DEF c

LEMMA AuthStep == AuthInv /\ [AuthNext]_authVars => AuthInv'
<1> SUFFICES ASSUME AuthInv, [AuthNext]_authVars PROVE AuthInv'
  OBVIOUS
<1>0. AuthTypes /\ JwksOK /\ \A r \in AuthRequests : RequestOK(call[r])
  BY DEF AuthInv
<1>1. CASE AuthTick
  <2>1. AuthTypes' /\ JwksOK'
    BY <1>0, <1>1 DEF AuthTick, AuthTypes, JwksOK, Known
  <2>2. ASSUME NEW r \in AuthRequests PROVE RequestOK(call[r])'
    <3>1. call[r] \in CallRecord /\ RequestOK(call[r])
      BY <1>0 DEF AuthTypes
    <3>2. call[r].pc \in Fetching => clock - call[r].since < Latency
      BY <1>1 DEF AuthTick
    <3>3. UNCHANGED <<published, lastPublished, call>> /\ clock' = clock + 1 /\ clock \in Nat
      BY <1>0, <1>1 DEF AuthTick, AuthTypes
    <3>4. QED
      BY <3>1, <3>2, <3>3, AuthAssumption DEF RequestOK, Known, CallRecord
  <2>3. QED
    BY <2>1, <2>2 DEF AuthInv
<1>2. ASSUME NEW k \in Kids, Publish(k) PROVE AuthInv'
  <2>1. published' = published \cup {k} /\ UNCHANGED <<clock, lastPublished, jwks, fetchedAt, call>>
    BY <1>2 DEF Publish
  <2>2. AuthTypes' /\ JwksOK'
    BY <1>0, <2>1 DEF AuthTypes, JwksOK, Known
  <2>3. \A r \in AuthRequests : RequestOK(call[r])'
    BY <1>0, <2>1 DEF RequestOK, Known
  <2>4. QED
    BY <2>2, <2>3 DEF AuthInv
<1>3. ASSUME NEW k \in Kids, Retire(k) PROVE AuthInv'
  <2>1. /\ published' = published \ {k} /\ lastPublished' = [lastPublished EXCEPT ![k] = clock]
        /\ UNCHANGED <<clock, jwks, fetchedAt>>
        /\ call' = [r \in AuthRequests |->
                      IF call[r].cred.scheme = "jwt" /\ call[r].cred.kid = k
                      THEN [call[r] EXCEPT !.steady = FALSE] ELSE call[r]]
    BY <1>3 DEF Retire
  <2>2. clock \in Nat /\ lastPublished \in [Kids -> Int]
    BY <1>0 DEF AuthTypes
  <2>3. ASSUME NEW j \in Kids, NEW t \in Int, Known(j, t), t <= clock PROVE Known(j, t)'
    BY <2>1, <2>2, <2>3 DEF Known
  <2>4. AuthTypes'
    <3>1. \A r \in AuthRequests : call[r] \in CallRecord
      BY <1>0 DEF AuthTypes
    <3>2. \A r \in AuthRequests : [call[r] EXCEPT !.steady = FALSE] \in CallRecord
      BY <3>1 DEF CallRecord
    <3>3. call' \in [AuthRequests -> CallRecord]
      BY <2>1, <3>1, <3>2
    <3>4. QED
      BY <1>0, <2>1, <3>3 DEF AuthTypes
  <2>5. JwksOK'
    <3>1. SUFFICES ASSUME jwks # <<>>, NEW j \in jwks[1] PROVE Known(j, fetchedAt - Latency)'
      BY <1>0, <2>1 DEF JwksOK
    <3>2. j \in Kids /\ fetchedAt \in Nat /\ fetchedAt <= clock /\ Known(j, fetchedAt - Latency)
      BY <1>0, <3>1 DEF AuthTypes, JwksOK
    <3>3. fetchedAt - Latency \in Int /\ fetchedAt - Latency <= clock
      BY <2>2, <3>2, AuthAssumption
    <3>4. Known(j, fetchedAt - Latency)'
      BY <2>1, <2>2, <3>2, <3>3, AuthAssumption DEF Known
    <3>5. QED
      BY <3>4
  <2>6. ASSUME NEW r \in AuthRequests PROVE RequestOK(call[r])'
    <3>1. call[r] \in CallRecord /\ RequestOK(call[r])
      BY <1>0 DEF AuthTypes
    <3>2. /\ call'[r] \in CallRecord /\ call'[r].pc = call[r].pc /\ call'[r].cred = call[r].cred
          /\ call'[r].since = call[r].since /\ call'[r].reply = call[r].reply
          /\ call'[r].steady =>
               call[r].steady /\ ~(call[r].cred.scheme = "jwt" /\ call[r].cred.kid = k)
      BY <2>1, <3>1 DEF CallRecord
    <3>3. ASSUME call[r].pc \in Fetching, call[r].reply # <<>>, NEW j \in call[r].reply[1]
          PROVE  Known(j, call[r].since)'
      <4>1. j \in Kids /\ call[r].since \in Int /\ call[r].since <= clock /\ Known(j, call[r].since)
        BY <3>1, <3>3 DEF CallRecord, RequestOK
      <4>2. QED
        BY <2>1, <2>2, <3>2, <4>1 DEF Known
    <3>4. call'[r].steady => call'[r].cred.scheme = "jwt" /\ call'[r].cred.kid \in published'
      BY <2>1, <3>1, <3>2 DEF RequestOK
    <3>5. QED
      BY <2>1, <3>1, <3>2, <3>3, <3>4 DEF RequestOK
  <2>7. QED
    BY <2>4, <2>5, <2>6 DEF AuthInv
<1>4. ASSUME NEW r \in AuthRequests, Arrive(r) PROVE AuthInv'
  <2>1. PICK cred \in Credentials :
          call' = [call EXCEPT ![r] = [call[r] EXCEPT !.pc = "arrived", !.cred = cred,
                     !.steady = cred.scheme = "jwt" /\ cred.kid \in published]]
    BY <1>0, <1>4 DEF Arrive, AuthTypes
  <2> DEFINE c == [call[r] EXCEPT !.pc = "arrived", !.cred = cred,
                     !.steady = cred.scheme = "jwt" /\ cred.kid \in published]
  <2>2. call[r] \in CallRecord
    BY <1>0 DEF AuthTypes
  <2>3. c \in CallRecord /\ RequestOK(c)
    BY <2>2 DEF CallRecord, RequestOK, Fetching
  <2>4. UNCHANGED <<clock, published, lastPublished, jwks, fetchedAt>>
    BY <1>4 DEF Arrive
  <2>5. JwksOK' /\ jwks' \in {<<>>} \cup {<<ks>> : ks \in SUBSET Kids}
    BY <1>0, <2>4 DEF JwksOK, Known, AuthTypes
  <2> HIDE DEF c
  <2>6. call' = [call EXCEPT ![r] = c]
    BY <2>1 DEF c
  <2>7. QED
    BY <2>3, <2>4, <2>5, <2>6, OneRequest
<1>5. ASSUME NEW r \in AuthRequests, Lookup(r) PROVE AuthInv'
  <2> DEFINE cred == call[r].cred
             label == IF cred.scheme # "jwt" THEN ByApiKey(cred)
                      ELSE IF ~Fresh THEN "fetch"
                      ELSE IF cred.kid \notin jwks[1] /\ Rotated(r) THEN "refetch"
                      ELSE Settled(cred, jwks[1])
  <2>1. call' = [call EXCEPT ![r] = Goto(r, label)]
    BY <1>5 DEF Lookup
  <2>2. UNCHANGED <<clock, published, lastPublished, jwks, fetchedAt>>
    BY <1>5 DEF Lookup
  <2>3. JwksOK' /\ jwks' \in {<<>>} \cup {<<ks>> : ks \in SUBSET Kids}
    BY <1>0, <2>2 DEF JwksOK, Known, AuthTypes
  <2>4. Goto(r, label) \in CallRecord /\ RequestOK(Goto(r, label))
    <3>1. CASE cred.scheme # "jwt"
      <4>1. label = ByApiKey(cred) /\ label \in {"accepted", "refused"}
        BY <3>1 DEF ByApiKey
      <4>2. Goto(r, label) \in CallRecord
        BY <1>0, <4>1 DEF AuthTypes, Goto, Fetching, CallRecord
      <4>3. QED
        BY <3>1, <4>1, <4>2, ByKeyOK
    <3>2. CASE cred.scheme = "jwt" /\ ~Fresh
      BY <3>2, FetchOK DEF Fetching
    <3>3. CASE cred.scheme = "jwt" /\ Fresh /\ cred.kid \notin jwks[1]
      BY <3>3, FetchOK DEF Fetching, Rotated
    <3>4. CASE cred.scheme = "jwt" /\ Fresh /\ cred.kid \in jwks[1]
      <4>1. jwks[1] \in SUBSET Kids
        BY <1>0, <3>4 DEF AuthTypes, Fresh
      <4>2. label = Settled(cred, jwks[1])
        BY <3>4
      <4>3. QED
        BY <3>4, <4>1, <4>2, SettledOK
    <3>5. QED
      BY <3>1, <3>2, <3>3, <3>4
  <2> HIDE DEF label
  <2>5. QED
    BY <2>1, <2>2, <2>3, <2>4, OneRequest
<1>6. ASSUME NEW r \in AuthRequests, ProviderAnswers(r) PROVE AuthInv'
  <2> DEFINE c == [call[r] EXCEPT !.reply = <<published>>]
  <2>1. call[r] \in CallRecord /\ RequestOK(call[r]) /\ call[r].pc \in Fetching
    BY <1>0, <1>6 DEF AuthTypes, ProviderAnswers
  <2>2. /\ c \in CallRecord /\ c.reply[1] = published /\ c.pc = call[r].pc
        /\ c.cred = call[r].cred /\ c.since = call[r].since /\ c.steady = call[r].steady
    BY <1>0, <2>1 DEF CallRecord, AuthTypes
  <2>3. call' = [call EXCEPT ![r] = c] /\ UNCHANGED <<clock, published, lastPublished, jwks, fetchedAt>>
    BY <1>0, <1>6 DEF ProviderAnswers, AuthTypes
  <2> HIDE DEF c
  <2>4. RequestOK(c)
    BY <2>1, <2>2 DEF RequestOK, Known
  <2>5. JwksOK' /\ jwks' \in {<<>>} \cup {<<ks>> : ks \in SUBSET Kids}
    BY <1>0, <2>3 DEF JwksOK, Known, AuthTypes
  <2>6. QED
    BY <2>2, <2>3, <2>4, <2>5, OneRequest
<1>7. ASSUME NEW r \in AuthRequests, FetchDone(r) PROVE AuthInv'
  <2> DEFINE cred == call[r].cred
             keys == call[r].reply[1]
             label == IF cred.kid \notin keys /\ call[r].pc = "fetch" /\ Rotated(r) THEN "refetch"
                      ELSE Settled(cred, keys)
  <2>1. /\ call[r] \in CallRecord /\ RequestOK(call[r]) /\ call[r].pc \in Fetching
        /\ call[r].reply # <<>>
    BY <1>0, <1>7 DEF AuthTypes, FetchDone
  <2>2. /\ call' = [call EXCEPT ![r] = Goto(r, label)] /\ jwks' = call[r].reply /\ fetchedAt' = clock
        /\ UNCHANGED <<clock, published, lastPublished>>
    BY <1>7 DEF FetchDone
  <2>3. keys \in SUBSET Kids /\ jwks' = <<keys>> /\ jwks'[1] = keys
    BY <2>1, <2>2 DEF CallRecord
  <2>4. JwksOK'
    <3>1. SUFFICES ASSUME NEW k \in keys PROVE Known(k, clock - Latency)
      BY <1>0, <2>2, <2>3 DEF JwksOK, Known, AuthTypes
    <3>2. Known(k, call[r].since) /\ clock - Latency <= call[r].since /\ k \in Kids
      BY <1>0, <2>1, <2>3, AuthAssumption DEF RequestOK, CallRecord, AuthTypes
    <3>3. QED
      BY <1>0, <2>1, <3>2, AuthAssumption DEF Known, AuthTypes, CallRecord
  <2>5. Goto(r, label) \in CallRecord /\ RequestOK(Goto(r, label))
    <3>1. call[r].steady => cred.kid \in keys
      BY <2>1 DEF RequestOK
    <3>2. CASE label = "refetch"
      BY <2>1, <3>2, FetchOK DEF RequestOK, Fetching
    <3>3. CASE label = Settled(cred, keys)
      BY <2>3, <3>1, <3>3, SettledOK
    <3>4. QED
      BY <3>2, <3>3
  <2> HIDE DEF label
  <2>6. QED
    BY <2>2, <2>3, <2>4, <2>5, OneRequest
<1>8. ASSUME NEW r \in AuthRequests, FetchFails(r) PROVE AuthInv'
  <2> DEFINE c == [Goto(r, ByApiKey(call[r].cred)) EXCEPT !.steady = FALSE]
  <2>1. call' = [call EXCEPT ![r] = c] /\ UNCHANGED <<clock, published, lastPublished, jwks, fetchedAt>>
    BY <1>8 DEF FetchFails
  <2>2. ByApiKey(call[r].cred) \in {"accepted", "refused"}
    BY DEF ByApiKey
  <2>3. c \in CallRecord /\ c = [Goto(r, ByApiKey(call[r].cred)) EXCEPT !.steady = FALSE]
    BY <1>0, <2>2 DEF AuthTypes, Goto, Fetching, CallRecord
  <2> HIDE DEF c
  <2>4. RequestOK(c)
    <3>1. call[r] \in CallRecord
      BY <1>0 DEF AuthTypes
    <3>2. c.pc \notin Fetching /\ c.steady = FALSE
      BY <2>2, <2>3, <3>1 DEF Goto, Fetching, CallRecord
    <3>3. QED
      BY <3>2 DEF RequestOK
  <2>5. JwksOK' /\ jwks' \in {<<>>} \cup {<<ks>> : ks \in SUBSET Kids}
    BY <1>0, <2>1 DEF JwksOK, Known, AuthTypes
  <2>6. QED
    BY <2>1, <2>3, <2>4, <2>5, OneRequest
<1>9. CASE UNCHANGED authVars
  BY <1>0, <1>9 DEF authVars, AuthInv, AuthTypes, JwksOK, RequestOK, Known
<1>10. QED
  BY <1>1, <1>2, <1>3, <1>4, <1>5, <1>6, <1>7, <1>8, <1>9 DEF AuthNext

\* A good token whose key is published all along is accepted unless a fetch fails, for every
\* number of requests and keys and every life of the cache (auth_oidc.py).
THEOREM PublishedIsAcceptedCorrect == AuthSpec => []PublishedIsAccepted
<1>1. AuthInv => PublishedIsAccepted
  BY DEF AuthInv, RequestOK, PublishedIsAccepted
<1>2. QED
  BY <1>1, AuthInitial, AuthStep, PTL DEF AuthSpec

\* A token is accepted only while its key is published or for one life of the cache and one fetch
\* after, whatever order the key sets of concurrent requests arrive in (auth_oidc.py:46-60).
THEOREM AcceptedWasPublishedCorrect == AuthSpec => AcceptedWasPublished
<1> DEFINE Justified(r) ==
             LET k == call[r].cred.kid IN
             call[r].cred.scheme = "jwt" /\ call[r].pc # "accepted" /\ call'[r].pc = "accepted" =>
               \/ k \in published
               \/ lastPublished[k] >= 0 /\ clock - lastPublished[k] <= Ttl + Latency
<1>1. AuthInv /\ [AuthNext]_authVars => [\A r \in AuthRequests : Justified(r)]_authVars
  <2> SUFFICES ASSUME AuthInv, AuthNext, NEW q \in AuthRequests,
                      call[q].cred.scheme = "jwt", call[q].pc # "accepted",
                      call'[q].pc = "accepted"
               PROVE  \/ call[q].cred.kid \in published
                      \/ /\ lastPublished[call[q].cred.kid] >= 0
                         /\ clock - lastPublished[call[q].cred.kid] <= Ttl + Latency
    OBVIOUS
  <2>0. /\ AuthTypes /\ JwksOK /\ call \in [AuthRequests -> CallRecord]
        /\ \A r \in AuthRequests : call[r] \in CallRecord /\ RequestOK(call[r])
    BY DEF AuthInv, AuthTypes
  <2>1. PICK r \in AuthRequests :
          Arrive(r) \/ Lookup(r) \/ ProviderAnswers(r) \/ FetchDone(r) \/ FetchFails(r)
    <3>1. ~AuthTick
      BY DEF AuthTick
    <3>2. ASSUME NEW k \in Kids PROVE ~Publish(k)
      BY DEF Publish
    <3>3. ASSUME NEW k \in Kids PROVE ~Retire(k)
      BY <2>0 DEF Retire, CallRecord
    <3>4. QED
      BY <3>1, <3>2, <3>3 DEF AuthNext
  <2>2. \A c : call' = [call EXCEPT ![r] = c] => r = q /\ call'[r] = c
    BY <2>0
  <2>3. ~Arrive(r) /\ ~ProviderAnswers(r)
    <3>1. call[r] \in CallRecord
      BY <2>0
    <3>2. ASSUME Arrive(r) PROVE FALSE
      <4>1. PICK cred : call' = [call EXCEPT ![r] = [call[r] EXCEPT !.pc = "arrived", !.cred = cred,
                     !.steady = cred.scheme = "jwt" /\ cred.kid \in published]]
        BY <2>0, <3>2 DEF Arrive
      <4>2. r = q /\ call'[r] = [call[r] EXCEPT !.pc = "arrived", !.cred = cred,
                     !.steady = cred.scheme = "jwt" /\ cred.kid \in published]
        BY <2>2, <4>1
      <4>3. QED
        BY <3>1, <4>2 DEF CallRecord
    <3>3. ASSUME ProviderAnswers(r) PROVE FALSE
      <4>1. call' = [call EXCEPT ![r] = [call[r] EXCEPT !.reply = <<published>>]]
        BY <2>0, <3>3 DEF ProviderAnswers
      <4>2. r = q /\ call'[r] = [call[r] EXCEPT !.reply = <<published>>]
        BY <2>2, <4>1
      <4>3. QED
        BY <3>1, <4>2 DEF CallRecord
    <3>4. QED
      BY <3>2, <3>3
  <2>4. ByApiKey(call[q].cred) = "refused"
    BY <2>0 DEF ByApiKey
  <2>5. ~FetchFails(r)
    <3>1. SUFFICES ASSUME FetchFails(r) PROVE FALSE
      OBVIOUS
    <3>2. r = q /\ call'[r] = [Goto(r, ByApiKey(call[r].cred)) EXCEPT !.steady = FALSE]
      BY <2>2, <3>1 DEF FetchFails
    <3>3. QED
      BY <2>0, <2>4, <3>2 DEF Goto, CallRecord
  <2>6. CASE Lookup(r)
    <3>1. r = q
      BY <2>2, <2>6 DEF Lookup
    <3>2. Fresh /\ call[q].cred.kid \in jwks[1]
      BY <2>0, <2>2, <2>4, <2>6, <3>1 DEF Lookup, Goto, CallRecord, Rotated, Settled
    <3>3. /\ Known(call[q].cred.kid, fetchedAt - Latency) /\ fetchedAt \in Nat
          /\ clock - fetchedAt <= Ttl /\ call[q].cred.kid \in Kids
      BY <2>0, <3>2 DEF Fresh, JwksOK, AuthTypes
    <3>4. QED
      BY <2>0, <3>3, AuthAssumption DEF Known, AuthTypes
  <2>7. CASE FetchDone(r)
    <3>1. r = q
      BY <2>2, <2>7 DEF FetchDone
    <3>2. /\ call[q].pc \in Fetching /\ call[q].reply # <<>>
          /\ call[q].cred.kid \in call[q].reply[1]
      BY <2>0, <2>2, <2>4, <2>7, <3>1 DEF FetchDone, Goto, CallRecord, Rotated, Settled
    <3>3. /\ Known(call[q].cred.kid, call[q].since) /\ call[q].since \in Nat
          /\ clock <= call[q].since + Latency /\ call[q].cred.kid \in Kids
      BY <2>0, <3>2 DEF RequestOK, CallRecord
    <3>4. QED
      BY <2>0, <3>3, AuthAssumption DEF Known, AuthTypes
  <2>8. QED
    BY <2>1, <2>3, <2>5, <2>6, <2>7
<1>2. QED
  BY <1>1, AuthInitial, AuthStep, PTL DEF AuthSpec, AcceptedWasPublished

-----------------------------------------------------------------------------
(* Conversations.                                                          *)

RowRecord ==
  [turn : Questions, chat : Chats, topic : Topics, role : {"user", "assistant"},
   sources : {"empty", "found"}, error : BOOLEAN, day : Nat]

Asked(i) == messages[i].role = "user"
SameChat(i, j) == messages[i].chat = messages[j].chat
SameTurn(i, j) == messages[i].turn = messages[j].turn

\* Row j is the last question of a conversation as of row i.
LastAsked(j, i) ==
  /\ j \in 1..i /\ Asked(j) /\ SameChat(i, j)
  /\ \A k \in 1..i : Asked(k) /\ SameChat(i, k) => k <= j

\* The turns and their rows.
TurnOK(q) ==
  /\ turn[q].pc = "new" =>
       ~Open(q) /\ \A i \in DOMAIN messages : messages[i].turn # q
  /\ turn[q].pc # "new" => turn[q].chat \in Chats /\ turn[q].topic \in Topics
  /\ turn[q].pc = "asked" =>
       /\ Open(q)
       /\ \E j \in DOMAIN messages :
            /\ Asked(j) /\ messages[j].turn = q /\ messages[j].chat = turn[q].chat
            /\ \A k \in DOMAIN messages :
                 Asked(k) /\ messages[k].chat = turn[q].chat => k <= j

AnswerOK(i) ==
  messages[i].role = "assistant" => \E j \in DOMAIN messages : SameTurn(i, j) /\ LastAsked(j, i)

TurnState ==
  /\ DOMAIN turn = Questions
  /\ \A q \in Questions : turn[q].pc \in {"new", "asked", "answered", "lost"}

TableInv ==
  /\ messages \in Seq(RowRecord) /\ day \in Nat /\ TurnState
  /\ \A q \in Questions : TurnOK(q)
  /\ \A i, j \in DOMAIN messages : Asked(i) /\ Asked(j) /\ SameTurn(i, j) => i = j
  /\ \A i \in DOMAIN messages : AnswerOK(i)

\* The invariant gives the property: a row has one last question, and one of its turn.
LEMMA JoinIsByTurn ==
  ASSUME TableInv, NEW i \in DOMAIN messages, messages[i].role = "assistant"
  PROVE  /\ QuestionsUpTo(i) # {}
         /\ Last(QuestionsUpTo(i)) =
              CHOOSE j \in DOMAIN messages :
                messages[j].role = "user" /\ messages[j].turn = messages[i].turn
<1>1. PICK j \in DOMAIN messages : SameTurn(i, j) /\ LastAsked(j, i)
  BY DEF TableInv, AnswerOK
<1>2. i \in Nat /\ 1..i \subseteq DOMAIN messages
  BY DEF TableInv
<1>3. j \in QuestionsUpTo(i) /\ \A k \in QuestionsUpTo(i) : k <= j /\ k \in Nat
  BY <1>1, <1>2 DEF LastAsked, Asked, SameChat, QuestionsUpTo
<1>4. \A l \in QuestionsUpTo(i) : (\A k \in QuestionsUpTo(i) : k <= l) <=> l = j
  BY <1>3
<1>5. Last(QuestionsUpTo(i)) = j
  BY <1>3, <1>4 DEF Last
<1>6. \A l \in DOMAIN messages :
        messages[l].role = "user" /\ messages[l].turn = messages[i].turn <=> l = j
  BY <1>1 DEF TableInv, LastAsked, Asked, SameTurn
<1>7. (CHOOSE l \in DOMAIN messages :
         messages[l].role = "user" /\ messages[l].turn = messages[i].turn) = j
  BY <1>6
<1>8. QED
  BY <1>3, <1>5, <1>7

LEMMA TableImplies == TableInv => UnansweredIsByRequest
<1> SUFFICES ASSUME TableInv PROVE Joined = Produced
  BY DEF UnansweredIsByRequest, Unanswered
<1>1. \A i \in Unsourced : i \in DOMAIN messages /\ messages[i].role = "assistant"
  BY DEF Unsourced
<1>2. {k \in Unsourced : QuestionsUpTo(k) # {}} = Unsourced
  BY <1>1, JoinIsByTurn
<1>3. QED
  BY <1>1, <1>2, JoinIsByTurn DEF Joined, Produced

LEMMA TableInitial == TableInit => TableInv
<1> SUFFICES ASSUME TableInit PROVE TableInv
  OBVIOUS
<1>1. messages = <<>> /\ day = 0 /\ DOMAIN messages = {} /\ messages \in Seq(RowRecord)
  BY EmptyIn DEF TableInit
<1>2. DOMAIN turn = Questions /\ \A q \in Questions : turn[q] = [pc |-> "new", open |-> FALSE]
  BY DEF TableInit, NoTurns
<1>3. TurnState
  BY <1>2 DEF TurnState
<1>4. \A q \in Questions : TurnOK(q)
  BY <1>1, <1>2 DEF TurnOK, Open
<1>5. QED
  BY <1>1, <1>3, <1>4 DEF TableInv

\* A row is appended: those before it stay.
LEMMA Appended ==
  ASSUME TableInv, NEW row \in RowRecord, messages' = Append(messages, row)
  PROVE  /\ messages' \in Seq(RowRecord)
         /\ DOMAIN messages' = 1..(Len(messages) + 1) /\ DOMAIN messages = 1..Len(messages)
         /\ Len(messages) \in Nat
         /\ \A i \in DOMAIN messages : messages'[i] = messages[i]
         /\ messages'[Len(messages) + 1] = row
BY DEF TableInv

\* What was true of the rows before it stays true of them.
LEMMA OldAnswers ==
  ASSUME TableInv, NEW row \in RowRecord, messages' = Append(messages, row),
         NEW i \in DOMAIN messages
  PROVE  AnswerOK(i)'
<1> DEFINE n == Len(messages) + 1
<1>1. /\ DOMAIN messages' = 1..n /\ DOMAIN messages = 1..Len(messages) /\ Len(messages) \in Nat
      /\ \A k \in DOMAIN messages : messages'[k] = messages[k]
  BY Appended
<1>2. SUFFICES ASSUME messages'[i].role = "assistant"
               PROVE  \E j \in DOMAIN messages' : SameTurn(i, j)' /\ LastAsked(j, i)'
  BY DEF AnswerOK
<1>3. PICK j \in DOMAIN messages : SameTurn(i, j) /\ LastAsked(j, i)
  BY <1>1, <1>2 DEF TableInv, AnswerOK
<1>4. \A k \in 1..i : messages'[k] = messages[k]
  BY <1>1
<1>5. LastAsked(j, i)' /\ SameTurn(i, j)'
  BY <1>1, <1>3, <1>4 DEF LastAsked, SameTurn, Asked, SameChat
<1>6. QED
  BY <1>1, <1>5

LEMMA QuestionKeeps ==
  ASSUME OneTab, TableInv, NEW q \in Questions, InsertQuestion(q)
  PROVE  TableInv'
<1>0. PICK n \in Nat : n = Len(messages) + 1
  BY DEF TableInv
<1>1. PICK c \in Chats, t \in Topics :
        /\ \A p \in Questions : Open(p) => turn[p].chat # c
        /\ messages' = Append(messages, Row(q, c, t, "user", "empty", FALSE))
        /\ turn' = [turn EXCEPT ![q] = [pc |-> "asked", open |-> TRUE, chat |-> c, topic |-> t]]
  BY DEF InsertQuestion
<1> DEFINE row == Row(q, c, t, "user", "empty", FALSE)
<1>2. row \in RowRecord /\ row.turn = q /\ row.chat = c /\ row.role = "user"
  BY DEF Row, RowRecord, TableInv
<1> HIDE DEF row
<1>3. /\ messages' \in Seq(RowRecord) /\ DOMAIN messages' = 1..n /\ DOMAIN messages = 1..Len(messages)
      /\ Len(messages) \in Nat /\ n = Len(messages) + 1 /\ messages'[n] = row
      /\ \A i \in DOMAIN messages : messages'[i] = messages[i]
  BY <1>0, <1>1, <1>2, Appended DEF row
<1>4. turn[q].pc = "new" /\ day' = day /\ DOMAIN turn = Questions
  BY DEF InsertQuestion, TableInv, TurnState
<1>5. /\ turn'[q].pc = "asked" /\ turn'[q].open = TRUE /\ turn'[q].chat = c /\ turn'[q].topic = t
      /\ DOMAIN turn' = Questions /\ \A p \in Questions : p # q => turn'[p] = turn[p]
  BY <1>1, <1>4
<1>6. TurnState'
  BY <1>5 DEF TurnState, TableInv
<1>7. ASSUME NEW p \in Questions PROVE TurnOK(p)'
  <2>0. TurnOK(p)
    BY DEF TableInv
  <2>1. CASE p = q
    <3>1. \A k \in DOMAIN messages' : k <= n
      BY <1>3
    <3>2. n \in DOMAIN messages' /\ Asked(n)'
      BY <1>2, <1>3 DEF Asked
    <3>3. /\ messages'[n].turn = q /\ messages'[n].chat = turn'[q].chat
          /\ \A k \in DOMAIN messages' :
               Asked(k)' /\ messages'[k].chat = turn'[q].chat => k <= n
      BY <1>2, <1>3, <1>5, <3>1
    <3>4. QED
      BY <1>5, <2>1, <3>2, <3>3 DEF TurnOK, Open
  <2>2. CASE p # q
    <3>1. turn'[p] = turn[p] /\ Open(p)' = Open(p)
      BY <1>5, <2>2 DEF Open
    <3>2. turn[p].pc = "new" => \A i \in DOMAIN messages' : messages'[i].turn # p
      BY <1>2, <1>3, <2>0, <2>2 DEF TurnOK
    <3>3. ASSUME turn[p].pc = "asked"
          PROVE  \E j \in DOMAIN messages' :
                    /\ Asked(j)' /\ messages'[j].turn = p /\ messages'[j].chat = turn[p].chat
                    /\ \A k \in DOMAIN messages' :
                         Asked(k)' /\ messages'[k].chat = turn[p].chat => k <= j
      <4>1. turn[p].chat # c
        BY <1>1, <2>0, <3>3 DEF TurnOK
      <4>2. PICK j \in DOMAIN messages :
            /\ Asked(j) /\ messages[j].turn = p /\ messages[j].chat = turn[p].chat
            /\ \A k \in DOMAIN messages :
                 Asked(k) /\ messages[k].chat = turn[p].chat => k <= j
        BY <2>0, <3>3 DEF TurnOK
      <4>3. \A k \in DOMAIN messages' : k \in DOMAIN messages \/ k = n
        BY <1>3
      <4>4. QED
        BY <1>2, <1>3, <4>1, <4>2, <4>3 DEF Asked
    <3>4. QED
      BY <2>0, <3>1, <3>2, <3>3 DEF TurnOK
  <2>3. QED
    BY <2>1, <2>2
<1>8. ASSUME NEW i \in DOMAIN messages', NEW j \in DOMAIN messages', Asked(i)', Asked(j)', SameTurn(i, j)'
      PROVE  i = j
  <2>1. \A k \in DOMAIN messages : messages[k].turn # q
    BY <1>4 DEF TableInv, TurnOK
  <2>2. (i \in DOMAIN messages \/ i = n) /\ (j \in DOMAIN messages \/ j = n)
    BY <1>3
  <2>3. QED
    BY <1>2, <1>3, <1>8, <2>1, <2>2 DEF TableInv, Asked, SameTurn
<1>9. ASSUME NEW i \in DOMAIN messages' PROVE AnswerOK(i)'
  <2>1. CASE i \in DOMAIN messages
    BY <1>1, <1>2, <2>1, OldAnswers DEF row
  <2>2. CASE i = n
    BY <1>2, <1>3, <2>2 DEF AnswerOK
  <2>3. QED
    BY <1>3, <2>1, <2>2
<1>10. QED
  BY <1>3, <1>4, <1>6, <1>7, <1>8, <1>9 DEF TableInv

LEMMA AnswerKeeps ==
  ASSUME TableInv, NEW q \in Questions, InsertAnswer(q)
  PROVE  TableInv'
<1>0. PICK n \in Nat : n = Len(messages) + 1
  BY DEF TableInv
<1>1. PICK sources \in {"empty", "found"}, error \in BOOLEAN :
        messages' = Append(messages, Row(q, turn[q].chat, turn[q].topic, "assistant", sources, error))
  BY DEF InsertAnswer
<1> DEFINE row == Row(q, turn[q].chat, turn[q].topic, "assistant", sources, error)
<1>2. /\ turn[q].pc = "asked" /\ day' = day /\ DOMAIN turn = Questions /\ TurnOK(q)
      /\ turn' = [turn EXCEPT ![q].pc = "answered"]
  BY DEF InsertAnswer, TableInv, TurnState
<1>3. row \in RowRecord /\ row.turn = q /\ row.chat = turn[q].chat /\ row.role = "assistant"
  BY <1>2 DEF Row, RowRecord, TableInv, TurnOK
<1> HIDE DEF row
<1>4. /\ messages' \in Seq(RowRecord) /\ DOMAIN messages' = 1..n /\ DOMAIN messages = 1..Len(messages)
      /\ Len(messages) \in Nat /\ n = Len(messages) + 1 /\ messages'[n] = row
      /\ \A i \in DOMAIN messages : messages'[i] = messages[i]
  BY <1>0, <1>1, <1>3, Appended DEF row
<1>5. \A k \in DOMAIN messages' : k \in DOMAIN messages \/ k = n
  BY <1>4
<1>6. \A k \in DOMAIN messages' : Asked(k)' => k \in DOMAIN messages /\ Asked(k)
  BY <1>3, <1>4, <1>5 DEF Asked
<1>7. /\ DOMAIN turn' = Questions /\ turn'[q].pc = "answered"
      /\ \A p \in Questions : p # q => turn'[p] = turn[p]
  BY <1>2
<1>8. TurnState'
  BY <1>7 DEF TurnState, TableInv
<1>9. ASSUME NEW p \in Questions PROVE TurnOK(p)'
  <2>0. TurnOK(p)
    BY DEF TableInv
  <2>1. CASE p = q
    <3>1. turn'[q].chat = turn[q].chat /\ turn'[q].topic = turn[q].topic
      BY <1>2
    <3>2. QED
      BY <1>2, <1>7, <2>1, <3>1 DEF TurnOK
  <2>2. CASE p # q
    <3>1. turn'[p] = turn[p] /\ Open(p)' = Open(p)
      BY <1>7, <2>2 DEF Open
    <3>2. turn[p].pc = "new" => \A i \in DOMAIN messages' : messages'[i].turn # p
      BY <1>3, <1>4, <1>5, <2>0, <2>2 DEF TurnOK
    <3>3. turn[p].pc = "asked" =>
            \E j \in DOMAIN messages' :
              /\ Asked(j)' /\ messages'[j].turn = p /\ messages'[j].chat = turn[p].chat
              /\ \A k \in DOMAIN messages' :
                   Asked(k)' /\ messages'[k].chat = turn[p].chat => k <= j
      BY <1>4, <1>6, <2>0 DEF TurnOK, Asked
    <3>4. QED
      BY <2>0, <3>1, <3>2, <3>3 DEF TurnOK
  <2>3. QED
    BY <2>1, <2>2
<1>10. ASSUME NEW i \in DOMAIN messages', NEW j \in DOMAIN messages', Asked(i)', Asked(j)', SameTurn(i, j)'
       PROVE  i = j
  BY <1>4, <1>6, <1>10 DEF TableInv, SameTurn
<1>11. ASSUME NEW i \in DOMAIN messages' PROVE AnswerOK(i)'
  <2>1. CASE i \in DOMAIN messages
    BY <1>1, <1>3, <2>1, OldAnswers DEF row
  <2>2. CASE i = n
    <3>1. PICK j \in DOMAIN messages :
            /\ Asked(j) /\ messages[j].turn = q /\ messages[j].chat = turn[q].chat
            /\ \A k \in DOMAIN messages :
                 Asked(k) /\ messages[k].chat = turn[q].chat => k <= j
      BY <1>2 DEF TurnOK
    <3>2. j \in 1..i /\ 1..i \subseteq DOMAIN messages'
      BY <1>4, <2>2
    <3>3. SameTurn(i, j)' /\ SameChat(i, j)' /\ Asked(j)'
      BY <1>3, <1>4, <2>2, <3>1 DEF SameTurn, SameChat, Asked
    <3>4. \A k \in 1..i : Asked(k)' /\ SameChat(i, k)' => k <= j
      BY <1>3, <1>4, <1>6, <2>2, <3>1, <3>2 DEF SameChat
    <3>5. QED
      BY <1>4, <3>2, <3>3, <3>4 DEF AnswerOK, LastAsked
  <2>3. QED
    BY <1>5, <2>1, <2>2
<1>12. QED
  BY <1>2, <1>4, <1>8, <1>9, <1>10, <1>11 DEF TableInv

\* A turn moves on and the table stays.
LEMMA TurnMoves ==
  ASSUME TableInv, NEW q \in Questions, EndOfAnswer(q) \/ LoseAnswer(q)
  PROVE  TableInv'
<1>1. /\ messages' = messages /\ day' = day /\ DOMAIN turn = Questions
      /\ \A p \in Questions : TurnOK(p) /\ turn[p].pc \in {"new", "asked", "answered", "lost"}
  BY DEF EndOfAnswer, LoseAnswer, TableInv, TurnState
<1>2. /\ DOMAIN turn' = Questions
      /\ turn'[q].pc \in {"answered", "lost"} /\ turn[q].pc # "new"
      /\ turn'[q].chat = turn[q].chat /\ turn'[q].topic = turn[q].topic
      /\ \A p \in Questions : p # q => turn'[p] = turn[p]
  <2>1. CASE EndOfAnswer(q)
    BY <1>1, <2>1 DEF EndOfAnswer
  <2>2. CASE LoseAnswer(q)
    BY <1>1, <2>2 DEF LoseAnswer
  <2>3. QED
    BY <2>1, <2>2
<1>3. TurnState'
  BY <1>1, <1>2 DEF TurnState
<1>4. ASSUME NEW p \in Questions PROVE TurnOK(p)'
  BY <1>1, <1>2 DEF TurnOK, Open, Asked
<1>5. /\ \A i \in DOMAIN messages : AnswerOK(i)'
      /\ \A i, j \in DOMAIN messages : Asked(i)' /\ Asked(j)' /\ SameTurn(i, j)' => i = j
  BY <1>1 DEF TableInv, AnswerOK, LastAsked, Asked, SameChat, SameTurn
<1>6. QED
  BY <1>1, <1>3, <1>4, <1>5 DEF TableInv

LEMMA TableStep == ASSUME OneTab PROVE TableInv /\ [TableNext]_tableVars => TableInv'
<1> SUFFICES ASSUME TableInv, [TableNext]_tableVars PROVE TableInv'
  OBVIOUS
<1>1. ASSUME UNCHANGED <<messages, turn>>, day' \in Nat PROVE TableInv'
  <2>1. /\ TurnState' /\ \A q \in Questions : TurnOK(q)'
        /\ \A i \in DOMAIN messages : AnswerOK(i)'
        /\ \A i, j \in DOMAIN messages : Asked(i)' /\ Asked(j)' /\ SameTurn(i, j)' => i = j
    BY <1>1 DEF TableInv, TurnState, TurnOK, Open, AnswerOK, LastAsked, Asked, SameChat, SameTurn
  <2>2. QED
    BY <1>1, <2>1 DEF TableInv
<1>2. CASE NextDay
  BY <1>1, <1>2 DEF NextDay, TableInv
<1>3. CASE UNCHANGED tableVars
  BY <1>1, <1>3 DEF tableVars, TableInv
<1>4. QED
  BY <1>2, <1>3, QuestionKeeps, AnswerKeeps, TurnMoves DEF TableNext

\* The dashboard attributes every unanswered question as the requests do, for every number of
\* turns and conversations, while a conversation is continued only when its last stream has ended
\* (routes/admin.py:73-98).
THEOREM UnansweredIsByRequestCorrect ==
  ASSUME OneTab
  PROVE  TableSpec => []UnansweredIsByRequest
<1>1. QED
  BY TableInitial, TableStep, TableImplies, PTL DEF TableSpec

-----------------------------------------------------------------------------
(* ConversationExport.                                                     *)

RowOf(i, q, role) ==
  messages[i].turn = q /\ messages[i].role = role /\ messages[i].chat = turn[q].chat

\* The rows a turn has written.
Written(q) ==
  /\ turn[q].pc = "new" => ~Open(q)
  /\ turn[q].pc # "new" => turn[q].chat \in Chats /\ turn[q].topic \in Topics
  /\ turn[q].pc = "asked" => Open(q)
  /\ turn[q].pc \in {"asked", "answered"} => \E i \in DOMAIN messages : RowOf(i, q, "user")
  /\ turn[q].pc = "answered" => \E i \in DOMAIN messages : RowOf(i, q, "assistant")

WrittenInv ==
  /\ messages \in Seq(RowRecord) /\ day \in Nat /\ TurnState
  /\ \A q \in Questions : Written(q)

\* What an export has, by where it is.
ExportOK(e) ==
  /\ export[e].pc \in {"found", "read"} \cup Entered =>
       export[e].due \subseteq Questions
       /\ \A q \in export[e].due : Ended(q) /\ turn[q].chat = export[e].chat
  /\ export[e].pc \in {"read"} \cup Entered =>
       /\ export[e].rows \subseteq DOMAIN messages
       /\ \A i \in export[e].rows : messages[i].chat = export[e].chat
       /\ \A q \in export[e].due, role \in {"user", "assistant"} :
            \E i \in export[e].rows : messages[i].turn = q /\ messages[i].role = role
  /\ export[e].pc \in Entered => \E t \in trail : t.export = e

TrailOK ==
  \A t \in trail :
    /\ t.export \in Exports /\ export[t.export].pc \in Entered
    /\ t.messages = Cardinality(export[t.export].rows)

ExportInv ==
  /\ WrittenInv
  /\ DOMAIN export = Exports /\ \A e \in Exports : ExportOK(e)
  /\ TrailOK

LEMMA ExportInitial == TableInit /\ ExportInit => ExportInv
<1> SUFFICES ASSUME TableInit, ExportInit PROVE ExportInv
  OBVIOUS
<1>1. messages \in Seq(RowRecord) /\ day \in Nat
  BY EmptyIn DEF TableInit
<1>2. DOMAIN turn = Questions /\ \A q \in Questions : turn[q] = [pc |-> "new", open |-> FALSE]
  BY DEF TableInit, NoTurns
<1>3. TurnState /\ \A q \in Questions : Written(q)
  BY <1>2 DEF TurnState, Written, Open
<1>4. DOMAIN export = Exports /\ trail = {} /\ \A e \in Exports : export[e].pc = "new"
  BY DEF ExportInit
<1>5. QED
  BY <1>1, <1>3, <1>4 DEF ExportInv, WrittenInv, ExportOK, Entered, TrailOK

\* A row more: the table keeps its rows, and has the new one.
LEMMA OneRowMore ==
  ASSUME messages \in Seq(RowRecord), NEW row \in RowRecord, messages' = Append(messages, row)
  PROVE  /\ messages' \in Seq(RowRecord)
         /\ \A i \in DOMAIN messages : i \in DOMAIN messages' /\ messages'[i] = messages[i]
         /\ \E i \in DOMAIN messages' : messages'[i] = row
<1>1. /\ Len(messages) + 1 \in DOMAIN messages' /\ messages'[Len(messages) + 1] = row
      /\ messages' \in Seq(RowRecord)
  OBVIOUS
<1>2. \A i \in DOMAIN messages : i \in DOMAIN messages' /\ messages'[i] = messages[i]
  OBVIOUS
<1>3. QED
  BY <1>1, <1>2

\* A step of the table writes what its turn needs, drops no row and leaves ended turns alone.
LEMMA TurnWrites ==
  ASSUME WrittenInv, TableNext
  PROVE  /\ WrittenInv'
         /\ \A i \in DOMAIN messages : i \in DOMAIN messages' /\ messages'[i] = messages[i]
         /\ \A q \in Questions : Ended(q) => Ended(q)' /\ turn'[q] = turn[q]
<1>1. CASE NextDay
  <2>1. messages' = messages /\ turn' = turn /\ day' \in Nat
    BY <1>1 DEF NextDay, WrittenInv
  <2>2. TurnState' /\ \A q \in Questions : Written(q)'
    BY <2>1 DEF WrittenInv, TurnState, Written, RowOf, Open
  <2>3. QED
    BY <2>1, <2>2 DEF WrittenInv, Ended, Open
<1>2. ASSUME NEW q \in Questions, InsertQuestion(q) \/ InsertAnswer(q) \/ EndOfAnswer(q) \/ LoseAnswer(q)
      PROVE  /\ WrittenInv'
             /\ \A i \in DOMAIN messages : i \in DOMAIN messages' /\ messages'[i] = messages[i]
             /\ \A p \in Questions : Ended(p) => Ended(p)' /\ turn'[p] = turn[p]
  <2>0. /\ DOMAIN turn = Questions /\ Written(q) /\ day' = day
        /\ turn[q].pc \in {"new", "asked", "answered", "lost"}
    BY <1>2 DEF WrittenInv, TurnState, InsertQuestion, InsertAnswer, EndOfAnswer, LoseAnswer
  <2>1. ~Ended(q)
    BY <1>2, <2>0 DEF Written, Ended, InsertQuestion, InsertAnswer, EndOfAnswer, LoseAnswer
  <2>2. /\ DOMAIN turn' = Questions /\ \A p \in Questions : p # q => turn'[p] = turn[p]
        /\ turn'[q].pc \in {"asked", "answered", "lost"}
    <3>1. CASE InsertQuestion(q)
      BY <2>0, <3>1 DEF InsertQuestion
    <3>2. CASE InsertAnswer(q)
      <4>1. turn' = [turn EXCEPT ![q].pc = "answered"]
        BY <3>2 DEF InsertAnswer
      <4>2. QED
        BY <2>0, <4>1
    <3>3. CASE EndOfAnswer(q)
      BY <2>0, <3>3 DEF EndOfAnswer
    <3>4. CASE LoseAnswer(q)
      BY <2>0, <3>4 DEF LoseAnswer
    <3>5. QED
      BY <1>2, <3>1, <3>2, <3>3, <3>4
  <2>3. /\ messages' \in Seq(RowRecord)
        /\ \A i \in DOMAIN messages : i \in DOMAIN messages' /\ messages'[i] = messages[i]
        /\ Written(q)'
    <3>1. CASE InsertQuestion(q)
      <4>1. PICK c \in Chats, t \in Topics :
              /\ messages' = Append(messages, Row(q, c, t, "user", "empty", FALSE))
              /\ turn' = [turn EXCEPT ![q] = [pc |-> "asked", open |-> TRUE, chat |-> c, topic |-> t]]
        BY <3>1 DEF InsertQuestion
      <4> DEFINE row == Row(q, c, t, "user", "empty", FALSE)
      <4>2. row \in RowRecord /\ row.turn = q /\ row.chat = c /\ row.role = "user"
        BY DEF Row, RowRecord, WrittenInv
      <4>3. /\ messages' \in Seq(RowRecord)
            /\ \A i \in DOMAIN messages : i \in DOMAIN messages' /\ messages'[i] = messages[i]
            /\ \E i \in DOMAIN messages' : messages'[i] = row
        <5> HIDE DEF row
        <5>1. messages \in Seq(RowRecord) /\ messages' = Append(messages, row)
          BY <4>1 DEF WrittenInv, row
        <5>2. QED
          BY <4>2, <5>1, OneRowMore
      <4>4. turn'[q] = [pc |-> "asked", open |-> TRUE, chat |-> c, topic |-> t]
        BY <2>0, <4>1
      <4> HIDE DEF row
      <4>5. QED
        BY <4>2, <4>3, <4>4 DEF Written, RowOf, Open
    <3>2. CASE InsertAnswer(q)
      <4>1. PICK s \in {"empty", "found"}, b \in BOOLEAN :
              messages' = Append(messages, Row(q, turn[q].chat, turn[q].topic, "assistant", s, b))
        BY <3>2 DEF InsertAnswer
      <4>2. turn[q].pc = "asked" /\ turn' = [turn EXCEPT ![q].pc = "answered"]
        BY <3>2 DEF InsertAnswer
      <4> DEFINE row == Row(q, turn[q].chat, turn[q].topic, "assistant", s, b)
      <4>3. row \in RowRecord /\ row.turn = q /\ row.chat = turn[q].chat /\ row.role = "assistant"
        BY <2>0, <4>2 DEF Row, RowRecord, WrittenInv, Written
      <4>4. /\ messages' \in Seq(RowRecord)
            /\ \A i \in DOMAIN messages : i \in DOMAIN messages' /\ messages'[i] = messages[i]
            /\ \E i \in DOMAIN messages' : messages'[i] = row
        <5> HIDE DEF row
        <5>1. messages \in Seq(RowRecord) /\ messages' = Append(messages, row)
          BY <4>1 DEF WrittenInv, row
        <5>2. QED
          BY <4>3, <5>1, OneRowMore
      <4>5. /\ turn'[q].pc = "answered" /\ turn'[q].chat = turn[q].chat
            /\ turn'[q].topic = turn[q].topic
        BY <2>0, <4>2
      <4> HIDE DEF row
      <4>6. \E i \in DOMAIN messages : RowOf(i, q, "user")
        BY <2>0, <4>2 DEF Written
      <4>7. QED
        BY <2>0, <4>2, <4>3, <4>4, <4>5, <4>6 DEF Written, RowOf
    <3>3. CASE EndOfAnswer(q) \/ LoseAnswer(q)
      <4>1. /\ messages' = messages /\ turn[q].pc # "new"
            /\ turn'[q].chat = turn[q].chat /\ turn'[q].topic = turn[q].topic
            /\ turn'[q].pc = "lost" \/ (turn'[q].pc = "answered" /\ turn[q].pc = "answered")
        <5>1. CASE EndOfAnswer(q)
          BY <2>0, <5>1 DEF EndOfAnswer
        <5>2. CASE LoseAnswer(q)
          <6>1. /\ messages' = messages /\ turn[q].pc = "asked"
                /\ turn' = [turn EXCEPT ![q].pc = "lost", ![q].open = FALSE]
            BY <5>2 DEF LoseAnswer
          <6>2. /\ turn'[q].pc = "lost" /\ turn'[q].chat = turn[q].chat
                /\ turn'[q].topic = turn[q].topic
            BY <2>0, <6>1
          <6>3. QED
            BY <6>1, <6>2
        <5>3. QED
          BY <3>3, <5>1, <5>2
      <4>2. QED
        BY <2>0, <4>1 DEF Written, RowOf, WrittenInv
    <3>4. QED
      BY <1>2, <3>1, <3>2, <3>3
  <2>4. ASSUME NEW p \in Questions, p # q PROVE Written(p)'
    <3>1. Written(p) /\ turn'[p] = turn[p]
      BY <2>2, <2>4 DEF WrittenInv
    <3>2. QED
      BY <2>3, <3>1 DEF Written, RowOf, Open
  <2>5. TurnState'
    BY <2>2 DEF TurnState, WrittenInv
  <2>6. WrittenInv'
    BY <2>0, <2>3, <2>4, <2>5 DEF WrittenInv
  <2>7. QED
    BY <2>1, <2>2, <2>3, <2>6 DEF Ended, Open
<1>3. QED
  BY <1>1, <1>2 DEF TableNext

\* A step of a turn takes nothing from an export.
LEMMA TurnKeepsExport ==
  ASSUME ExportInv, TableNext, UNCHANGED exportVars
  PROVE  ExportInv'
<1>1. /\ WrittenInv' /\ export' = export /\ trail' = trail
      /\ \A i \in DOMAIN messages : i \in DOMAIN messages' /\ messages'[i] = messages[i]
      /\ \A q \in Questions : Ended(q) => Ended(q)' /\ turn'[q] = turn[q]
  BY TurnWrites DEF ExportInv, exportVars
<1>2. ASSUME NEW e \in Exports PROVE ExportOK(e)'
  <2>0. ExportOK(e)
    BY DEF ExportInv
  <2>1. export[e].pc \in {"found", "read"} \cup Entered =>
          export[e].due \subseteq Questions
          /\ \A q \in export[e].due : Ended(q)' /\ turn'[q].chat = export[e].chat
    BY <1>1, <2>0 DEF ExportOK
  <2>2. export[e].pc \in {"read"} \cup Entered =>
          /\ export[e].rows \subseteq DOMAIN messages'
          /\ \A i \in export[e].rows : messages'[i] = messages[i]
    BY <1>1, <2>0 DEF ExportOK
  <2>3. QED
    BY <1>1, <2>0, <2>1, <2>2 DEF ExportOK
<1>3. QED
  BY <1>1, <1>2 DEF ExportInv, TrailOK

LEMMA ExportMoves ==
  ASSUME ExportInv, NEW e \in Exports, UNCHANGED tableVars,
         \/ SelectConversation(e) \/ SelectMessages(e) \/ CommitExport(e)
         \/ SendExport(e) \/ ExportFails(e) \/ ExportIsLost(e)
  PROVE  ExportInv'
<1>0. /\ messages' = messages /\ turn' = turn /\ day' = day /\ DOMAIN export = Exports
      /\ ExportOK(e) /\ WrittenInv
      /\ export[e].pc \in {"new", "found", "read", "committed"}
  BY DEF tableVars, ExportInv, SelectConversation, SelectMessages, CommitExport, SendExport, ExportFails,
         ExportIsLost
<1>1. WrittenInv'
  BY <1>0 DEF WrittenInv, TurnState, Written, RowOf, Open
<1>2. DOMAIN export' = Exports /\ \A d \in Exports : d # e => export'[d] = export[d]
  BY <1>0 DEF SelectConversation, SelectMessages, CommitExport, SendExport, ExportFails,
         ExportIsLost
<1>3. trail \subseteq trail' /\ (export[e].pc # "committed" => \A t \in trail : t.export # e)
  BY <1>0 DEF SelectConversation, SelectMessages, CommitExport, SendExport, ExportFails,
         ExportIsLost, ExportInv, TrailOK, Entered
<1>4. ASSUME NEW d \in Exports, d # e PROVE ExportOK(d)'
  <2>1. ExportOK(d) /\ export'[d] = export[d]
    BY <1>2, <1>4 DEF ExportInv
  <2>2. QED
    BY <1>0, <1>3, <2>1 DEF ExportOK, Ended, Open
<1>5. ExportOK(e)' /\ TrailOK'
  <2>0. ASSUME export[e].pc # "committed"
        PROVE  \A t \in trail :
                 /\ t.export \in Exports /\ export'[t.export].pc \in Entered
                 /\ t.messages = Cardinality(export'[t.export].rows)
    BY <1>2, <1>3, <2>0 DEF ExportInv, TrailOK
  <2>1. CASE SelectConversation(e)
    <3>1. PICK c \in Chats, own \in BOOLEAN :
            export' = [export EXCEPT ![e] =
                         IF own THEN [pc |-> "found", chat |-> c, rows |-> {},
                                      due |-> {q \in Questions : Ended(q) /\ turn[q].chat = c}]
                         ELSE [pc |-> "missing"]]
      BY <2>1 DEF SelectConversation
    <3>2. trail' = trail
      BY <2>1 DEF SelectConversation
    <3>3. export'[e] = IF own THEN [pc |-> "found", chat |-> c, rows |-> {},
                                    due |-> {q \in Questions : Ended(q) /\ turn[q].chat = c}]
                       ELSE [pc |-> "missing"]
      BY <1>0, <3>1
    <3>4. ExportOK(e)' /\ export[e].pc = "new"
      BY <1>0, <2>1, <3>3 DEF SelectConversation, ExportOK, Entered, Ended, Open
    <3>5. QED
      BY <2>0, <3>2, <3>4 DEF TrailOK
  <2>2. CASE SelectMessages(e)
    <3>1. /\ export[e].pc = "found" /\ trail' = trail
          /\ export'[e].pc = "read" /\ export'[e].chat = export[e].chat
          /\ export'[e].due = export[e].due
          /\ export'[e].rows = {i \in DOMAIN messages : messages[i].chat = export[e].chat}
      BY <1>0, <2>2 DEF SelectMessages
    <3>2. /\ export[e].due \subseteq Questions
          /\ \A q \in export[e].due : Ended(q) /\ turn[q].chat = export[e].chat
      BY <1>0, <3>1 DEF ExportOK
    <3>3. ASSUME NEW q \in export[e].due, NEW role \in {"user", "assistant"}
          PROVE  \E i \in export'[e].rows : messages[i].turn = q /\ messages[i].role = role
      <4>1. q \in Questions /\ Ended(q) /\ Written(q) /\ turn[q].chat = export[e].chat
            /\ turn[q].pc \in {"new", "asked", "answered", "lost"}
        BY <1>0, <3>2 DEF WrittenInv, TurnState
      <4>2. turn[q].pc = "answered"
        BY <4>1 DEF Ended, Written
      <4>3. PICK i \in DOMAIN messages : RowOf(i, q, role)
        BY <4>1, <4>2 DEF Written
      <4>4. QED
        BY <3>1, <4>1, <4>3 DEF RowOf
    <3>4. ExportOK(e)'
      BY <1>0, <3>1, <3>2, <3>3 DEF ExportOK, Entered, Ended, Open
    <3>5. QED
      BY <2>0, <3>1, <3>4 DEF TrailOK
  <2>3. CASE CommitExport(e)
    <3>1. /\ export[e].pc = "read" /\ export'[e].pc = "committed" /\ export'[e].chat = export[e].chat
          /\ export'[e].due = export[e].due /\ export'[e].rows = export[e].rows
          /\ trail' = trail \cup {[export |-> e, messages |-> Cardinality(export[e].rows)]}
      BY <1>0, <2>3 DEF CommitExport
    <3>2. \E t \in trail' : t.export = e
      <4> DEFINE entry == [export |-> e, messages |-> Cardinality(export[e].rows)]
      <4>1. entry.export = e
        OBVIOUS
      <4> HIDE DEF entry
      <4>2. entry \in trail'
        BY <3>1 DEF entry
      <4>3. QED
        BY <4>1, <4>2
    <3>3. ExportOK(e)'
      BY <1>0, <3>1, <3>2 DEF ExportOK, Entered, Ended, Open
    <3>4. QED
      BY <1>2, <2>0, <3>1, <3>3 DEF TrailOK, Entered
  <2>4. CASE ExportFails(e)
    <3>1. export[e].pc # "committed" /\ export'[e].pc = "failed" /\ trail' = trail
      BY <1>0, <2>4 DEF ExportFails
    <3>2. QED
      BY <2>0, <3>1 DEF ExportOK, TrailOK, Entered
  <2>5. CASE SendExport(e) \/ ExportIsLost(e)
    <3>1. /\ export[e].pc = "committed" /\ export'[e].pc \in {"sent", "unsent"} /\ trail' = trail
          /\ export'[e].chat = export[e].chat /\ export'[e].due = export[e].due
          /\ export'[e].rows = export[e].rows
      <4>1. CASE SendExport(e)
        BY <1>0, <4>1 DEF SendExport
      <4>2. CASE ExportIsLost(e)
        BY <1>0, <4>2 DEF ExportIsLost
      <4>3. QED
        BY <2>5, <4>1, <4>2
    <3>2. ExportOK(e)'
      BY <1>0, <3>1 DEF ExportOK, Entered, Ended, Open
    <3>3. TrailOK'
      BY <1>2, <3>1 DEF ExportInv, TrailOK, Entered
    <3>4. QED
      BY <3>2, <3>3
  <2>6. QED
    BY <2>1, <2>2, <2>3, <2>4, <2>5
<1>6. QED
  BY <1>1, <1>2, <1>4, <1>5 DEF ExportInv

LEMMA ExportKeeps == ExportInv /\ [ExportNext]_<<tableVars, exportVars>> => ExportInv'
<1> SUFFICES ASSUME ExportInv, [ExportNext]_<<tableVars, exportVars>> PROVE ExportInv'
  OBVIOUS
<1>1. CASE ExportStep
  <2>1. PICK e \in Exports :
          \/ SelectConversation(e) \/ SelectMessages(e) \/ CommitExport(e)
          \/ SendExport(e) \/ ExportFails(e) \/ ExportIsLost(e)
    BY <1>1 DEF ExportStep
  <2>2. UNCHANGED tableVars
    BY <2>1 DEF SelectConversation, SelectMessages, CommitExport, SendExport, ExportFails,
         ExportIsLost
  <2>3. QED
    BY <2>1, <2>2, ExportMoves
<1>2. CASE TableNext /\ UNCHANGED exportVars
  BY <1>2, TurnKeepsExport
<1>3. CASE UNCHANGED <<tableVars, exportVars>>
  BY <1>3 DEF tableVars, exportVars, ExportInv, WrittenInv, TurnState, Written, RowOf, Open,
              ExportOK, TrailOK, Ended
<1>4. QED
  BY <1>1, <1>2, <1>3 DEF ExportNext

LEMMA ExportImplies == ExportInv => ExportTellsAll
BY DEF ExportInv, ExportOK, Entered, TrailOK, ExportTellsAll

\* An export holds the question and the answer of every turn read to its end before it was asked
\* for, and the audit log has exactly the exports that were sent, with their size, for every number
\* of turns, conversations and exports (routes/chat.py, export_conversation).
THEOREM ExportTellsAllCorrect == ExportSpec => []ExportTellsAll
<1>1. QED
  BY ExportInitial, ExportKeeps, ExportImplies, PTL DEF ExportSpec

-----------------------------------------------------------------------------
(* Boot.                                                                   *)

\* Past the migrations of its own boot.
Migrated == {"open", "guard", "insert", "sweep", "build", "warmup", "resume", "seed",
             "serving", "draining"}

\* Past the embedding guard.
Committed == Migrated \ {"open", "guard", "insert"}

\* The advisory lock excludes: who migrates holds it, who holds it migrates.
LockInv == \A p \in Procs : pc[p] \in Migrating <=> lock = p

FilesInv ==
  /\ Len(schema) <= NFiles
  /\ \A i \in 1..Len(schema) : schema[i] = i
  /\ recorded = 1..Len(schema)

\* Under the lock, what a process read as applied stays what is; a run that ends without a
\* cause has applied everything, and what is applied is never undone.
RunInv ==
  \A p \in Procs :
    /\ cause[p] # "conflict"
    /\ pc[p] \in {"lock", "read", "apply"} => cause[p] = "none"
    /\ pc[p] = "apply" => seen[p] = recorded
    /\ (pc[p] = "unlock" /\ cause[p] = "none") => recorded = 1..NFiles
    /\ pc[p] \in Migrated => recorded = 1..NFiles
    /\ pool[p] = "open" => recorded = 1..NFiles

\* An ingestion belongs to a process past its boot.
TaskInv ==
  \A p \in Procs :
    /\ "ingestion" \in tasks[p] => pc[p] \in {"serving", "draining"}
    /\ pc[p] = "down" => tasks[p] = {}
    /\ pc[p] = "failed" => pool[p] # "open"

\* Before the upgrade every process past the guard has the model on record, and the vectors
\* are its; after it, the column keeps out every model but the upgrade's.
ModelInv ==
  /\ upgraded => \A m \in vectors : Dim[m] = UpgradeDim
  /\ ~upgraded =>
       /\ vectors \subseteq {config}
       /\ \A p \in Procs : pc[p] \in Committed => config = cfg[p].model

\* The inductive invariant of Boot.
BootInv == TypeOK /\ LockInv /\ FilesInv /\ RunInv /\ TaskInv /\ ModelInv

\* The next file is the one after those that took effect, and nobody applied it meanwhile.
LEMMA NextFileIs ==
  ASSUME BootInv, NEW p \in Procs, pc[p] = "apply", Pending(p) # {}
  PROVE  /\ Len(schema) \in Nat /\ Len(schema) + 1 \in 1..NFiles
         /\ NextFile(p) = Len(schema) + 1
         /\ NextFile(p) \notin recorded
<1> DEFINE n == Len(schema)
<1>1. n \in Nat /\ NFiles \in Nat /\ n <= NFiles
  BY ConstantsAssumption, LenProperties DEF BootInv, TypeOK, FilesInv
<1>2. Pending(p) = (1..NFiles) \ (1..n) /\ recorded = 1..n
  BY DEF BootInv, RunInv, FilesInv, Pending
<1>3. Pending(p) = (n + 1)..NFiles
  BY <1>1, <1>2
<1>4. n + 1 \in 1..NFiles
  BY <1>1, <1>3
<1>5. NextFile(p) = n + 1
  <2>1. n + 1 \in Pending(p) /\ \A g \in Pending(p) : n + 1 <= g
    BY <1>1, <1>3, <1>4
  <2>2. \A f \in Pending(p) : (\A g \in Pending(p) : f <= g) => f = n + 1
    BY <1>1, <1>3, <2>1
  <2>3. QED
    BY <2>1, <2>2 DEF NextFile
<1>6. QED
  BY <1>1, <1>2, <1>4, <1>5

\* No pool is open and nobody is past the migrations while a file is still to be applied.
LEMMA ApplyFileInv ==
  ASSUME BootInv, NEW p \in Procs, ApplyFile(p)
  PROVE  BootInv'
<1> DEFINE f == Len(schema) + 1
<1>1. /\ f \in 1..NFiles /\ Len(schema) \in Nat
      /\ schema' = Append(schema, f) /\ recorded' = recorded \cup {f}
      /\ seen' = [seen EXCEPT ![p] = @ \cup {f}]
      /\ UNCHANGED <<pc, cause, lock, config, upgraded, vectors, document, audit, cfg, pool,
                     tasks, boots, faults>>
  BY NextFileIs DEF ApplyFile, bounds
<1>2. /\ schema' \in Seq(1..NFiles) /\ Len(schema') = f
      /\ \A i \in 1..Len(schema) : schema'[i] = schema[i]
      /\ schema'[f] = f
  BY <1>1, AppendProperties DEF BootInv, TypeOK
<1>3. TypeOK'
  BY <1>1, <1>2 DEF BootInv, TypeOK
<1>4. FilesInv'
  <2>1. recorded' = 1..f
    BY <1>1 DEF BootInv, FilesInv
  <2>2. \A i \in 1..f : schema'[i] = i
    <3>1. \A i \in 1..f : i \in 1..Len(schema) \/ i = f
      BY <1>1
    <3>2. QED BY <3>1, <1>2 DEF BootInv, FilesInv
  <2>3. f <= NFiles
    BY <1>1, ConstantsAssumption
  <2>4. QED BY <1>2, <2>1, <2>2, <2>3 DEF FilesInv
<1>5. RunInv'
  <2> SUFFICES ASSUME NEW q \in Procs
               PROVE  /\ cause[q] # "conflict"
                      /\ pc[q] \in {"lock", "read", "apply"} => cause[q] = "none"
                      /\ pc[q] = "apply" => seen'[q] = recorded'
                      /\ ~(pc[q] = "unlock" /\ cause[q] = "none")
                      /\ pc[q] \notin Migrated /\ pool[q] # "open"
    BY <1>1 DEF RunInv
  <2>1. recorded # 1..NFiles
    BY <1>1, NextFileIs DEF ApplyFile
  <2>2. pc[q] = "apply" => q = p
    BY DEF ApplyFile, BootInv, LockInv, Migrating
  <2>3. seen'[p] = recorded'
    BY <1>1 DEF ApplyFile, BootInv, TypeOK, RunInv
  <2>4. QED
    BY <2>1, <2>2, <2>3 DEF BootInv, RunInv
<1>6. LockInv' /\ TaskInv' /\ ModelInv'
  BY <1>1 DEF BootInv, LockInv, TaskInv, ModelInv
<1>7. QED
  BY <1>3, <1>4, <1>5, <1>6 DEF BootInv

LEMMA AppliedAllRun ==
  ASSUME BootInv, NEW p \in Procs, AppliedAll(p) PROVE RunInv'
<1>1. recorded = 1..NFiles
  BY DEF AppliedAll, Pending, BootInv, TypeOK, RunInv
<1>2. QED
  BY <1>1 DEF AppliedAll, Proceed, tables, BootInv, TypeOK, RunInv, Migrated

LEMMA UnlockTask ==
  ASSUME BootInv, NEW p \in Procs, Unlock(p) PROVE TaskInv'
<1>1. CASE cause[p] = "none"
  BY <1>1 DEF Unlock, Proceed, tables, BootInv, TypeOK, TaskInv
<1>2. CASE cause[p] # "none"
  BY <1>2 DEF Unlock, Abort, Proceed, tables, BootInv, TypeOK, TaskInv
<1>3. QED BY <1>1, <1>2

LEMMA GuardModel ==
  ASSUME BootInv, NEW p \in Procs, Guard(p) PROVE ModelInv'
<1>1. CASE config = NoModel
  BY <1>1, ConstantsAssumption DEF Guard, Proceed, tables, BootInv, TypeOK, ModelInv,
                                       Committed, Migrated
<1>2. CASE config = cfg[p].model /\ config # NoModel
  BY <1>2 DEF Guard, Proceed, tables, BootInv, TypeOK, ModelInv,
                                       Committed, Migrated
<1>3. CASE config \notin {NoModel, cfg[p].model}
  BY <1>3 DEF Guard, Abort, Proceed, tables, BootInv, TypeOK, ModelInv, Committed, Migrated
<1>4. QED BY <1>1, <1>2, <1>3

LEMMA GuardInsertModel ==
  ASSUME BootInv, NEW p \in Procs, GuardInsert(p) PROVE ModelInv'
<1>1. CASE config = NoModel
  <2>1. cfg[p].model \in Models
    BY ConstantsAssumption DEF BootInv, TypeOK
  <2>2. config' = cfg[p].model /\ pc' = [pc EXCEPT ![p] = "sweep"]
        /\ UNCHANGED <<upgraded, vectors, cfg>>
    BY <1>1 DEF GuardInsert, Proceed
  <2>3. ~upgraded => vectors = {} /\ \A q \in Procs : pc[q] \notin Committed
    <3>1. \A q \in Procs : cfg[q].model # NoModel
      BY ConstantsAssumption DEF BootInv, TypeOK
    <3>2. NoModel \notin vectors
      BY ConstantsAssumption DEF BootInv, TypeOK
    <3>3. QED BY <1>1, <3>1, <3>2 DEF BootInv, ModelInv
  <2>4. QED BY <2>2, <2>3 DEF BootInv, TypeOK, ModelInv
<1>2. CASE config # NoModel
  BY <1>2 DEF GuardInsert, Abort, Proceed, tables, BootInv, TypeOK, ModelInv, Committed, Migrated
<1>3. QED BY <1>1, <1>2

LEMMA BuildLock ==
  ASSUME BootInv, NEW p \in Procs, Build(p) PROVE LockInv'
<1>1. lock' = lock /\ \E l \in {"failed", "warmup"} : pc' = [pc EXCEPT ![p] = l]
  BY DEF Build, Abort, Proceed
<1>2. QED
  BY <1>1 DEF Build, BootInv, TypeOK, LockInv, Migrating

\* A vector that fits the column is of the model on record, or of the upgrade's.
LEMMA IndexedModel ==
  ASSUME BootInv, NEW p \in Procs, pc[p] \in Committed, Indexes(p),
         vectors' = vectors \cup {cfg[p].model}, UNCHANGED <<config, upgraded>>
  PROVE  /\ upgraded' => \A m \in vectors' : Dim[m] = UpgradeDim
         /\ ~upgraded' => vectors' \subseteq {config'}
BY DEF BootInv, ModelInv, Indexes, ColumnDim

LEMMA SeedModel ==
  ASSUME BootInv, NEW p \in Procs, Seed(p) PROVE ModelInv'
<1>1. pc[p] \in Committed
  BY DEF Seed, Committed, Migrated
<1>2. UNCHANGED <<config, upgraded, cfg>> /\ pc' = [pc EXCEPT ![p] = "serving"]
  BY DEF Seed, Proceed
<1>3. vectors' = vectors \/ (Indexes(p) /\ vectors' = vectors \cup {cfg[p].model})
  BY DEF Seed
<1>4. /\ upgraded' => \A m \in vectors' : Dim[m] = UpgradeDim
      /\ ~upgraded' => vectors' \subseteq {config'}
  BY <1>1, <1>2, <1>3, IndexedModel DEF BootInv, ModelInv
<1>5. \A q \in Procs : pc'[q] \in Committed => pc[q] \in Committed
  BY <1>1, <1>2 DEF BootInv, TypeOK
<1>6. QED
  BY <1>2, <1>4, <1>5 DEF BootInv, ModelInv

LEMMA FinishIngestionModel ==
  ASSUME BootInv, NEW p \in Procs, FinishIngestion(p) PROVE ModelInv'
<1>1. pc[p] \in Committed
  BY DEF FinishIngestion, BootInv, TaskInv, Committed, Migrated
<1>2. UNCHANGED <<config, upgraded, cfg, pc>>
  BY DEF FinishIngestion
<1>3. vectors' = vectors \/ (Indexes(p) /\ vectors' = vectors \cup {cfg[p].model})
  BY DEF FinishIngestion
<1>4. QED
  BY <1>1, <1>2, <1>3, IndexedModel DEF BootInv, ModelInv

LEMMA UpgradeInv == BootInv /\ Upgrade => BootInv'
<1> SUFFICES ASSUME BootInv, Upgrade PROVE BootInv'
  OBVIOUS
<1>1. TypeOK'
  BY DEF BootInv, TypeOK, Upgrade, bounds
<1>2. LockInv' /\ FilesInv' /\ RunInv' /\ TaskInv'
  BY DEF BootInv, LockInv, FilesInv, RunInv, TaskInv, Upgrade
<1>3. ModelInv'
  BY DEF ModelInv, Upgrade
<1>4. QED BY <1>1, <1>2, <1>3 DEF BootInv

LEMMA BootInit == Init => BootInv
<1> SUFFICES ASSUME Init PROVE BootInv
  OBVIOUS
<1>1. TypeOK
  BY ConstantsAssumption, EmptySeq DEF Init, TypeOK
<1>2. FilesInv
  BY ConstantsAssumption, EmptySeq DEF Init, FilesInv
<1>3. LockInv /\ RunInv /\ TaskInv /\ ModelInv
  BY ConstantsAssumption DEF Init, LockInv, RunInv, TaskInv, ModelInv, Migrating, Migrated,
                             Committed
<1>4. QED BY <1>1, <1>2, <1>3 DEF BootInv

LEMMA StartInv ==
  ASSUME BootInv, NEW p \in Procs, Start(p)
  PROVE  BootInv'
<1>1. TypeOK'
  BY ConstantsAssumption
     DEF Start, Proceed, tables, BootInv, TypeOK, Migrating, Booting
<1>2. FilesInv'
  BY DEF Start, Proceed, tables, BootInv, TypeOK, FilesInv
<1>3. LockInv'
  BY ConstantsAssumption
     DEF Start, Proceed, tables, BootInv, TypeOK, LockInv, Migrating
<1>4. RunInv'
  BY DEF Start, Proceed, tables, BootInv, TypeOK, RunInv, Migrated
<1>5. TaskInv'
  BY DEF Start, Proceed, tables, BootInv, TypeOK, TaskInv
<1>6. ModelInv'
  BY DEF Start, Proceed, tables, BootInv, TypeOK, ModelInv,
         Committed, Migrated
<1>7. QED
  BY <1>1, <1>2, <1>3, <1>4, <1>5, <1>6 DEF BootInv

LEMMA MigrateInv ==
  ASSUME BootInv, NEW p \in Procs, Migrate(p)
  PROVE  BootInv'
<1>1. CASE Lock(p)
  <2>1. TypeOK'
    BY <1>1, ConstantsAssumption
       DEF Lock, Proceed, tables, bounds, BootInv, TypeOK, Migrating, Booting
  <2>2. FilesInv'
    BY <1>1 DEF Lock, Proceed, tables, bounds, BootInv, TypeOK, FilesInv
  <2>3. LockInv'
    BY <1>1, ConstantsAssumption
       DEF Lock, Proceed, tables, bounds, BootInv, TypeOK, LockInv, Migrating
  <2>4. RunInv'
    BY <1>1 DEF Lock, Proceed, tables, bounds, BootInv, TypeOK, RunInv, Migrated
  <2>5. TaskInv'
    BY <1>1 DEF Lock, Proceed, tables, bounds, BootInv, TypeOK, TaskInv
  <2>6. ModelInv'
    BY <1>1 DEF Lock, Proceed, tables, bounds, BootInv, TypeOK, ModelInv,
           Committed, Migrated
  <2>7. QED
    BY <2>1, <2>2, <2>3, <2>4, <2>5, <2>6 DEF BootInv
<1>2. CASE ReadApplied(p)
  <2>1. TypeOK'
    BY <1>2, ConstantsAssumption
       DEF ReadApplied, Proceed, tables, bounds, BootInv, TypeOK, Migrating, Booting
  <2>2. FilesInv'
    BY <1>2 DEF ReadApplied, Proceed, tables, bounds, BootInv, TypeOK, FilesInv
  <2>3. LockInv'
    BY <1>2, ConstantsAssumption
       DEF ReadApplied, Proceed, tables, bounds, BootInv, TypeOK, LockInv, Migrating
  <2>4. RunInv'
    BY <1>2 DEF ReadApplied, Proceed, tables, bounds, BootInv, TypeOK, RunInv, Migrated
  <2>5. TaskInv'
    BY <1>2 DEF ReadApplied, Proceed, tables, bounds, BootInv, TypeOK, TaskInv
  <2>6. ModelInv'
    BY <1>2
       DEF ReadApplied, Proceed, tables, bounds, BootInv, TypeOK, ModelInv,
           Committed, Migrated
  <2>7. QED
    BY <2>1, <2>2, <2>3, <2>4, <2>5, <2>6 DEF BootInv
<1>3. CASE ApplyFile(p)
  BY <1>3, ApplyFileInv
<1>4. CASE AppliedAll(p)
  <2>1. TypeOK'
    BY <1>4, ConstantsAssumption
       DEF AppliedAll, Proceed, tables, bounds, BootInv, TypeOK, Migrating, Booting
  <2>2. FilesInv'
    BY <1>4 DEF AppliedAll, Proceed, tables, bounds, BootInv, TypeOK, FilesInv
  <2>3. LockInv'
    BY <1>4, ConstantsAssumption
       DEF AppliedAll, Proceed, tables, bounds, BootInv, TypeOK, LockInv, Migrating
  <2>4. RunInv'
    BY <1>4, AppliedAllRun
  <2>5. TaskInv'
    BY <1>4 DEF AppliedAll, Proceed, tables, bounds, BootInv, TypeOK, TaskInv
  <2>6. ModelInv'
    BY <1>4
       DEF AppliedAll, Proceed, tables, bounds, BootInv, TypeOK, ModelInv,
           Committed, Migrated
  <2>7. QED
    BY <2>1, <2>2, <2>3, <2>4, <2>5, <2>6 DEF BootInv
<1>5. CASE Unlock(p)
  <2>1. TypeOK'
    BY <1>5, ConstantsAssumption
       DEF Unlock, Abort, SessionEnds, Proceed, tables, bounds, BootInv, TypeOK, Migrating, Booting
  <2>2. FilesInv'
    BY <1>5 DEF Unlock, Abort, SessionEnds, Proceed, tables, bounds, BootInv, TypeOK, FilesInv
  <2>3. LockInv'
    BY <1>5, ConstantsAssumption
       DEF Unlock, Abort, SessionEnds, Proceed, tables, bounds, BootInv, TypeOK, LockInv, Migrating
  <2>4. RunInv'
    BY <1>5
       DEF Unlock, Abort, SessionEnds, Proceed, tables, bounds, BootInv, TypeOK, RunInv, Migrated
  <2>5. TaskInv'
    BY <1>5, UnlockTask
  <2>6. ModelInv'
    BY <1>5
       DEF Unlock, Abort, SessionEnds, Proceed, tables, bounds, BootInv, TypeOK, ModelInv,
           Committed, Migrated
  <2>7. QED
    BY <2>1, <2>2, <2>3, <2>4, <2>5, <2>6 DEF BootInv
<1>6. QED
  BY <1>1, <1>2, <1>3, <1>4, <1>5 DEF Migrate

LEMMA PrepareInv ==
  ASSUME BootInv, NEW p \in Procs, Prepare(p)
  PROVE  BootInv'
<1>1. CASE OpenPool(p)
  <2>1. TypeOK'
    BY <1>1, ConstantsAssumption
       DEF OpenPool, Proceed, tables, bounds, BootInv, TypeOK, Migrating, Booting
  <2>2. FilesInv'
    BY <1>1 DEF OpenPool, Proceed, tables, bounds, BootInv, TypeOK, FilesInv
  <2>3. LockInv'
    BY <1>1, ConstantsAssumption
       DEF OpenPool, Proceed, tables, bounds, BootInv, TypeOK, LockInv, Migrating
  <2>4. RunInv'
    BY <1>1 DEF OpenPool, Proceed, tables, bounds, BootInv, TypeOK, RunInv, Migrated
  <2>5. TaskInv'
    BY <1>1 DEF OpenPool, Proceed, tables, bounds, BootInv, TypeOK, TaskInv
  <2>6. ModelInv'
    BY <1>1
       DEF OpenPool, Proceed, tables, bounds, BootInv, TypeOK, ModelInv,
           Committed, Migrated
  <2>7. QED
    BY <2>1, <2>2, <2>3, <2>4, <2>5, <2>6 DEF BootInv
<1>2. CASE Guard(p)
  <2>1. TypeOK'
    BY <1>2, ConstantsAssumption
       DEF Guard, Abort, Proceed, tables, bounds, BootInv, TypeOK, Migrating, Booting
  <2>2. FilesInv'
    BY <1>2 DEF Guard, Abort, Proceed, tables, bounds, BootInv, TypeOK, FilesInv
  <2>3. LockInv'
    BY <1>2, ConstantsAssumption
       DEF Guard, Abort, Proceed, tables, bounds, BootInv, TypeOK, LockInv, Migrating
  <2>4. RunInv'
    BY <1>2 DEF Guard, Abort, Proceed, tables, bounds, BootInv, TypeOK, RunInv, Migrated
  <2>5. TaskInv'
    BY <1>2 DEF Guard, Abort, Proceed, tables, bounds, BootInv, TypeOK, TaskInv
  <2>6. ModelInv'
    BY <1>2, GuardModel
  <2>7. QED
    BY <2>1, <2>2, <2>3, <2>4, <2>5, <2>6 DEF BootInv
<1>3. CASE GuardInsert(p)
  <2>1. TypeOK'
    BY <1>3, ConstantsAssumption
       DEF GuardInsert, Abort, Proceed, bounds, BootInv, TypeOK, Migrating, Booting
  <2>2. FilesInv'
    BY <1>3 DEF GuardInsert, Abort, Proceed, bounds, BootInv, TypeOK, FilesInv
  <2>3. LockInv'
    BY <1>3, ConstantsAssumption
       DEF GuardInsert, Abort, Proceed, bounds, BootInv, TypeOK, LockInv, Migrating
  <2>4. RunInv'
    BY <1>3 DEF GuardInsert, Abort, Proceed, bounds, BootInv, TypeOK, RunInv, Migrated
  <2>5. TaskInv'
    BY <1>3 DEF GuardInsert, Abort, Proceed, bounds, BootInv, TypeOK, TaskInv
  <2>6. ModelInv'
    BY <1>3, GuardInsertModel
  <2>7. QED
    BY <2>1, <2>2, <2>3, <2>4, <2>5, <2>6 DEF BootInv
<1>4. CASE Sweep(p)
  <2>1. TypeOK'
    BY <1>4, ConstantsAssumption
       DEF Sweep, Proceed, bounds, BootInv, TypeOK, Migrating, Booting
  <2>2. FilesInv'
    BY <1>4 DEF Sweep, Proceed, bounds, BootInv, TypeOK, FilesInv
  <2>3. LockInv'
    BY <1>4, ConstantsAssumption
       DEF Sweep, Proceed, bounds, BootInv, TypeOK, LockInv, Migrating
  <2>4. RunInv'
    BY <1>4 DEF Sweep, Proceed, bounds, BootInv, TypeOK, RunInv, Migrated
  <2>5. TaskInv'
    BY <1>4 DEF Sweep, Proceed, bounds, BootInv, TypeOK, TaskInv
  <2>6. ModelInv'
    BY <1>4 DEF Sweep, Proceed, bounds, BootInv, TypeOK, ModelInv,
           Committed, Migrated
  <2>7. QED
    BY <2>1, <2>2, <2>3, <2>4, <2>5, <2>6 DEF BootInv
<1>5. CASE Build(p)
  <2>1. TypeOK'
    BY <1>5, ConstantsAssumption
       DEF Build, Abort, Proceed, tables, bounds, BootInv, TypeOK, Migrating, Booting
  <2>2. FilesInv'
    BY <1>5 DEF Build, Abort, Proceed, tables, bounds, BootInv, TypeOK, FilesInv
  <2>3. LockInv'
    BY <1>5, BuildLock
  <2>4. RunInv'
    BY <1>5 DEF Build, Abort, Proceed, tables, bounds, BootInv, TypeOK, RunInv, Migrated
  <2>5. TaskInv'
    BY <1>5 DEF Build, Abort, Proceed, tables, bounds, BootInv, TypeOK, TaskInv
  <2>6. ModelInv'
    BY <1>5
       DEF Build, Abort, Proceed, tables, bounds, BootInv, TypeOK, ModelInv,
           Committed, Migrated
  <2>7. QED
    BY <2>1, <2>2, <2>3, <2>4, <2>5, <2>6 DEF BootInv
<1>6. CASE Warmup(p)
  <2>1. TypeOK'
    BY <1>6, ConstantsAssumption
       DEF Warmup, Proceed, tables, bounds, BootInv, TypeOK, Migrating, Booting
  <2>2. FilesInv'
    BY <1>6 DEF Warmup, Proceed, tables, bounds, BootInv, TypeOK, FilesInv
  <2>3. LockInv'
    BY <1>6, ConstantsAssumption
       DEF Warmup, Proceed, tables, bounds, BootInv, TypeOK, LockInv, Migrating
  <2>4. RunInv'
    BY <1>6 DEF Warmup, Proceed, tables, bounds, BootInv, TypeOK, RunInv, Migrated
  <2>5. TaskInv'
    BY <1>6 DEF Warmup, Proceed, tables, bounds, BootInv, TypeOK, TaskInv
  <2>6. ModelInv'
    BY <1>6
       DEF Warmup, Proceed, tables, bounds, BootInv, TypeOK, ModelInv,
           Committed, Migrated
  <2>7. QED
    BY <2>1, <2>2, <2>3, <2>4, <2>5, <2>6 DEF BootInv
<1>7. CASE ResumeAudits(p)
  <2>1. TypeOK'
    BY <1>7, ConstantsAssumption
       DEF ResumeAudits, Proceed, tables, bounds, BootInv, TypeOK, Migrating, Booting
  <2>2. FilesInv'
    BY <1>7 DEF ResumeAudits, Proceed, tables, bounds, BootInv, TypeOK, FilesInv
  <2>3. LockInv'
    BY <1>7, ConstantsAssumption
       DEF ResumeAudits, Proceed, tables, bounds, BootInv, TypeOK, LockInv, Migrating
  <2>4. RunInv'
    BY <1>7 DEF ResumeAudits, Proceed, tables, bounds, BootInv, TypeOK, RunInv, Migrated
  <2>5. TaskInv'
    BY <1>7 DEF ResumeAudits, Proceed, tables, bounds, BootInv, TypeOK, TaskInv
  <2>6. ModelInv'
    BY <1>7
       DEF ResumeAudits, Proceed, tables, bounds, BootInv, TypeOK, ModelInv,
           Committed, Migrated
  <2>7. QED
    BY <2>1, <2>2, <2>3, <2>4, <2>5, <2>6 DEF BootInv
<1>8. CASE Seed(p)
  <2>1. TypeOK'
    BY <1>8, ConstantsAssumption
       DEF Seed, Proceed, bounds, BootInv, TypeOK, Migrating, Booting
  <2>2. FilesInv'
    BY <1>8 DEF Seed, Proceed, bounds, BootInv, TypeOK, FilesInv
  <2>3. LockInv'
    BY <1>8, ConstantsAssumption
       DEF Seed, Proceed, bounds, BootInv, TypeOK, LockInv, Migrating
  <2>4. RunInv'
    BY <1>8 DEF Seed, Proceed, bounds, BootInv, TypeOK, RunInv, Migrated
  <2>5. TaskInv'
    BY <1>8 DEF Seed, Proceed, bounds, BootInv, TypeOK, TaskInv
  <2>6. ModelInv'
    BY <1>8, SeedModel
  <2>7. QED
    BY <2>1, <2>2, <2>3, <2>4, <2>5, <2>6 DEF BootInv
<1>9. QED
  BY <1>1, <1>2, <1>3, <1>4, <1>5, <1>6, <1>7, <1>8 DEF Prepare

LEMMA ServeInv ==
  ASSUME BootInv, NEW p \in Procs, Serve(p)
  PROVE  BootInv'
<1>1. CASE StartIngestion(p)
  <2>1. TypeOK'
    BY <1>1, ConstantsAssumption
       DEF StartIngestion, bounds, BootInv, TypeOK, Migrating, Booting
  <2>2. FilesInv'
    BY <1>1 DEF StartIngestion, bounds, BootInv, TypeOK, FilesInv
  <2>3. LockInv'
    BY <1>1, ConstantsAssumption
       DEF StartIngestion, bounds, BootInv, TypeOK, LockInv, Migrating
  <2>4. RunInv'
    BY <1>1 DEF StartIngestion, bounds, BootInv, TypeOK, RunInv, Migrated
  <2>5. TaskInv'
    BY <1>1 DEF StartIngestion, bounds, BootInv, TypeOK, TaskInv
  <2>6. ModelInv'
    BY <1>1 DEF StartIngestion, bounds, BootInv, TypeOK, ModelInv,
           Committed, Migrated
  <2>7. QED
    BY <2>1, <2>2, <2>3, <2>4, <2>5, <2>6 DEF BootInv
<1>2. CASE FinishIngestion(p)
  <2>1. TypeOK'
    BY <1>2, ConstantsAssumption
       DEF FinishIngestion, bounds, BootInv, TypeOK, Migrating, Booting
  <2>2. FilesInv'
    BY <1>2 DEF FinishIngestion, bounds, BootInv, TypeOK, FilesInv
  <2>3. LockInv'
    BY <1>2, ConstantsAssumption
       DEF FinishIngestion, bounds, BootInv, TypeOK, LockInv, Migrating
  <2>4. RunInv'
    BY <1>2 DEF FinishIngestion, bounds, BootInv, TypeOK, RunInv, Migrated
  <2>5. TaskInv'
    BY <1>2 DEF FinishIngestion, bounds, BootInv, TypeOK, TaskInv
  <2>6. ModelInv'
    BY <1>2, FinishIngestionModel
  <2>7. QED
    BY <2>1, <2>2, <2>3, <2>4, <2>5, <2>6 DEF BootInv
<1>3. CASE LaunchAudit(p)
  <2>1. TypeOK'
    BY <1>3, ConstantsAssumption DEF LaunchAudit, bounds, BootInv, TypeOK, Migrating, Booting
  <2>2. FilesInv'
    BY <1>3 DEF LaunchAudit, bounds, BootInv, TypeOK, FilesInv
  <2>3. LockInv'
    BY <1>3, ConstantsAssumption DEF LaunchAudit, bounds, BootInv, TypeOK, LockInv, Migrating
  <2>4. RunInv'
    BY <1>3 DEF LaunchAudit, bounds, BootInv, TypeOK, RunInv, Migrated
  <2>5. TaskInv'
    BY <1>3 DEF LaunchAudit, bounds, BootInv, TypeOK, TaskInv
  <2>6. ModelInv'
    BY <1>3 DEF LaunchAudit, bounds, BootInv, TypeOK, ModelInv,
           Committed, Migrated
  <2>7. QED
    BY <2>1, <2>2, <2>3, <2>4, <2>5, <2>6 DEF BootInv
<1>4. CASE FinishAudit(p)
  <2>1. TypeOK'
    BY <1>4, ConstantsAssumption DEF FinishAudit, bounds, BootInv, TypeOK, Migrating, Booting
  <2>2. FilesInv'
    BY <1>4 DEF FinishAudit, bounds, BootInv, TypeOK, FilesInv
  <2>3. LockInv'
    BY <1>4, ConstantsAssumption DEF FinishAudit, bounds, BootInv, TypeOK, LockInv, Migrating
  <2>4. RunInv'
    BY <1>4 DEF FinishAudit, bounds, BootInv, TypeOK, RunInv, Migrated
  <2>5. TaskInv'
    BY <1>4 DEF FinishAudit, bounds, BootInv, TypeOK, TaskInv
  <2>6. ModelInv'
    BY <1>4 DEF FinishAudit, bounds, BootInv, TypeOK, ModelInv,
           Committed, Migrated
  <2>7. QED
    BY <2>1, <2>2, <2>3, <2>4, <2>5, <2>6 DEF BootInv
<1>5. CASE Shutdown(p)
  <2>1. TypeOK'
    BY <1>5, ConstantsAssumption
       DEF Shutdown, Proceed, tables, bounds, BootInv, TypeOK, Migrating, Booting
  <2>2. FilesInv'
    BY <1>5 DEF Shutdown, Proceed, tables, bounds, BootInv, TypeOK, FilesInv
  <2>3. LockInv'
    BY <1>5, ConstantsAssumption
       DEF Shutdown, Proceed, tables, bounds, BootInv, TypeOK, LockInv, Migrating
  <2>4. RunInv'
    BY <1>5 DEF Shutdown, Proceed, tables, bounds, BootInv, TypeOK, RunInv, Migrated
  <2>5. TaskInv'
    BY <1>5 DEF Shutdown, Proceed, tables, bounds, BootInv, TypeOK, TaskInv
  <2>6. ModelInv'
    BY <1>5
       DEF Shutdown, Proceed, tables, bounds, BootInv, TypeOK, ModelInv,
           Committed, Migrated
  <2>7. QED
    BY <2>1, <2>2, <2>3, <2>4, <2>5, <2>6 DEF BootInv
<1>6. CASE Stop(p)
  <2>1. TypeOK'
    BY <1>6, ConstantsAssumption
       DEF Stop, Proceed, tables, bounds, BootInv, TypeOK, Migrating, Booting
  <2>2. FilesInv'
    BY <1>6 DEF Stop, Proceed, tables, bounds, BootInv, TypeOK, FilesInv
  <2>3. LockInv'
    BY <1>6, ConstantsAssumption
       DEF Stop, Proceed, tables, bounds, BootInv, TypeOK, LockInv, Migrating
  <2>4. RunInv'
    BY <1>6 DEF Stop, Proceed, tables, bounds, BootInv, TypeOK, RunInv, Migrated
  <2>5. TaskInv'
    BY <1>6 DEF Stop, Proceed, tables, bounds, BootInv, TypeOK, TaskInv
  <2>6. ModelInv'
    BY <1>6 DEF Stop, Proceed, tables, bounds, BootInv, TypeOK, ModelInv,
           Committed, Migrated
  <2>7. QED
    BY <2>1, <2>2, <2>3, <2>4, <2>5, <2>6 DEF BootInv
<1>7. QED
  BY <1>1, <1>2, <1>3, <1>4, <1>5, <1>6 DEF Serve

LEMMA FaultsInv ==
  ASSUME BootInv, NEW p \in Procs, Faults(p)
  PROVE  BootInv'
<1>1. CASE FileBreaks(p)
  <2>1. TypeOK'
    BY <1>1, ConstantsAssumption
       DEF FileBreaks, Proceed, tables, BootInv, TypeOK, Migrating, Booting
  <2>2. FilesInv'
    BY <1>1 DEF FileBreaks, Proceed, tables, BootInv, TypeOK, FilesInv
  <2>3. LockInv'
    BY <1>1, ConstantsAssumption
       DEF FileBreaks, Proceed, tables, BootInv, TypeOK, LockInv, Migrating
  <2>4. RunInv'
    BY <1>1 DEF FileBreaks, Proceed, tables, BootInv, TypeOK, RunInv, Migrated
  <2>5. TaskInv'
    BY <1>1 DEF FileBreaks, Proceed, tables, BootInv, TypeOK, TaskInv
  <2>6. ModelInv'
    BY <1>1 DEF FileBreaks, Proceed, tables, BootInv, TypeOK, ModelInv,
           Committed, Migrated
  <2>7. QED
    BY <2>1, <2>2, <2>3, <2>4, <2>5, <2>6 DEF BootInv
<1>2. CASE BootFault(p)
  <2>1. TypeOK'
    BY <1>2, ConstantsAssumption
       DEF BootFault, Abort, SessionEnds, Proceed, tables, BootInv, TypeOK, Migrating, Booting
  <2>2. FilesInv'
    BY <1>2 DEF BootFault, Abort, SessionEnds, Proceed, tables, BootInv, TypeOK, FilesInv
  <2>3. LockInv'
    BY <1>2, ConstantsAssumption
       DEF BootFault, Abort, SessionEnds, Proceed, tables, BootInv, TypeOK, LockInv, Migrating
  <2>4. RunInv'
    BY <1>2
       DEF BootFault, Abort, SessionEnds, Proceed, tables, BootInv, TypeOK, RunInv, Migrated
  <2>5. TaskInv'
    BY <1>2 DEF BootFault, Abort, SessionEnds, Proceed, tables, BootInv, TypeOK, TaskInv,
               Booting, Migrating
  <2>6. ModelInv'
    BY <1>2
       DEF BootFault, Abort, SessionEnds, Proceed, tables, BootInv, TypeOK, ModelInv,
           Committed, Migrated
  <2>7. QED
    BY <2>1, <2>2, <2>3, <2>4, <2>5, <2>6 DEF BootInv
<1>3. CASE Crash(p)
  <2>1. TypeOK'
    BY <1>3, ConstantsAssumption
       DEF Crash, SessionEnds, Proceed, tables, BootInv, TypeOK, Migrating, Booting
  <2>2. FilesInv'
    BY <1>3 DEF Crash, SessionEnds, Proceed, tables, BootInv, TypeOK, FilesInv
  <2>3. LockInv'
    BY <1>3, ConstantsAssumption
       DEF Crash, SessionEnds, Proceed, tables, BootInv, TypeOK, LockInv, Migrating
  <2>4. RunInv'
    BY <1>3 DEF Crash, SessionEnds, Proceed, tables, BootInv, TypeOK, RunInv, Migrated
  <2>5. TaskInv'
    BY <1>3 DEF Crash, SessionEnds, Proceed, tables, BootInv, TypeOK, TaskInv
  <2>6. ModelInv'
    BY <1>3
       DEF Crash, SessionEnds, Proceed, tables, BootInv, TypeOK, ModelInv,
           Committed, Migrated
  <2>7. QED
    BY <2>1, <2>2, <2>3, <2>4, <2>5, <2>6 DEF BootInv
<1>4. QED
  BY <1>1, <1>2, <1>3 DEF Faults

LEMMA BootNext == BootInv /\ [Next]_vars => BootInv'
<1> SUFFICES ASSUME BootInv, [Next]_vars PROVE BootInv'
  OBVIOUS
<1>1. CASE UNCHANGED vars
  <2>1. TypeOK' /\ LockInv' /\ FilesInv'
    BY <1>1 DEF BootInv, TypeOK, LockInv, FilesInv, vars
  <2>2. RunInv' /\ TaskInv' /\ ModelInv'
    BY <1>1 DEF BootInv, RunInv, TaskInv, ModelInv, vars
  <2>3. QED
    BY <2>1, <2>2 DEF BootInv
<1>2. QED
  BY <1>1, UpgradeInv, StartInv, MigrateInv, PrepareInv, ServeInv, FaultsInv DEF Next

LEMMA BootAlways == Spec => []BootInv
BY BootInit, BootNext, PTL DEF Spec

\* Whatever boots, fails or dies, every variable of the processes and of their database keeps
\* its type.
THEOREM BootTypeCorrect == Spec => []TypeOK
<1>1. BootInv => TypeOK
  BY DEF BootInv
<1>2. QED
  BY <1>1, BootAlways, PTL

\* Two processes never migrate at the same time: the advisory lock is held as long as one does
\* and given back when it fails or dies (db.py:64-88).
THEOREM OneMigratesAtATime ==
  Spec => [](\A p, q \in Procs : pc[p] \in Migrating /\ pc[q] \in Migrating => p = q)
<1>1. BootInv => \A p, q \in Procs : pc[p] \in Migrating /\ pc[q] \in Migrating => p = q
  BY DEF BootInv, LockInv
<1>2. QED
  BY <1>1, BootAlways, PTL

\* However many processes boot and whichever of them fail, the migrations take effect once
\* each and in their order, and no boot is refused because of another one's migrations.
THEOREM MigrationsInOrderCorrect == Spec => []MigrationsInOrder
<1>1. BootInv => MigrationsInOrder
  BY DEF BootInv, FilesInv, RunInv, MigrationsInOrder
<1>2. QED
  BY <1>1, BootAlways, PTL

\* Whatever the models of the processes and whenever the operator upgrades, the index holds the
\* vectors of one model, before the upgrade the one every serving process has.
THEOREM IndexOfOneModelCorrect == Spec => []IndexOfOneModel
<1>1. BootInv => IndexOfOneModel
  <2> SUFFICES ASSUME BootInv PROVE IndexOfOneModel
    OBVIOUS
  <2>1. \A m, n \in vectors : m = n
    <3>1. CASE upgraded
      BY <3>1, UpgradeAssumption DEF BootInv, TypeOK, ModelInv
    <3>2. CASE ~upgraded
      BY <3>2 DEF BootInv, ModelInv
    <3>3. QED BY <3>1, <3>2
  <2>2. QED
    BY <2>1 DEF BootInv, ModelInv, Committed, Migrated, IndexOfOneModel
<1>2. QED
  BY <1>1, BootAlways, PTL

\* A pool is open on a migrated database only, a failed boot closes its own, and no clean stop
\* closes it under an ingestion.
THEOREM PoolDisciplineCorrect == Spec => []PoolDiscipline
<1>1. BootInv => PoolDiscipline
  BY DEF BootInv, RunInv, TaskInv, PoolDiscipline
<1>2. QED
  BY <1>1, BootAlways, PTL

=============================================================================
