----------------------------- MODULE Delegation -----------------------------
(***************************************************************************)
(* One call of a language model: the prompt (chat/prompts.py), the masking *)
(* of what leaves (llm/redacting.py, redaction.py) and the reply as the    *)
(* adapters read it off the wire (llm/ollama.py, llm/openai_compat.py,     *)
(* llm/azure.py).                                                          *)
(*                                                                         *)
(* A text is known by the identifiers in it, in runs: a run is what is     *)
(* printed without a word between, so that the match of one identifier may *)
(* go on into the next.  Each identifier is written as its rule expects;   *)
(* it is plain, masked, masked but for its last character, or torn: a      *)
(* match took a part of it and no rule finds the rest.  A reply is known   *)
(* by the number of its pieces.                                            *)
(***************************************************************************)
EXTENDS Naturals, Sequences

CONSTANTS
  Texts,        \* what questions, answers and passages may hold
  MaxPassages,  \* bound: passages of a prompt
  MaxReply      \* bound: pieces of a reply

VARIABLES
  redaction,    \* REDACTION_PROVIDER
  wire,         \* the protocol of the adapter
  exchange      \* the call: its prompt as sent, the server, the reply so far

callVars == <<redaction, wire, exchange>>

\* An "iban1" is an IBAN in groups of four with one character left over; "phone+" and
\* "phone00" are international, "phone0" is the Swiss notation.
Ibans == {"iban", "iban1"}
Phones == {"phone+", "phone00", "phone0"}
Direct == {"email", "avs"} \cup Ibans \cup Phones     \* what the rules recognize
Kinds == Direct \cup {"name"}

\* taken: what a match that reaches the identifier from the one before takes of it.
Identifier ==
  [kind : Kinds, taken : {"none", "part", "whole"}, state : {"plain", "masked", "tail", "torn"}]

\* The single character of an "iban1" is in no match; a match that takes a part of an
\* identifier ends in it.
Runs ==
  {run \in Seq(Identifier) :
     \A i \in DOMAIN run :
       /\ run[i].state = "plain"
       /\ run[i].kind = "iban1" => run[i].taken # "whole"
       /\ i > 1 /\ run[i].taken # "none" => run[i - 1].taken # "part"}

ASSUME TextsAssumption == Texts \subseteq SUBSET Runs

Nothing == {}
Message(role, text) == [role |-> role, text |-> text]

-----------------------------------------------------------------------------
(* Masking.                                                                *)

\* The identifiers a rule is for.
Own(rule) ==
  CASE rule = "email" -> {"email"}
    [] rule = "iban" -> Ibans
    [] rule = "avs" -> {"avs"}
    [] rule = "phone" -> Phones

\* Those of them whose match goes on over the groups that follow.
Goes(rule) == CASE rule = "iban" -> {"iban"} [] rule = "phone" -> {"phone+", "phone00"} [] OTHER -> {}

\* What it may go on into: groups of capitals and digits, or of digits.
Takes(rule) ==
  CASE rule = "iban" -> Ibans \cup {"avs", "phone00", "phone0"}
    [] rule = "phone" -> {"avs", "phone00", "phone0"}
    [] OTHER -> {}

\* What the pattern of a rule finds inside an identifier of another kind: digit runs
\* of an IBAN, a phone number in an AVS number, any of the three in an address.
Finds(rule, kind) ==
  \/ rule \in {"avs", "phone"} /\ kind \in Ibans
  \/ rule = "phone" /\ kind = "avs"
  \/ rule \in {"iban", "avs", "phone"} /\ kind = "email"

\* A match that starts at an identifier before n gets to n: all between are in it.
Reaches(rule, run, n) ==
  \E j \in 1..(n - 1) :
    /\ run[j].kind \in Goes(rule)
    /\ \A i \in j..n : run[i].state = "plain" /\ (i > j => run[i].kind \in Takes(rule))
    /\ \A i \in (j + 1)..(n - 1) : run[i].taken = "whole"
    /\ run[n].taken # "none"

\* What one substitution over a run makes of the identifier at n.
Outcome(rule, run, n) ==
  LET x == run[n] IN
  IF x.state # "plain" THEN x.state
  ELSE IF Reaches(rule, run, n) THEN IF x.taken = "whole" THEN "masked" ELSE "torn"
  ELSE CASE x.kind \in Own(rule) -> IF x.kind = "iban1" THEN "tail" ELSE "masked"
         [] Finds(rule, x.kind) -> "torn"
         [] OTHER -> "plain"

Substitute(rule, run) ==
  [n \in DOMAIN run |-> [run[n] EXCEPT !.state = Outcome(rule, run, n)]]

\* Mutant: the rules from the shortest pattern to the longest.
GenericFirst(run) ==
  Substitute("email", Substitute("iban", Substitute("avs", Substitute("phone", run))))

\* The rules in their order: specific before generic.
RedactPatterns(run) ==
  Substitute("phone", Substitute("avs", Substitute("iban", Substitute("email", run))))

\* Patterns first, then the names the analyser reports.
RedactNames(run) ==
  LET masked == RedactPatterns(run)
  IN [n \in DOMAIN masked |->
        IF masked[n].kind = "name" THEN [masked[n] EXCEPT !.state = "masked"] ELSE masked[n]]

Redact(text) ==
  CASE redaction = "none" -> text
    [] redaction = "patterns" -> {RedactPatterns(run) : run \in text}
    [] redaction = "ner" -> {RedactNames(run) : run \in text}

\* Mutant: only what retrieval adds is masked, as a redactor in the prompt builder would.
MaskPassages(messages) ==
  [i \in DOMAIN messages |->
     IF i = 1 THEN Message(messages[i].role, Redact(messages[i].text)) ELSE messages[i]]

\* The wrapped client masks every message, whatever its role.
Masked(messages) ==
  [i \in DOMAIN messages |-> Message(messages[i].role, Redact(messages[i].text))]

-----------------------------------------------------------------------------
(* The prompt.                                                             *)

\* The numbered passages follow the system prompt in one text, each behind its label.
Context(hits) == UNION {hits[i] : i \in DOMAIN hits}

BuildMessages(history, question, hits) ==
  <<Message("system", IF hits = <<>> THEN Nothing ELSE Context(hits))>>
    \o history \o <<Message("user", question)>>

Histories == {<<>>} \cup {<<Message("user", q), Message("assistant", a)>> : q, a \in Texts}

-----------------------------------------------------------------------------
(* The call.                                                               *)

NoCall ==
  [pc |-> "new", outbound |-> <<>>, server |-> "generating", generated |-> 0, pieces |-> 0,
   counted |-> FALSE]

CallInit ==
  /\ redaction \in {"none", "patterns", "ner"}
  /\ wire \in {"ollama", "openai"}
  /\ exchange = NoCall

Streaming == exchange.pc = "streaming" /\ exchange.server = "generating"

StreamChat ==
  /\ exchange.pc = "new"
  /\ \E n \in 0..MaxPassages : \E hits \in [1..n -> Texts], history \in Histories, q \in Texts :
       exchange' = [exchange EXCEPT !.pc = "streaming",
                                    !.outbound = Masked(BuildMessages(history, q, hits))]
  /\ UNCHANGED <<redaction, wire>>

\* A line with text.  Blank lines and empty deltas are passed over.
ReadDelta ==
  /\ Streaming /\ exchange.generated < MaxReply
  /\ exchange' = [exchange EXCEPT !.generated = @ + 1, !.pieces = @ + 1]
  /\ UNCHANGED <<redaction, wire>>

\* The server's last line: Ollama's "done" ends the generator; the usage of the
\* OpenAI protocol, in a chunk with or without text, is followed by the end of
\* the body.  Either may come without the token counts.
ReadFinal ==
  /\ Streaming
  /\ \E counts \in BOOLEAN, text \in IF wire = "openai" THEN 0..1 ELSE {0} :
       exchange' = [exchange EXCEPT !.server = "complete", !.counted = counts,
                                    !.generated = @ + text, !.pieces = @ + text,
                                    !.pc = IF wire = "ollama" THEN "finished" ELSE @]
  /\ UNCHANGED <<redaction, wire>>

\* Mutant: an error line is passed over like any line without text.
PassOverError ==
  /\ Streaming
  /\ exchange' = [exchange EXCEPT !.server = "crashed"]
  /\ UNCHANGED <<redaction, wire>>

\* The server reports a failure in the stream of an HTTP 200.
ReadError ==
  /\ Streaming
  /\ exchange' = [exchange EXCEPT !.server = "crashed", !.pc = "failed"]
  /\ UNCHANGED <<redaction, wire>>

\* A line that is no JSON object, a status that is no success, a connection
\* refused, timed out or dropped: all are ProviderError.
ProviderError ==
  /\ exchange.pc = "streaming"
  /\ exchange' = [exchange EXCEPT !.pc = "failed"]
  /\ UNCHANGED <<redaction, wire>>

\* The end of a body the server closed after its last line.  A body that is cut
\* short before that does not end: its framing tells (ProviderError).
EndOfBody ==
  /\ exchange.pc = "streaming" /\ exchange.server # "generating"
  /\ exchange' = [exchange EXCEPT !.pc = "finished"]
  /\ UNCHANGED <<redaction, wire>>

\* The consumer closes the generator.
CloseStream ==
  /\ exchange.pc = "streaming"
  /\ exchange' = [exchange EXCEPT !.pc = "closed"]
  /\ UNCHANGED <<redaction, wire>>

CallNext ==
  \/ StreamChat \/ ReadDelta \/ ReadFinal \/ ReadError
  \/ ProviderError \/ EndOfBody \/ CloseStream

CallSpec == CallInit /\ [][CallNext]_callVars

-----------------------------------------------------------------------------
(* Correctness.                                                            *)

CallTypeOK ==
  /\ redaction \in {"none", "patterns", "ner"}
  /\ wire \in {"ollama", "openai"}
  /\ exchange.pc \in {"new", "streaming", "finished", "failed", "closed"}
  /\ exchange.server \in {"generating", "complete", "crashed"}
  /\ exchange.generated \in Nat /\ exchange.pieces \in Nat /\ exchange.counted \in BOOLEAN

\* What a provider may see of an identifier: the character test_redaction.py:34 leaves of
\* an IBAN, and the rest of a number behind another one whose match ends in it.
KeptIn(run, n) ==
  \/ run[n].state = "masked"
  \/ run[n].state = "tail" /\ run[n].kind = "iban1"
  \/ /\ run[n].state = "torn" /\ run[n].taken = "part" /\ run[n].kind \notin {"email", "phone+"}
     /\ n > 1 /\ run[n - 1].kind \in Direct \ {"email", "iban1"}

\* "Everything that travels to the provider goes through one choke point: the
\* user's question, the conversation history and the retrieved passages alike"
\* (redacting.py:3-8).  With a redactor no direct identifier leaves plain, and none in
\* part for another reason than those two: no rule spoils what a later one is for.
IdentifiersStayIn ==
  redaction # "none" =>
    \A m \in DOMAIN exchange.outbound : \A run \in exchange.outbound[m].text :
      \A n \in DOMAIN run : run[n].kind \in Direct => KeptIn(run, n)

\* A reply that ended without ProviderError is all the server had to say: the
\* contract of stream_chat (llm/base.py:21-24), on which the error code of an
\* answer rests.
FinishedIsWhole ==
  exchange.pc = "finished" =>
    exchange.server = "complete" /\ exchange.pieces = exchange.generated

=============================================================================
