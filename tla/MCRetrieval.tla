----------------------------- MODULE MCRetrieval -----------------------------
(* Two documents, one with three chunks, and two users. *)
EXTENDS Retrieval, TLC

CONSTANTS d1, d2, c1, c2, c3, c4

MCDocOf == c1 :> d1 @@ c2 :> d1 @@ c3 :> d1 @@ c4 :> d2
MCContent == c1 :> {"law", "tax"} @@ c2 :> {"law"} @@ c3 :> {"who"} @@ c4 :> {"law", "die"}

\* "die" is a stopword in German and a word in English; "who" is on the stop list.
MCLexeme ==
  "en" :> ("law" :> "w1" @@ "tax" :> "w2" @@ "die" :> "w3" @@ "who" :> "w4") @@
  "de" :> ("law" :> "w1" @@ "tax" :> "w5" @@ "die" :> "-" @@ "who" :> "w4")

MCQuestions == {{"law"}, {"law", "tax"}, {"tax", "die"}, {"who", "tax"}}
=============================================================================
