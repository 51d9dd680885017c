----------------------------- MODULE MCIndexing -----------------------------
(* Files of every type, with up to four items. *)
EXTENDS Indexing

CONSTANTS MaxItems

Text(ps) == [kind |-> "text", paras |-> ps]
Heading(level, name) == [kind |-> "heading", level |-> level, name |-> name]
One(n) == [len |-> n, letters |-> n, sentences |-> <<n>>]

\* Paragraphs that fit, that take a part of a chunk, that are cut at their sentences, and a
\* sentence that is cut itself.
Short == One(2)
Full == One(6)
Three == [len |-> 11, letters |-> 9, sentences |-> <<2, 3, 4>>]
Long == One(15)
Blank == [len |-> 0, letters |-> 0, sentences |-> <<>>]

Headings1 == {Heading(1, "a"), Heading(2, "b"), Heading(2, "c"), Heading(3, "d")}
Texts == {Text(<<Short>>), Text(<<Long>>)}

\* Headings and texts, the last item a text.
Sectioned == {s \in SeqOf(Headings1 \cup Texts, MaxItems) :
                /\ s # <<>> => s[Len(s)].kind = "text"
                /\ Cardinality({i \in DOMAIN s : s[i].kind = "text"}) <= 2
                /\ \A i \in DOMAIN s : s[i] = Text(<<Long>>) => i = Len(s)}
Pages == SeqOf(Texts \cup {Text(<<>>), Text(<<Three, Short>>), Text(<<Full, Blank, Short>>)}, 2)

MCFiles ==
  [type : {"md"}, title : {<<>>}, items : Sectioned]
    \cup [type : {"docx"}, title : {<<"title">>},
          items : {s \in Sectioned : Len(s) <= 3}
                    \cup {<<Heading(1, "a"), Heading(1, ""), Text(<<Short>>)>>}]
    \cup [type : {"pdf"}, title : {<<"title">>}, items : Pages]
    \cup [type : {"txt"}, title : {<<>>}, items : {s \in Pages : Len(s) <= 1}]
    \cup [type : {"other"}, title : {<<>>}, items : {<<>>}]
=============================================================================
