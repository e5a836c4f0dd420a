------------------------------- MODULE MCAgent -------------------------------
EXTENDS Agent

\* Two servers whose aliases and tool names run into each other ("a" with
\* "b__c", "a__b" with "c"), with interfaces at the same URI, a template, a
\* prompt, a URI without authority and a tool that is denied.
Thing(k, n) == [kind |-> k, name |-> n, ui |-> <<>>]
Form        == Thing("resource", <<"ui", "://", "form">>)
WithForm(n) == [Thing("tool", n) EXCEPT !.ui = Form.name]

MCWords  == {"sandrpod", "ui", "db", "://", "/", "{}", "x", "from", "form", "rows", "urn",
             "A", "B", "a", "b", "c", "p", "no"}
MCOrder  == <<"A", "B">>
MCAlias  == [A |-> <<"a">>, B |-> <<"a", "b">>]
MCOffers == [A |-> {{WithForm(<<"b", "c">>), Form, Thing("template", <<"db", "://", "{}", "/", "rows">>)}},
             B |-> {{WithForm(<<"c">>), Form, Thing("tool", <<"no">>), Thing("prompt", <<"p">>),
                     Thing("resource", <<"urn">>)}}]
MCHidden == [A |-> {}, B |-> {Thing("tool", <<"no">>)}]

\* What the proof of CallsRouted asks of the names holds here.
ASSUME MCNamesApart == T!NamesApart
=============================================================================
