--------------------------- MODULE MCConversions ---------------------------
(***************************************************************************)
(* Every template of up to six characters and those that open two braces,  *)
(* and every phrase of up to four short words, acronyms among them.        *)
(***************************************************************************)
EXTENDS Conversions

Texts(len) == UNION {[1..n -> {"$", "{", "}", "x", "1"}] : n \in 0..len}

MCTemplates ==
    Texts(6) \cup {<<"$", "{">> \o s \o <<"$", "{">> \o t : s, t \in Texts(3)}

\* One value looks like a reference itself.
MCEnv == (<<"x">> :> <<"$", "{", "x", "}">>) @@ (<<"x", "1">> :> <<"y">>)

Words == {[letters |-> l, acronym |-> a] :
             l \in {<<"x">>, <<"x", "y">>, <<"y", "1">>, <<"x", "1", "y">>, <<"x", "y", "1">>}, a \in BOOLEAN}

MCPhrases == UNION {[1..n -> Words] : n \in 1..4}
=============================================================================
