---------------------------- MODULE MCQueryIntake ----------------------------
(* Instances of QueryIntake: every file of up to MaxTokens tokens, a query or *)
(* none on the command line, and a prompt.                                    *)
EXTENDS QueryIntake

CONSTANT MaxTokens

SomeTokens == {"PARALLEL", "NAME", " ", "select", ";", "quit"}

SomeTexts == {<<>>, <<"NAME", " ", "NAME", " ", "PARALLEL", " ", "PARALLEL">>}

EveryFile == UNION {[1 .. n -> SomeTokens \ {"quit"}] : n \in 0 .. MaxTokens}

SomeLines == <<<<>>, <<" ">>, <<"quit">>, <<"select">> >>
=============================================================================
