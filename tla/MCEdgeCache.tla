---------------------------- MODULE MCEdgeCache ----------------------------
\* Two files: a has one function, b has two.  The first function may call one of
\* the others, C, an interface's method which B implements; a line inserted into b
\* moves both, the one to where the other was.
EXTENDS EdgeCache
MCSymbols == {"A", "B", "C"}
MCFiles == {"a", "b"}
MCFileOf == [s \in MCSymbols |-> IF s = "A" THEN "a" ELSE "b"]
MCQuestions == {<<"A", "callees">>, <<"C", "callers">>, <<"C", "references">>}
MCTexts ==
    [f \in MCFiles |->
        IF f = "a"
        THEN {[at |-> [s \in {"A"} |-> 1], calls |-> c] : c \in {{}, {<<"A", "C">>}}}
        ELSE {[at |-> [s \in {"B", "C"} |-> IF s = "B" THEN n ELSE n + 1], calls |-> {}] : n \in {1, 2}}]
MCImplements == {<<"C", "B">>}
=============================================================================
