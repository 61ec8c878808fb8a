---------------------------- MODULE MCCallPath ----------------------------
\* Five symbols.  In one graph there are two ways of different lengths from 1 to 4
\* and a way back, in the other a cycle from which 4 cannot be reached; what earlier
\* lookups left may be complete or show a call that is gone.
EXTENDS CallPath
MCGraphs == {{<<1, 2>>, <<1, 3>>, <<2, 4>>, <<3, 5>>, <<5, 4>>, <<3, 1>>},
             {<<1, 3>>, <<3, 2>>, <<2, 1>>, <<4, 5>>}}
MCEarlier == {[recorded |-> {}, shown |-> {}], [recorded |-> {3}, shown |-> {<<1, 4>>}]}
Asks(from, to, depth, budget, client) ==
    [from |-> from, to |-> to, depth |-> depth, budget |-> budget, client |-> client]
MCQuestions == {Asks(1, 4, 3, 5, TRUE), Asks(3, 4, 1, 5, TRUE), Asks(1, 4, 3, 1, TRUE),
                Asks(2, 4, 2, 0, FALSE), Asks(2, 2, 1, 1, TRUE)}
=============================================================================
