SPECIFICATION Spec
CONSTANTS
    N = 5
    Graphs <- MCGraphs
    Earlier <- MCEarlier
    Questions <- MCQuestions
    Searches = {s1, s2}
    Failures = TRUE
    MaxSearches = 2
CHECK_DEADLOCK FALSE
INVARIANTS ExhaustiveUnlessDisturbed FindsTheShortest
