SPECIFICATION Spec
CONSTANTS
    Symbols <- MCSymbols
    Files <- MCFiles
    FileOf <- MCFileOf
    Texts <- MCTexts
    Questions <- MCQuestions
    Queries = {q1, q2}
    Implements <- MCImplements
    MaxQueries = 2
    MaxEdits = 2
    MaxMishaps = 1
    None = None
CHECK_DEADLOCK FALSE
INVARIANTS ExactUnlessDisturbed
PROPERTIES LookupsAreComplete
