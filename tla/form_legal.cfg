\* No question has a lone option, and nothing is stored but answers to the form's own
\* question: what is filled beside them comes from the profile's defaults.
SPECIFICATION Spec
CONSTANTS
    Questions <- MCOpenQuestions
    Stored <- MCOwnAnswers
    Statements <- MCStatements
    Scopes <- MCScopes
    Facts <- MCFacts
    Employers <- MCEmployers
    HistoryLimit = 2
    Alike <- MCAlike
    SeedKeys = {}
    MaxRows = 2
INVARIANTS LegalFailsClosed
