SPECIFICATION Spec
CONSTANTS
    Questions <- MCQuestions
    Stored <- MCStored
    Statements <- MCStatements
    Scopes <- MCScopes
    Facts <- MCFacts
    Employers <- MCEmployers
    HistoryLimit = 2
    Alike <- MCAlike
    SeedKeys <- MCSeedKeys
    MaxRows = 2
INVARIANTS ClaimsAreVerified
