SPECIFICATION Spec
CONSTANTS
    SeedPrograms <- MCSeedPrograms
    Snippets <- MCSnippets
    Globals = {1}
    SeedTop = 1000000
    SnippetTop = 100000
    FirstFresh = 4000000
    MaxMutations = 2
INVARIANTS
    JumpsHaveLabels
    NoKeyError
    UsesDeclared
    LocalsAreHashed
CHECK_DEADLOCK FALSE
