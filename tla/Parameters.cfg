SPECIFICATION Spec
CONSTANTS
    Lexemes <- SqlLexemes
    MaxLexemes = 3
    MaxUses = 3
    Habits <- UsualHabits
INVARIANTS
    ServerSeesQuery
    RightBindingRuns
