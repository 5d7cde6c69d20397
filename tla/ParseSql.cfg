SPECIFICATION Spec
CONSTANTS
    Rules <- SqlRules
    HiddenRules <- SqlHiddenRules
    Spelling <- Characters
    Patterns <- MCPatterns
    Inputs <- MCStatements
INVARIANTS
    RulesEnd
    NoAlternativeIsShadowed
    TreeIsWhole
    HintsAreTruthful
    
\* A string that was parsed or refused is the end.
CHECK_DEADLOCK FALSE
