\* help() on one option with a description longer than the margin.
CONSTANTS
    Decls <- MCWrapDecls
    NoHelp <- MCNoHelp
SPECIFICATION Spec
PROPERTY BreaksPastMargin
