\* help() over every list of one or two options of each shape: the column
\* count hp is the output column whenever help tests it.
CONSTANTS
    Decls <- MCDecls
    NoHelp <- MCNoHelp
SPECIFICATION Spec
INVARIANT ColumnTracked
