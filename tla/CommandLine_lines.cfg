SPECIFICATION Spec
CONSTANTS
    Plain <- PlainWords
    Quoted <- QuotedWords
    Glob <- TwoFiles
    Names <- Found
    Aliases <- OneAlias
    Operators <- OneOperator
    PathDirs = 1
    MaxCmds = 2
    MaxArgs = 2
INVARIANTS TypeOK LineStandsAlone FlagsSettled CommandsHaveWords
CHECK_DEADLOCK FALSE
