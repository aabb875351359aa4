SPECIFICATION Spec
CONSTANTS
    Letters <- OneLetter
    Jobs <- TwoNames
    StrLen = 8
    ArgsLen = 4
    MaxLen = 6
    Lines <- TerminalLines
    ArgStrings <- ApiStrings
    NULL = NULL
INVARIANTS
    TypeOK
    WordsAsGiven
    NamedIsLaunched
