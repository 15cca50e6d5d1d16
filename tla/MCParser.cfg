\* Sentences of the grammar and their neighbours, expressions, short programs.
SPECIFICATION ParserSpec
CONSTANTS
    Inputs <- MCInputs
    MaxDepth = 2000
    MaxLine = 32767
INVARIANTS
    ParserTypeOK
    AcceptsWhatIsDerived
    LinesAscend
    ExpressionsReadRight
    PartsOfIf
CHECK_DEADLOCK FALSE
