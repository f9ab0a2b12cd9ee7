CONSTANTS
    ARGPARSE_INITIAL_COMMAND_NR = 5
    Texts <- MCTexts
    Length <- MCLength
    CommandLines <- MCCommandLines
    Decimal <- MCDecimal
    Hexadecimal <- MCHexadecimal
    ByteMod = 4
    IntMod = 8
    LongMod = 64
SPECIFICATION FairSpec
INVARIANTS TypeOK FirstCommandRuns GivenIsSent CrashesExplained
PROPERTIES ParseEnds
CHECK_DEADLOCK FALSE
