CONSTANTS
    ARGPARSE_INITIAL_COMMAND_NR = 5
    Texts <- MCTexts
    Length <- MCLength
    CommandLines <- MCCommandLines
    Decimal <- MCDecimal
    Hexadecimal <- MCHexadecimal
    ByteMod = 4
    IntMod = 8
    LongMod = 64
SPECIFICATION Spec
INVARIANT DeviceBehindCommand
CHECK_DEADLOCK FALSE
