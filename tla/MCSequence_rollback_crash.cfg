SPECIFICATION SequenceSpec
CONSTANTS
    Nil = Nil
    IntMin <- MinInt6
    IntMax = 31
    Infos <- JustUp
PROPERTIES AlwaysMonotonic
