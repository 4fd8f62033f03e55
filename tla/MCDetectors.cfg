SPECIFICATION DetectorsSpec
CONSTANTS
    Bytes <- MCBytes
    PatternLists <- MCPatternLists
    Texts <- MCTexts
    Lower <- MCLower
    Space = " "
    NoMatch = NoMatch
    Characters <- MCCharacters
    Candidates <- MCCandidates
    Separators <- MCSeparators
    Capacity = 4
    MinDigits = 2
    MaxDigits = 3
INVARIANTS
    MatcherFindsFirst
    LuhnIsRight
CHECK_DEADLOCK FALSE
