SPECIFICATION Spec
CONSTANTS
    Word <- Words
    Upper <- UpperCase
    Chopped <- Shorter
    EightBit = {"nonASCII"}
    Lines <- AllLines
    MaxTokens = 5
INVARIANTS
    NothingLost
    Dispatched
