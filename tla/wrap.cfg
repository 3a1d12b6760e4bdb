SPECIFICATION FairSpec
CONSTANTS
    MaxLen = 7
    Octet = {"x", " ", "CR", "LF", "TAB"}
    Texts <- AllTexts
    Width = 2
INVARIANTS
    TypeOK
    Unfolds
    BrokenInTime
PROPERTIES
    Ends
