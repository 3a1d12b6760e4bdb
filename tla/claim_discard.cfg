SPECIFICATION DialogueSpec
CONSTANTS
    a1 = a1
    u1 = u1
    Address = {a1}
    NoAddress = NoAddress
    BufSize = 4
    Configs <- DialogueConfigs
    BadCmds = 2
    MsgSize = 2
    DefaultMsgSize = 3
    MaxRcptCount = 0
    Users = {u1}
    NoUser = NoUser
    BodyTypes = {"", "8BITMIME", "BINARYMIME"}
    MailExtLists <- NoMailExts
    RcptArgLists <- FewRcptArgs
    LineLengths = {1}
    ChunkSizes = {1, 2}
    MaxData = 6
    Word <- Words
    Upper <- UpperCase
    Chopped <- Shorter
    EightBit = {}
    CommandLines <- LinesFor
    TextLines <- Texts
    PathOf <- Paths
    ExtensionOf <- Extensions
    NumberOf <- Numbers
    Ahead = {"MAIL", "RCPT", "RSET", "BDAT", "STARTTLS"}
    MaxChunked = 3
    MaxGroup = 2
    MaxText = 3
INVARIANT
    ChunkDiscarded
