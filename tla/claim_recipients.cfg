SPECIFICATION Spec
CONSTANTS
    a1 = a1
    u1 = u1
    Address = {a1}
    NoAddress = NoAddress
    BufSize = 4
    Configs <- TransactionConfigs
    BadCmds = 1
    MsgSize = 2
    DefaultMsgSize = 3
    MaxRcptCount = 1
    Users = {u1}
    NoUser = NoUser
    BodyTypes = {"", "8BITMIME", "BINARYMIME"}
    MailExtLists <- FewMailExts
    RcptArgLists <- FewRcptArgs
    LineLengths = {0, 1, 2}
    ChunkSizes = {1}
    MaxData = 6
INVARIANT
    RecipientsWithinLimit
