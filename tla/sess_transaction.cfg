SPECIFICATION Spec
CONSTANTS
    a1 = a1
    u1 = u1
    Address = {a1}
    NoAddress = NoAddress
    BufSize = 4
    Configs <- TransactionConfigs
    BadCmds = 2
    MsgSize = 2
    DefaultMsgSize = 3
    MaxRcptCount = 1
    Users = {u1}
    NoUser = NoUser
    BodyTypes = {"", "8BITMIME", "BINARYMIME"}
    MailExtLists <- AllMailExts
    RcptArgLists <- AllRcptArgs
    LineLengths = {0, 1, 3}
    ChunkSizes <- SomeChunks
    MaxData = 7
INVARIANTS
    TypeOK
    DeliveryGated
    InSync
    MessageIsolated
    SizeRespected
    BadCommandsBounded
PROPERTIES
    RecipientsAcknowledged
    ServiceSpec
