SPECIFICATION FairReplySpec
CONSTANTS
    Chars <- MCChars
    OpenTag <- MCOpenTag
    CloseTag <- MCCloseTag
    NoReply = NoReply
    MaxInput = 8
    MaxPiece = 2
    MaxTokens = 1
INVARIANTS
    StoredIsStripped
    ShownIsFinal
    HoldsOnlyATag
    UsageOnce
PROPERTY FeedReturns
CHECK_DEADLOCK FALSE
