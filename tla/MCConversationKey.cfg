SPECIFICATION HandlerSpec
CONSTANTS
    search = search
    slow = slow
    short = short
    document = document
    longWords = longWords
    shortWords = shortWords
    s1 = s1
    NoBody = NoBody
    Unnamed = Unnamed
    UnknownTool = UnknownTool
    NoTool = NoTool
    NoScope = NoScope
    Tool = {search, slow}
    Text = {short, document, longWords, shortWords}
    ReplyText = {short}
    LongInChars = {document, longWords}
    LongInTokens = {document, shortWords}
    Sessions = {NoScope, s1}
    Calls <- MCCalls
    Configurations <- MCConfigurations
    NoProfile = NoProfile
    MaxMessages = 6
CHECK_DEADLOCK FALSE
PROPERTIES KeyStaysFixed
