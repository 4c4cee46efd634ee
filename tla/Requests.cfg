SPECIFICATION Spec
CONSTANTS
    Symbols = {"/", ",", "{", "}", " ", "nl", "x", "channels", "sources", "key:", "id:", "42", "word"}
    Words = {"channels", "sources", "key:", "id:", "42", "word"}
    Blanks = {" ", "nl"}
    Width = 256
    NoToken = NoToken
    Sizes = {0, 10}
    Methods = {"GET", "POST", "UPDATE", "DELETE"}
    AlNum = {"channels", "sources", "x"}
    Figures = {"42"}
    MaxUri = 6
    MaxLine = 5
    MaxMembers = 3
    Uris <- MCUris
    FileLines <- MCFileLines
    Replies <- MCReplies
INVARIANTS FitsMemory TokensFaithful Dispatched IdFound
