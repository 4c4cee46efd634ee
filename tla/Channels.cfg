SPECIFICATION FairSpec
CONSTANTS
    StartingPort = 1
    PortSpace = 14
    None = None
    Me = Me
    far = far
    padded = padded
    zero = zero
    local = local
    remote = remote
    Ids = {s1, s2}
    Names = {local, remote}
    Display = {local}
    Hosts <- MCHosts
    Odd <- MCOdd
    OddValue <- MCOddValue
    Lines <- MCLines
    MaxLines = 1
INVARIANTS TypeOK NamedSourceListed AnswerNamed
PROPERTIES DumpIsOwn ListsFollow
