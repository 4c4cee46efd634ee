----------------------------- MODULE MCRequests -----------------------------
EXTENDS Requests

CONSTANTS
    MaxUri,         \* bound: symbols of a URI
    MaxLine,        \* bound: symbols of a line
    MaxMembers      \* bound: members of an answer

Seqs(S, max) == UNION {[1..k -> S] : k \in 0..max}

\* Every URI begins with a slash.
MCUris ==
    {<<"/">> \o u : u \in Seqs({"/", "channels", "sources", "x"}, MaxUri - 1)}

\* fgets keeps the newline; the last line of a file may have none.
MCFileLines ==
    LET lines == Seqs({",", "x", " "}, MaxLine)
    IN  {l \o <<"nl">> : l \in lines} \cup (lines \ {<<>>})

\* An answer as Janus prints it, indented, a member to a line, and flattened:
\* where a member opens an object its first member is on the next line.
Member(m, last) ==
    <<" ", " ", m[1], " ", m[2]>>
    \o (IF last \/ m[2] = "{" THEN <<"nl">> ELSE <<",", "nl">>)

Printed(ms) ==
    LET f[k \in 0..Len(ms)] ==
            IF k = 0 THEN <<"{", "nl">>
            ELSE f[k - 1] \o Member(ms[k], k = Len(ms))
    IN  f[Len(ms)] \o <<"}">>

MCReplies ==
    {Printed(ms) : ms \in
        Seqs({"key:", "id:"} \X {"42", "word", "{"}, MaxMembers) \ {<<>>}}
=============================================================================
