----------------------------- MODULE MCChannels -----------------------------
EXTENDS Channels

CONSTANTS far, padded, zero, local, remote

MCHosts == {Me, far}
MCOdd == {padded, zero}
MCOddValue == [t \in MCOdd |-> IF t = padded THEN 2 ELSE 0]
\* A channel of another node, the same with a padded port, one whose port is
\* read as 0, and a line for the address of the first local source.
MCLines ==
    {[key |-> <<far, 2>>, name |-> remote],
     [key |-> <<far, padded>>, name |-> remote],
     [key |-> <<far, zero>>, name |-> remote],
     [key |-> <<Me, 1>>, name |-> remote]}
=============================================================================
