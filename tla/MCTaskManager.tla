---------------------------- MODULE MCTaskManager ----------------------------
EXTENDS TaskManager

CONSTANTS mg, pg, s1, s2

\* The purge and mongoose, and the tasks of streamers: one with descriptors
\* and one without.  Two may be set to more than their own period.
MCBoot == <<pg, mg>>
MCReinit == {mg, s1}
MCPeriod == [t \in Tasks |-> IF t \in Reinit THEN 1 ELSE 2]
=============================================================================
