---------------------------- MODULE MCIntBucket ----------------------------
EXTENDS IntBucket

\* Values with gaps, so that searches miss between, below and above them.
MCValues == {0, 1, 2, 4, 5, 7}
=============================================================================
