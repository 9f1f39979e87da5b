------------------------------ MODULE MCVodSync ------------------------------
EXTENDS VodSync

\* 1 and 2; where they end up within the thresholds and beyond them.
SomeRates == {20, 40}
SomeJumps == {-Ms(300), Ms(200), Ms(1100)}
==============================================================================
