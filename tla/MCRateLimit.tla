---------------------------- MODULE MCRateLimit ----------------------------
\* The instances TLC checks RateLimit on: the short window lets one call
\* through, the long one fewer than the short one would in its span.
EXTENDS RateLimit, TLC

CONSTANTS short, long

MCPer == short :> 2 @@ long :> 5
MCMax == short :> 1 @@ long :> 2
=============================================================================
