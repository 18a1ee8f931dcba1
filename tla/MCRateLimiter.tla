--------------------------- MODULE MCRateLimiter ----------------------------
\* A small instance of RateLimiter for TLC: a bucket for registrations and one for
\* misses, of different limits and windows.
EXTENDS RateLimiter, TLC

CONSTANTS http, miss

Both == {http, miss}
Limits == http :> 2 @@ miss :> 1
Windows == http :> 3 @@ miss :> 2
=============================================================================
