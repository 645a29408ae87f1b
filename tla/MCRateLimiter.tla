---------------------------- MODULE MCRateLimiter ----------------------------
EXTENDS RateLimiter

CONSTANTS a1, a2

MCIPs == {a1, a2}

MCSymmetry == Permutations(MCIPs)

=============================================================================
