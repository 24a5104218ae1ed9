---------------------------- MODULE MC_RateLimiter ----------------------------
EXTENDS RateLimiter

CONSTANTS client, proxy
=============================================================================
