---------------------------- MODULE MC_ServerLife ----------------------------
EXTENDS ServerLife
=============================================================================
