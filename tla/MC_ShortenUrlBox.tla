--------------------------- MODULE MC_ShortenUrlBox ---------------------------
EXTENDS ShortenUrlBox

CONSTANTS url, text, empty
=============================================================================
