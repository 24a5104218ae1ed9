--------------------------- MODULE MC_GenerateSlug ---------------------------
EXTENDS GenerateSlug

BuiltinABC == <<"1", "2", "3">>
ConfiguredAB == <<"1", "2">>
=============================================================================
