--------------------------- MODULE MC_StaticHandler ---------------------------
EXTENDS StaticHandler

AllFaults == {"client", "read"}
=============================================================================
