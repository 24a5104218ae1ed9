----------------------- MODULE MC_MakeUrlRequestHandler -----------------------
EXTENDS MakeUrlRequestHandler

AllFaults == FaultKinds
=============================================================================
