--------------------------- MODULE MCFramePipeline ---------------------------
EXTENDS FramePipeline

AllFaults == FaultKinds
=============================================================================
