-------------------------- MODULE MCPipelineLiveness -------------------------
EXTENDS PipelineLiveness

AllFaults == FaultKinds
=============================================================================
