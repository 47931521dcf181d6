------------------------------ MODULE MCDrmSetup -----------------------------
EXTENDS DrmSetup

AllFaults == FaultKinds
NoFaults == {}
=============================================================================
