------------------------------ MODULE MCCameraApp -----------------------------
EXTENDS CameraApp

AllThreadFaults == FaultKinds
NoThreadFaults == {}
AllMainFaults == MainFaultKinds
NoMainFaults == {}
=============================================================================
