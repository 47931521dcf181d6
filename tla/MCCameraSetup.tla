---------------------------- MODULE MCCameraSetup ----------------------------
EXTENDS CameraSetup

AllFaults == FaultKinds
MmapFault == {"mmap"}
ReqbufsFault == {"reqbufs"}
=============================================================================
