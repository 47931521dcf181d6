------------------------------ MODULE CameraSetup ----------------------------
(***************************************************************************)
(* Setting the camera up and releasing it again, one system call at a time: *)
(* camera_open(), v4l2_init() and free_v4l2_memory() of                     *)
(* code/2_ov5640摄像头/cameraFun.c, in the order main() calls them.  Every   *)
(* call may fail; what a failure leaves behind is what main() cleans up.    *)
(***************************************************************************)
EXTENDS Integers

CONSTANTS
  N,         \* the number of buffers v4l2_init asks for (4 in the code)
  MaxCount,  \* the largest rb.count v4l2_init accepts (5 in the code)
  Grants,    \* rb.count after VIDIOC_REQBUFS: what the driver may grant
  Faults     \* the calls that may fail, out of FaultKinds

FaultKinds == {"open", "cap", "format", "reqbufs", "calloc", "querybuf", "mmap",
               "qbuf", "tid", "sem", "rgb", "msgget"}

ASSUME SetupAssumption ==
  /\ N \in Nat \ {0}
  /\ MaxCount \in Nat /\ N <= MaxCount
  /\ Grants \subseteq Nat
  /\ Faults \subseteq FaultKinds

Buf == 0 .. N - 1

VARIABLES
  stage,    \* the next call; see Stage
  i,        \* the loop variable (numBufs, i) of the stages that loop
  fd,       \* the camera device: none, open, closed
  uCount,   \* camera->uCount
  granted,  \* the buffers the driver has, camera->rb.count
  table,    \* camera->pBuffers was allocated
  start,    \* camera->pBuffers[k].pStart: null, failed (MAP_FAILED), mapped, unmapped
  queued,   \* the buffers given to the driver by VIDIOC_QBUF
  tidMem,   \* camera->tid: null, held, freed
  semMem,   \* camera->sem
  rgbMem,   \* camera->rgbdata[k]
  msgId     \* camera->msg_id: none, queue, bad (-1)

mem == <<table, start, queued, tidMem, semMem, rgbMem, msgId>>
vars == <<stage, i, fd, uCount, granted, mem>>

Init ==
  /\ stage = "open" /\ i = 0
  /\ fd = "none" /\ uCount = 0 /\ granted = 0
  /\ table = FALSE
  /\ start = [k \in Buf |-> "null"]
  /\ queued = {}
  /\ tidMem = "null" /\ semMem = "null"
  /\ rgbMem = [k \in Buf |-> "null"]
  /\ msgId = "none"

Goto(from, to) == stage = from /\ stage' = to

-----------------------------------------------------------------------------
(* camera_open().  camera->fd is set at its end; a failure closes the file. *)

Open ==
  /\ Goto("open", "cap")
  /\ fd' = "open"
  /\ UNCHANGED <<i, uCount, granted, mem>>

OpenFails ==
  /\ "open" \in Faults
  /\ Goto("open", "exited")
  /\ UNCHANGED <<i, fd, uCount, granted, mem>>

QueryCap ==
  /\ Goto("cap", "format")
  /\ UNCHANGED <<i, fd, uCount, granted, mem>>

\* VIDIOC_QUERYCAP fails, or the device cannot capture or cannot stream.
QueryCapFails ==
  /\ "cap" \in Faults
  /\ Goto("cap", "exited")
  /\ fd' = "closed"
  /\ UNCHANGED <<i, uCount, granted, mem>>

-----------------------------------------------------------------------------
(* v4l2_init().  A stage is named after its call.                          *)

\* The calls v4l2_init checks the result of.
Checked == {"format", "reqbufs", "calloc", "querybuf", "qbuf", "rgb"}

CountAccepted == granted \in 2 .. MaxCount

\* A checked call fails, rb.count is refused, or the driver has no buffer i.
Refused ==
  \/ stage \in Checked \cap Faults
  \/ stage = "count" /\ ~ CountAccepted
  \/ stage = "querybuf" /\ i >= granted

\* Mutant: one of the returns goes past free_v4l2_memory().
InitFailsToClose ==
  /\ Refused
  /\ stage' = IF stage = "rgb" THEN "close" ELSE "free"
  /\ UNCHANGED <<i, fd, uCount, granted, mem>>

\* Every return -1 takes main() to its label err2.
InitFails ==
  /\ Refused
  /\ stage' = "free"
  /\ UNCHANGED <<i, fd, uCount, granted, mem>>

\* VIDIOC_S_FMT, and VIDIOC_G_FMT shows the format that was asked for.
SetFormat ==
  /\ Goto("format", "reqbufs")
  /\ uCount' = N
  /\ UNCHANGED <<i, fd, granted, mem>>

\* VIDIOC_REQBUFS; the driver decides how many buffers there will be.
RequestBuffers ==
  /\ Goto("reqbufs", "count")
  /\ \E g \in Grants : granted' = g
  /\ UNCHANGED <<i, fd, uCount, mem>>

CheckCount ==
  /\ CountAccepted
  /\ Goto("count", "calloc")
  /\ UNCHANGED <<i, fd, uCount, granted, mem>>

AllocTable ==
  /\ Goto("calloc", "querybuf")
  /\ table' = TRUE
  /\ UNCHANGED <<i, fd, uCount, granted, start, queued, tidMem, semMem, rgbMem, msgId>>

\* Mutant: an error of VIDIOC_QUERYBUF is printed and ignored.
QueryBufferIgnored ==
  /\ Goto("querybuf", "mmap")
  /\ UNCHANGED <<i, fd, uCount, granted, mem>>

QueryBuffer ==
  /\ i < granted
  /\ Goto("querybuf", "mmap")
  /\ UNCHANGED <<i, fd, uCount, granted, mem>>

\* mmap returns MAP_FAILED when it fails, which is not the NULL that the code
\* looks for: the loop goes on either way.
MapBuffer ==
  /\ Goto("mmap", "qbuf")
  /\ \E p \in {"mapped"} \cup (IF "mmap" \in Faults THEN {"failed"} ELSE {}) :
       start' = [start EXCEPT ![i] = p]
  /\ UNCHANGED <<i, fd, uCount, granted, table, queued, tidMem, semMem, rgbMem, msgId>>

\* Mutant: the loop runs to numBufs <= uCount.
QueueBufferOneMore ==
  /\ Goto("qbuf", IF i < uCount THEN "querybuf" ELSE "tid")
  /\ i' = IF i < uCount THEN i + 1 ELSE 0
  /\ queued' = queued \cup {i}
  /\ UNCHANGED <<fd, uCount, granted, table, start, tidMem, semMem, rgbMem, msgId>>

QueueBuffer ==
  /\ Goto("qbuf", IF i + 1 < uCount THEN "querybuf" ELSE "tid")
  /\ i' = IF i + 1 < uCount THEN i + 1 ELSE 0
  /\ queued' = queued \cup {i}
  /\ UNCHANGED <<fd, uCount, granted, table, start, tidMem, semMem, rgbMem, msgId>>

\* The two mallocs whose results nobody looks at.
AllocThreadIds ==
  /\ Goto("tid", "sem")
  /\ \E p \in {"held"} \cup (IF "tid" \in Faults THEN {"null"} ELSE {}) : tidMem' = p
  /\ UNCHANGED <<i, fd, uCount, granted, table, start, queued, semMem, rgbMem, msgId>>

AllocSemaphores ==
  /\ Goto("sem", "rgb")
  /\ \E p \in {"held"} \cup (IF "sem" \in Faults THEN {"null"} ELSE {}) : semMem' = p
  /\ UNCHANGED <<i, fd, uCount, granted, table, start, queued, tidMem, rgbMem, msgId>>

\* malloc of picture i, then sem_init, which writes through camera->sem.
AllocPicture ==
  /\ stage = "rgb"
  /\ stage' = IF semMem = "null" THEN "crashed"
              ELSE IF i + 1 < uCount THEN "rgb" ELSE "msgget"
  /\ i' = IF i + 1 < uCount THEN i + 1 ELSE 0
  /\ rgbMem' = [rgbMem EXCEPT ![i] = "held"]
  /\ UNCHANGED <<fd, uCount, granted, table, start, queued, tidMem, semMem, msgId>>

\* createMsgQueue(), result unchecked; yuv_rgb_table_init(); return 0.
CreateQueue ==
  /\ Goto("msgget", "ready")
  /\ \E q \in {"queue"} \cup (IF "msgget" \in Faults THEN {"bad"} ELSE {}) : msgId' = q
  /\ UNCHANGED <<i, fd, uCount, granted, table, start, queued, tidMem, semMem, rgbMem>>

-----------------------------------------------------------------------------
(* The clean-up of main().                                                 *)

\* Any later way to err2: a thread or the display could not be set up.
LaterFailure ==
  /\ Goto("ready", "free")
  /\ UNCHANGED <<i, fd, uCount, granted, mem>>

Freed(p) == IF p = "held" THEN "freed" ELSE p

\* free_v4l2_memory().  Its first loop reads camera->pBuffers[0 .. uCount - 1];
\* munmap(MAP_FAILED) only returns an error; pBuffers itself is not freed.
FreeMemory ==
  /\ uCount = 0 \/ table
  /\ Goto("free", "close")
  /\ start' = [k \in Buf |-> IF k < uCount /\ start[k] = "mapped" THEN "unmapped"
                             ELSE start[k]]
  /\ tidMem' = Freed(tidMem)
  /\ semMem' = Freed(semMem)
  /\ rgbMem' = [k \in Buf |-> IF k < uCount THEN Freed(rgbMem[k]) ELSE rgbMem[k]]
  /\ UNCHANGED <<i, fd, uCount, granted, table, queued, msgId>>

\* uCount was set but there is no table: a null pointer is dereferenced.
FreeCrashes ==
  /\ uCount > 0 /\ ~ table
  /\ Goto("free", "crashed")
  /\ UNCHANGED <<i, fd, uCount, granted, mem>>

\* close(camera.fd); the end of the process.
Close ==
  /\ Goto("close", "exited")
  /\ fd' = "closed"
  /\ UNCHANGED <<i, uCount, granted, mem>>

CameraOpen == Open \/ OpenFails \/ QueryCap \/ QueryCapFails

V4l2Init ==
  \/ SetFormat \/ RequestBuffers \/ CheckCount \/ AllocTable \/ QueryBuffer
  \/ MapBuffer \/ QueueBuffer \/ AllocThreadIds \/ AllocSemaphores \/ AllocPicture
  \/ CreateQueue \/ InitFails

CleanUp == LaterFailure \/ FreeMemory \/ FreeCrashes \/ Close

Next == CameraOpen \/ V4l2Init \/ CleanUp

Spec == Init /\ [][Next]_vars

-----------------------------------------------------------------------------
(* Properties.                                                             *)

Stage == {"open", "cap", "format", "reqbufs", "count", "calloc", "querybuf",
          "mmap", "qbuf", "tid", "sem", "rgb", "msgget", "ready", "free",
          "close", "exited", "crashed"}
Block == {"null", "held", "freed"}

\* The type invariant.  The index of every loop stays inside the arrays.
SetupTypeOK ==
  /\ stage \in Stage
  /\ i \in Buf
  /\ fd \in {"none", "open", "closed"}
  /\ uCount \in {0, N} /\ granted \in Grants \cup {0}
  /\ table \in BOOLEAN
  /\ start \in [Buf -> {"null", "failed", "mapped", "unmapped"}]
  /\ queued \subseteq Buf
  /\ tidMem \in Block /\ semMem \in Block
  /\ rgbMem \in [Buf -> Block]
  /\ msgId \in {"none", "queue", "bad"}

\* Whichever call failed, an exit leaves no camera open, no buffer mapped and
\* neither pictures, semaphores nor thread ids allocated (main.c:81-85).
NothingLeftBehind ==
  stage = "exited" =>
    /\ fd # "open"
    /\ \A k \in Buf : start[k] # "mapped" /\ rgbMem[k] # "held"
    /\ tidMem # "held" /\ semMem # "held"

\* When v4l2_init returns 0 the driver has every buffer the code uses, and each
\* of them was mapped (or mmap failed), queued and got a picture and a
\* semaphore: the converter of buffer k never meets an index without them.
ReadyIsWired ==
  stage = "ready" =>
    /\ uCount = N /\ granted >= N
    /\ queued = Buf
    /\ \A k \in Buf : start[k] # "null" /\ rgbMem[k] = "held"
    /\ semMem = "held"

\* v4l2_init's own comment, "0: success, otherwise: failure": after a success
\* everything it set up is there.
SuccessIsComplete ==
  stage = "ready" =>
    /\ \A k \in Buf : start[k] = "mapped"
    /\ tidMem = "held"
    /\ msgId = "queue"

\* free_v4l2_memory's own comment: it unmaps and frees, and so comes to an end.
CleanUpEnds == stage # "crashed"

-----------------------------------------------------------------------------
(* The inductive invariant: how far the setup is at each stage.            *)

NothingHeld ==
  /\ \A k \in Buf : start[k] # "mapped" /\ rgbMem[k] # "held"
  /\ tidMem # "held" /\ semMem # "held"

\* The camera is open from QUERYCAP to close, resources come with the count.
Opened ==
  /\ stage \in {"open", "exited"} => fd # "open"
  /\ uCount = 0 => NothingHeld
  /\ stage \in {"open", "cap", "format", "close", "exited"} => NothingHeld
  /\ stage \notin {"open", "cap", "format", "free", "close", "exited"} => uCount = N
  /\ stage \notin {"querybuf", "mmap", "qbuf", "rgb", "free", "close", "exited", "crashed"} => i = 0

\* The mapping loop: the buffers below i are mapped and queued.
MappedUpTo ==
  /\ stage \in {"querybuf", "mmap", "qbuf"} =>
       /\ i <= granted
       /\ \A k \in Buf : k < i => start[k] # "null" /\ k \in queued
  /\ stage \in {"mmap", "qbuf"} => i < granted
  /\ stage = "qbuf" => start[i] # "null"
  /\ stage \in {"tid", "sem", "rgb", "msgget", "ready"} =>
       granted >= N /\ queued = Buf /\ \A k \in Buf : start[k] # "null"

\* The picture loop: those below i are allocated.
PicturesUpTo ==
  /\ stage \notin {"close", "exited"} => semMem # "freed"
  /\ stage = "rgb" =>
       /\ \A k \in Buf : k < i => rgbMem[k] = "held"
       /\ i > 0 => semMem = "held"
  /\ stage \in {"msgget", "ready"} =>
       semMem = "held" /\ \A k \in Buf : rgbMem[k] = "held"

SetupInv == SetupTypeOK /\ Opened /\ MappedUpTo /\ PicturesUpTo

\* What the unchecked calls leave when they do not fail.
Unchecked == {"mmap", "tid", "msgget"}
CompleteUpTo ==
  /\ stage \notin {"close", "exited"} => \A k \in Buf : start[k] \in {"null", "mapped"}
  /\ stage \in {"sem", "rgb", "msgget", "ready"} => tidMem = "held"
  /\ stage = "ready" => msgId = "queue"

\* What the clean-up finds when v4l2_init gets from the count of buffers to their
\* table, and has semaphores to initialise.
BeforeTable == {"reqbufs", "calloc", "sem"}
TableUpTo ==
  /\ stage \in {"open", "cap", "format"} => uCount = 0
  /\ stage = "count" => CountAccepted
  /\ stage \notin {"open", "cap", "format", "reqbufs", "count", "calloc"} =>
       uCount = 0 \/ table
  /\ stage = "rgb" => semMem = "held"
  /\ stage # "crashed"

=============================================================================
