--------------------------- MODULE CameraSetupProofs --------------------------
(***************************************************************************)
(* CameraSetup for any number of buffers, any grant of the driver and any   *)
(* set of failing calls.  The argument is SetupInv: it says for every stage *)
(* how far the two loops of v4l2_init are and what is held.                 *)
(***************************************************************************)
EXTENDS CameraSetup, TLAPS

\* The loop variable and the counts are integers, and the loops have a body.
LEMMA Numbers ==
  ASSUME SetupTypeOK
  PROVE  /\ N \in Int /\ N > 0 /\ 0 \in Buf /\ i \in Int /\ granted \in Int
         /\ \A k \in Buf : k \in Int /\ 0 <= k /\ k < N
  BY SetupAssumption DEF SetupTypeOK, Buf

\* v4l2_init returns -1 only from the stages of its checks.
LEMMA RefusedWhere ==
  Refused => stage \in {"format", "reqbufs", "count", "calloc", "querybuf", "qbuf", "rgb"}
  BY DEF Refused, Checked

\* Before camera_open nothing is held and no loop has begun.
LEMMA SetupInit == Init => SetupInv
<1> SUFFICES ASSUME Init PROVE SetupInv
  OBVIOUS
<1>1. SetupTypeOK
  <2>1. 0 \in Buf
    BY SetupAssumption DEF Buf
  <2>2. QED
    BY <2>1 DEF Init, SetupTypeOK, Stage, Block
<1>2. Opened /\ MappedUpTo /\ PicturesUpTo
  BY DEF Init, Opened, NothingHeld, MappedUpTo, PicturesUpTo
<1>3. QED
  BY <1>1, <1>2 DEF SetupInv

\* Every call keeps the types; the loops of v4l2_init end before N.
LEMMA SetupStepType == SetupInv /\ [Next]_vars => SetupTypeOK'
<1> SUFFICES ASSUME SetupInv, [Next]_vars PROVE SetupTypeOK'
  OBVIOUS
<1>1. SetupTypeOK /\ Opened
  BY DEF SetupInv
<1>2. /\ N \in Int /\ N > 0 /\ 0 \in Buf /\ i \in Int
      /\ \A k \in Buf : k \in Int /\ 0 <= k /\ k < N
  BY <1>1, Numbers
<1>3. i + 1 < N => i + 1 \in Buf
  BY <1>1, <1>2, SetupAssumption DEF SetupTypeOK, Buf
<1> USE <1>1 DEF SetupTypeOK, Stage, Block, Goto, mem, vars
<1>4. CASE UNCHANGED vars
  BY <1>4
<1>5. CASE CameraOpen
  BY <1>5 DEF CameraOpen, Open, OpenFails, QueryCap, QueryCapFails
<1>6. CASE SetFormat \/ RequestBuffers \/ CheckCount \/ AllocTable \/ QueryBuffer
           \/ InitFails
  <2>1. CASE SetFormat \/ CheckCount \/ AllocTable
    BY <2>1 DEF SetFormat, CheckCount, AllocTable
  <2>2. CASE RequestBuffers
    BY <2>2 DEF RequestBuffers
  <2>3. CASE QueryBuffer \/ InitFails
    BY <2>3 DEF QueryBuffer, InitFails
  <2>4. QED
    BY <1>6, <2>1, <2>2, <2>3
<1>7. CASE MapBuffer \/ AllocThreadIds \/ AllocSemaphores \/ CreateQueue
  <2>1. CASE MapBuffer
    <3>1. PICK p \in {"mapped", "failed"} : start' = [start EXCEPT ![i] = p]
      BY <2>1 DEF MapBuffer
    <3>2. QED
      BY <2>1, <3>1 DEF MapBuffer
  <2>2. CASE AllocThreadIds
    BY <2>2 DEF AllocThreadIds
  <2>3. CASE AllocSemaphores
    BY <2>3 DEF AllocSemaphores
  <2>4. CASE CreateQueue
    BY <2>4 DEF CreateQueue
  <2>5. QED
    BY <1>7, <2>1, <2>2, <2>3, <2>4
<1>8. CASE QueueBuffer \/ AllocPicture
  <2>1. stage \in {"qbuf", "rgb"} /\ uCount = N
    BY <1>8 DEF QueueBuffer, AllocPicture, Opened
  <2>2. i' \in Buf
    BY <1>2, <1>3, <1>8, <2>1 DEF QueueBuffer, AllocPicture
  <2>3. QED
    BY <1>8, <2>2 DEF QueueBuffer, AllocPicture
<1>9. CASE CleanUp
  BY <1>9 DEF CleanUp, LaterFailure, FreeMemory, FreeCrashes, Close, Freed
<1>10. QED
  BY <1>4, <1>5, <1>6, <1>7, <1>8, <1>9 DEF Next, V4l2Init

\* Whatever is held is released before the stage "close".
LEMMA SetupStepOpened == SetupInv /\ [Next]_vars => Opened'
<1> SUFFICES ASSUME SetupInv, [Next]_vars PROVE Opened'
  OBVIOUS
<1>1. SetupTypeOK /\ Opened
  BY DEF SetupInv
<1>2. N \in Int /\ N > 0 /\ \A k \in Buf : k \in Int /\ k < N
  BY <1>1, Numbers
<1> USE <1>1 DEF SetupTypeOK, Opened, NothingHeld, Stage, Block, Goto, mem, vars
<1>3. CASE UNCHANGED vars
  BY <1>3
<1>4. CASE CameraOpen
  BY <1>4 DEF CameraOpen, Open, OpenFails, QueryCap, QueryCapFails
<1>5. CASE SetFormat \/ RequestBuffers \/ CheckCount \/ AllocTable \/ QueryBuffer
  BY <1>2, <1>5 DEF SetFormat, RequestBuffers, CheckCount, AllocTable, QueryBuffer
<1>6. CASE InitFails
  BY <1>6, RefusedWhere DEF InitFails
<1>7. CASE MapBuffer \/ AllocThreadIds \/ AllocSemaphores \/ CreateQueue
  <2>1. CASE MapBuffer
    <3>1. uCount # 0
      BY <1>2, <2>1 DEF MapBuffer
    <3>2. QED
      BY <2>1, <3>1 DEF MapBuffer
  <2>2. CASE AllocThreadIds \/ AllocSemaphores \/ CreateQueue
    BY <1>2, <2>2 DEF AllocThreadIds, AllocSemaphores, CreateQueue
  <2>3. QED
    BY <1>7, <2>1, <2>2
<1>8. CASE QueueBuffer \/ AllocPicture
  BY <1>2, <1>8 DEF QueueBuffer, AllocPicture
<1>9. CASE FreeMemory
  <2>1. uCount = 0 \/ uCount = N
    OBVIOUS
  <2>2. NothingHeld'
    BY <1>2, <1>9, <2>1 DEF FreeMemory, Freed
  <2>3. QED
    BY <1>9, <2>2 DEF FreeMemory
<1>10. CASE LaterFailure \/ FreeCrashes \/ Close
  BY <1>2, <1>10 DEF LaterFailure, FreeCrashes, Close
<1>11. QED
  BY <1>3, <1>4, <1>5, <1>6, <1>7, <1>8, <1>9, <1>10 DEF Next, V4l2Init, CleanUp

\* The mapping loop maps and queues one more buffer in every round.
LEMMA SetupStepMapped == SetupInv /\ [Next]_vars => MappedUpTo'
<1> SUFFICES ASSUME SetupInv, [Next]_vars PROVE MappedUpTo'
  OBVIOUS
<1>1. SetupTypeOK /\ Opened /\ MappedUpTo
  BY DEF SetupInv
<1>2. /\ N \in Int /\ N > 0 /\ i \in Int /\ granted \in Int /\ i \in Buf /\ 0 <= i /\ i < N
      /\ \A k \in Buf : k \in Int /\ 0 <= k /\ k < N
  BY <1>1, Numbers DEF SetupTypeOK
<1> USE <1>1 DEF MappedUpTo, Goto, mem, vars
<1>3. CASE UNCHANGED vars
  BY <1>3
<1>4. CASE CameraOpen
  BY <1>4 DEF CameraOpen, Open, OpenFails, QueryCap, QueryCapFails
<1>5. CASE SetFormat \/ RequestBuffers \/ CheckCount \/ InitFails
  BY <1>5 DEF SetFormat, RequestBuffers, CheckCount, InitFails
<1>6. CASE AllocTable
  BY <1>2, <1>6, SetupAssumption DEF AllocTable, Opened, SetupTypeOK, CountAccepted
<1>7. CASE QueryBuffer
  BY <1>2, <1>7 DEF QueryBuffer
<1>8. CASE MapBuffer
  <2>1. start'[i] # "null" /\ \A k \in Buf : k # i => start'[k] = start[k]
    BY <1>2, <1>8 DEF MapBuffer, SetupTypeOK
  <2>2. QED
    BY <1>2, <1>8, <2>1 DEF MapBuffer
<1>9. CASE QueueBuffer
  <2>1. uCount = N /\ i < granted /\ queued' = queued \cup {i}
    BY <1>9 DEF QueueBuffer, Opened
  <2>2. \A k \in Buf : k < i + 1 => start'[k] # "null" /\ k \in queued'
    BY <1>2, <1>9, <2>1 DEF QueueBuffer
  <2>3. CASE i + 1 < N
    BY <1>2, <1>9, <2>1, <2>2, <2>3 DEF QueueBuffer
  <2>4. CASE ~ i + 1 < N
    <3>1. \A k \in Buf : k < i + 1
      BY <1>2, <2>4
    <3>2. queued' = Buf
      BY <1>2, <2>1, <2>2, <3>1 DEF SetupTypeOK
    <3>3. QED
      BY <1>2, <1>9, <2>1, <2>2, <2>4, <3>1, <3>2 DEF QueueBuffer
  <2>5. QED
    BY <2>3, <2>4
<1>10. CASE AllocThreadIds \/ AllocSemaphores \/ AllocPicture \/ CreateQueue
  BY <1>10 DEF AllocThreadIds, AllocSemaphores, AllocPicture, CreateQueue
<1>11. CASE CleanUp
  BY <1>11 DEF CleanUp, LaterFailure, FreeMemory, FreeCrashes, Close
<1>12. QED
  BY <1>3, <1>4, <1>5, <1>6, <1>7, <1>8, <1>9, <1>10, <1>11 DEF Next, V4l2Init

\* The picture loop allocates one more picture in every round.
LEMMA SetupStepPictures == SetupInv /\ [Next]_vars => PicturesUpTo'
<1> SUFFICES ASSUME SetupInv, [Next]_vars PROVE PicturesUpTo'
  OBVIOUS
<1>1. SetupTypeOK /\ Opened /\ PicturesUpTo
  BY DEF SetupInv
<1>2. /\ N \in Int /\ N > 0 /\ i \in Int /\ i \in Buf /\ 0 <= i /\ i < N
      /\ \A k \in Buf : k \in Int /\ 0 <= k /\ k < N
  BY <1>1, Numbers DEF SetupTypeOK
<1> USE <1>1 DEF PicturesUpTo, Goto, mem, vars
<1>3. CASE UNCHANGED vars
  BY <1>3
<1>4. CASE CameraOpen
  BY <1>4 DEF CameraOpen, Open, OpenFails, QueryCap, QueryCapFails
<1>5. CASE SetFormat \/ RequestBuffers \/ CheckCount \/ AllocTable \/ QueryBuffer
           \/ InitFails
  BY <1>5, RefusedWhere
  DEF SetFormat, RequestBuffers, CheckCount, AllocTable, QueryBuffer, InitFails
<1>6. CASE MapBuffer \/ QueueBuffer \/ AllocThreadIds
  BY <1>6 DEF MapBuffer, QueueBuffer, AllocThreadIds
<1>7. CASE AllocSemaphores
  BY <1>2, <1>7 DEF AllocSemaphores, Opened
<1>8. CASE AllocPicture
  <2>1. uCount = N /\ rgbMem'[i] = "held" /\ \A k \in Buf : k # i => rgbMem'[k] = rgbMem[k]
    BY <1>2, <1>8 DEF AllocPicture, Opened, SetupTypeOK
  <2>2. \A k \in Buf : k < i + 1 => rgbMem'[k] = "held"
    BY <1>2, <1>8, <2>1 DEF AllocPicture
  <2>3. stage' = "crashed" \/ semMem' = "held"
    BY <1>2, <1>8 DEF AllocPicture, SetupTypeOK, Block, Opened
  <2>4. QED
    BY <1>2, <1>8, <2>1, <2>2, <2>3 DEF AllocPicture
<1>9. CASE CreateQueue
  BY <1>9 DEF CreateQueue
<1>10. CASE CleanUp
  BY <1>10 DEF CleanUp, LaterFailure, FreeMemory, FreeCrashes, Close
<1>11. QED
  BY <1>3, <1>4, <1>5, <1>6, <1>7, <1>8, <1>9, <1>10 DEF Next, V4l2Init

\* The inductive invariant of the setup holds in every reachable state.
THEOREM SetupInductive == Spec => []SetupInv
<1>1. SetupInv /\ [Next]_vars => SetupInv'
  BY SetupStepType, SetupStepOpened, SetupStepMapped, SetupStepPictures DEF SetupInv
<1>2. QED
  BY <1>1, SetupInit, PTL DEF Spec

\* Loop variables stay inside the arrays, for any N.
THEOREM SetupTypeCorrect == Spec => []SetupTypeOK
<1>1. SetupInv => SetupTypeOK
  BY DEF SetupInv
<1>2. QED
  BY <1>1, SetupInductive, PTL

\* Every exit of main() has released what free_v4l2_memory and close release.
THEOREM NothingLeftBehindAlways == Spec => []NothingLeftBehind
<1>1. SetupInv => NothingLeftBehind
  BY DEF SetupInv, Opened, NothingHeld, NothingLeftBehind
<1>2. QED
  BY <1>1, SetupInductive, PTL

\* A success of v4l2_init has every buffer of the loops granted and queued.
THEOREM ReadyIsWiredAlways == Spec => []ReadyIsWired
<1>1. SetupInv => ReadyIsWired
  BY DEF SetupInv, Opened, MappedUpTo, PicturesUpTo, ReadyIsWired
<1>2. QED
  BY <1>1, SetupInductive, PTL

-----------------------------------------------------------------------------
(* What the code's comments say holds after all when the calls that defeat  *)
(* them (MCMapFailed, MCReqbufsFails) do not fail: those are all of them.    *)

LEMMA CompleteInit == Init => CompleteUpTo
BY DEF Init, CompleteUpTo

LEMMA CompleteStep ==
  ASSUME Faults \cap Unchecked = {}, SetupInv, CompleteUpTo, [Next]_vars
  PROVE  CompleteUpTo'
<1>1. SetupTypeOK /\ i \in Buf
  BY DEF SetupInv, SetupTypeOK
<1>2. "mmap" \notin Faults /\ "tid" \notin Faults /\ "msgget" \notin Faults
  BY DEF Unchecked
<1> USE DEF CompleteUpTo, Goto, mem, vars
<1>3. CASE UNCHANGED vars
  BY <1>3
<1>4. CASE CameraOpen
  BY <1>4 DEF CameraOpen, Open, OpenFails, QueryCap, QueryCapFails
<1>5. CASE SetFormat \/ RequestBuffers \/ CheckCount \/ AllocTable \/ QueryBuffer
  BY <1>5 DEF SetFormat, RequestBuffers, CheckCount, AllocTable, QueryBuffer
<1>6. CASE InitFails
  BY <1>6, RefusedWhere DEF InitFails
<1>7. CASE MapBuffer
  <2>1. start' = [start EXCEPT ![i] = "mapped"]
    BY <1>2, <1>7 DEF MapBuffer
  <2>2. QED
    BY <1>1, <1>7, <2>1 DEF MapBuffer, SetupTypeOK
<1>8. CASE AllocThreadIds \/ AllocSemaphores \/ CreateQueue
  BY <1>2, <1>8 DEF AllocThreadIds, AllocSemaphores, CreateQueue
<1>9. CASE QueueBuffer \/ AllocPicture
  BY <1>9 DEF QueueBuffer, AllocPicture
<1>10. CASE CleanUp
  BY <1>10 DEF CleanUp, LaterFailure, FreeMemory, FreeCrashes, Close
<1>11. QED
  BY <1>3, <1>4, <1>5, <1>6, <1>7, <1>8, <1>9, <1>10 DEF Next, V4l2Init

\* Without a failing mmap, malloc of the thread ids or msgget, 0 from v4l2_init
\* is the success its comment says: no other call can fail unnoticed.
THEOREM OnlyUncheckedHide ==
  ASSUME Faults \cap Unchecked = {}
  PROVE  Spec => []SuccessIsComplete
<1>1. SetupInv /\ CompleteUpTo /\ [Next]_vars => CompleteUpTo'
  BY CompleteStep
<1>2. SetupInv /\ CompleteUpTo => SuccessIsComplete
  BY DEF SetupInv, MappedUpTo, CompleteUpTo, SuccessIsComplete
<1>3. QED
  BY <1>1, <1>2, CompleteInit, SetupInductive, PTL DEF Spec

LEMMA TableInit == Init => TableUpTo
BY DEF Init, TableUpTo

LEMMA TableStep ==
  ASSUME Faults \cap BeforeTable = {}, Grants \subseteq 2 .. MaxCount,
         SetupInv, TableUpTo, [Next]_vars
  PROVE  TableUpTo'
<1>1. SetupTypeOK /\ Opened /\ uCount \in {0, N}
  BY DEF SetupInv, SetupTypeOK
<1>2. "reqbufs" \notin Faults /\ "calloc" \notin Faults /\ "sem" \notin Faults
  BY DEF BeforeTable
<1>3. N # 0
  BY SetupAssumption
<1> USE DEF TableUpTo, Goto, mem, vars
<1>4. CASE UNCHANGED vars
  BY <1>4 DEF CountAccepted
<1>5. CASE CameraOpen
  BY <1>5 DEF CameraOpen, Open, OpenFails, QueryCap, QueryCapFails
<1>6. CASE SetFormat \/ CheckCount \/ AllocTable \/ QueryBuffer
  BY <1>6 DEF SetFormat, CheckCount, AllocTable, QueryBuffer
<1>7. CASE RequestBuffers
  <2>1. PICK g \in Grants : granted' = g
    BY <1>7 DEF RequestBuffers
  <2>2. CountAccepted'
    BY <2>1 DEF CountAccepted
  <2>3. QED
    BY <1>7, <2>2 DEF RequestBuffers
<1>8. CASE InitFails
  <2>1. stage \in {"format", "querybuf", "qbuf", "rgb"} /\ stage' = "free"
    BY <1>2, <1>8 DEF InitFails, Refused, Checked
  <2>2. stage = "format" => uCount = 0
    OBVIOUS
  <2>3. QED
    BY <1>8, <2>1, <2>2 DEF InitFails
<1>9. CASE MapBuffer \/ QueueBuffer \/ AllocThreadIds \/ CreateQueue
  BY <1>9 DEF MapBuffer, QueueBuffer, AllocThreadIds, CreateQueue
<1>10. CASE AllocSemaphores
  BY <1>2, <1>10 DEF AllocSemaphores
<1>11. CASE AllocPicture
  BY <1>11 DEF AllocPicture
<1>12. CASE CleanUp
  BY <1>12 DEF CleanUp, LaterFailure, FreeMemory, FreeCrashes, Close
<1>13. QED
  BY <1>4, <1>5, <1>6, <1>7, <1>8, <1>9, <1>10, <1>11, <1>12 DEF Next, V4l2Init

\* If VIDIOC_REQBUFS grants a number of buffers that is accepted, and their table
\* and the semaphores are allocated, the clean-up runs to its end: nothing else
\* crashes it.
THEOREM OnlyTableCrashes ==
  ASSUME Faults \cap BeforeTable = {}, Grants \subseteq 2 .. MaxCount
  PROVE  Spec => []CleanUpEnds
<1>1. SetupInv /\ TableUpTo /\ [Next]_vars => TableUpTo'
  BY TableStep
<1>2. TableUpTo => CleanUpEnds
  BY DEF TableUpTo, CleanUpEnds
<1>3. QED
  BY <1>1, <1>2, TableInit, SetupInductive, PTL DEF Spec

=============================================================================
