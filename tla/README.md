# mp157: a verification of the camera display

The repository shows what an ov5640 camera captures on the LCD of an STM32MP157
board (`src/code/2_ov5640摄像头`) and, as a first exercise, a BMP picture
(`src/code/1_drm框架显示图像`). This directory holds TLA+ models of that code, the
TLC configurations that check them, and TLAPS proofs about them. File and line
numbers below are those of `code/2_ov5640摄像头` unless another place is named.

## Inventory

| part | code | state | operations |
|---|---|---|---|
| driver (external) | used in `cameraFun.c` | the state of each buffer, the FIFO of filled ones, the DMA engine | STREAMON, DQBUF, QBUF, poll |
| dispatcher thread | `cameraFun.c` `thread_fun` 386-422 | loop variable, the index it dequeued, `tid[]` | create converters, dequeue, `sem_post` |
| converter threads | `cameraFun.c` `ProcessingImages` 336-376 | `who`, `sem[who-1]`, `rgbdata[who-1]` | find itself, `sem_wait`, convert, announce, requeue |
| message queue | `msgbufFun.c` | a System V queue under a fixed key | create, send, receive |
| display thread | `drmFun.c` `thread_fun` 332-351, `lcd_show_camear` 272-284 | the message, `kms.fb_map` | receive, copy |
| main program | `main.c` 32-86 | where it is | set up, start threads, join, clean up |
| camera setup | `cameraFun.c` 11-72, 83-217, 227-246 | `struct cameraInf` | `camera_open`, `v4l2_init`, `free_v4l2_memory` |
| display setup | `drmFun.c` 3-269 | `struct kms_config` | `drm_init` and what it calls |
| YUYV conversion | `conversionPicDate.c` | five tables | table set-up, pixel, buffer |
| picture copies | `drmFun.c` 272-330 | the frame buffer | `lcd_show_camear`, `lcd_show_pic`, `drm_draw_background` |
| BMP reader | `1_drm框架显示图像/bmp.c` | a file, its headers | `readData` and two pixel readers |
| BMP viewer | `1_drm框架显示图像/main.c`, `drmFun.c` | the picture, the display device | read, set up, show, paint, release |

How they interact. The driver fills a queued buffer and puts it in its FIFO. The
dispatcher takes its index out and posts the semaphore of that index; the
converter of that index turns the buffer into its picture `rgbdata[who-1]`, sends
the index through the message queue and gives the buffer back. The display thread
receives an index and copies that picture to the screen. There is no lock: a
buffer is protected by being in one hand at a time, a picture by nothing at all
on the reading side. `main()` only starts all this and waits.

What is hard: up to seven threads and a DMA engine interleave on the buffers and
pictures; the queue fills up and blocks the senders; any call may fail and end one
thread alone; the program can only be ended by a signal, and the queue survives
it; and the setup code has some twenty points of failure with one clean-up. The
list `hazards` of `PROJECT.json` names each at its line.

What makes each part correct:

* pipeline: one holder per buffer, converters with the right index, whole pictures,
  announcements in order, nothing older than announced on the screen, no lost
  buffer, no starved converter;
* program: nothing is freed under the display thread, restarts are harmless;
* camera setup: every exit releases what is held, a success is complete;
* display setup: every failure undoes what was made, a success is visible;
* conversion: colours right for every triple of bytes, every byte of the picture
  written, none outside;
* copies: every pixel where the display controller looks for it, none outside, none
  older than announced, although the picture changes during the copy;
* BMP viewer: what the file has is shown in place, a cut file does no harm, every
  exit has released the display.

## Modules

| module | models | status |
|---|---|---|
| `FramePipeline` | driver, dispatcher, converters, queue, display | checked, proved |
| `FrameRelay` | abstract specification of the pipeline | refinement checked and proved |
| `PipelineLiveness` | `FramePipeline` with an endless camera and fairness | checked |
| `FramePipelineProofs` | theorems on states of `FramePipeline` | proved |
| `RelayProofs` | theorems on steps, and the refinement | proved |
| `CameraApp` | `FramePipeline` inside `main()`, signals, restarts | checked, proved |
| `CameraAppProofs` | theorems on `CameraApp` | proved |
| `CameraSetup` | `camera_open`, `v4l2_init`, `free_v4l2_memory` | checked, proved |
| `CameraSetupProofs` | theorems on `CameraSetup` | proved |
| `DrmSetup` | `drm_init` of both programs | checked, proved |
| `DrmSetupProofs` | theorems on `DrmSetup` | proved |
| `YuvConvert` | the arithmetic of `conversionPicDate.c` | used by `CameraPicture` |
| `LcdCopy` | the loops of `lcd_show_camear` and `lcd_show_pic` | used by the next two |
| `CameraPicture` | one picture byte by byte: conversion and copy side by side | checked, proved |
| `CameraPictureProofs` | theorems on `CameraPicture` | proved |
| `BmpViewer` | the viewer: `readData`, `lcd_show_pic`, `main()` | checked, proved |
| `BmpViewerProofs` | theorems on `BmpViewer` | proved |
| `CopyLemmas` | lemmas on `LcdCopy` for both | proved |

`MC*.tla` only name sets of faults, pictures, screens and files for the
configurations. Operators whose comment begins with *Mutant* are plausible bugs in the definition that follows them; no
specification uses them, they show that a property can fail.

### FramePipeline

| variable | code |
|---|---|
| `vb`, `doneQ` | the driver's buffer states and its FIFO (external) |
| `yuv[k]` | what `pBuffers[k].pStart` maps |
| `disp`, `next`, `held` | where the dispatcher is, `i`, `tV4l2Buf.index` |
| `tid`, `sem`, `rgb` | `camera->tid`, `sem`, `rgbdata` |
| `wpc`, `who` | where a converter is, its `who` |
| `mq` | the message queue; `seq` of a message is history, the code sends `num` only |
| `lcd`, `msg`, `shown` | where the display thread is, its message, its last copy |

A picture is the pair of the frame numbers its upper and its lower half come from,
and every copy takes two steps, so that a copy which overlaps a writer is seen as
a mixed picture. One system call, or one half of a copy, is one step. A call that
can block (`sem_wait`, `msgsnd`, `msgrcv`, `poll`) is a guard. The calls in
`Faults` may fail at any time. A converter's life is `none`, `start`, `wait`,
`convTop`, `convBot`, `send`, `qbuf`, and back to `wait` or `dead`.

`pthread_create` stores the id before the new thread runs, as glibc does; POSIX
does not promise it, and `WorkerKnowsItself` depends on it (the mutant
`CreateWorkerLateId` shows how).

### FrameRelay

The promise to a user: frames are captured, each is converted at most once into a
slot whose content only gets newer, a conversion is announced once or lost,
announcements are painted in the order they were made, and what is painted is
never older than the announcement. It has no threads, semaphores or buffers. The
mapping (`Relay` in `FramePipeline`) takes a slot as converted when its lower half
is written and keeps the announcement being painted at the head of `pending`,
which is why `Depth` is `QMax + 1`.

### CameraApp

`main()` is one variable that walks through its calls; each step that can fail has
an action for it that goes to the same label as the code. `Kill` ends the process
at any point. At the end of a process, `ProcessEnds` resets everything that belongs to
it and to the devices it had open; the message queue stays, and `Restart` begins again
over it. A join of the uninitialised `tid[1]` may return, hang or end the process.

When the display cannot be set up, `main()` calls `free_v4l2_memory` while the camera's
threads run, and they go on until the process is over. `Free` takes `tid`, `sem` and
`rgb` out of the model, and from then on `FreedThreads` replaces `Threads`: a converter
that looks for itself in the freed `tid[]` may find any index or none (`FindAny`),
`sem_wait` on a freed semaphore may let anyone pass (`TakeFreed`), `sem_post` has no
effect to rely on, the device may be closed already (`DequeueClosed`,
`RequeueClosed`), and messages are still sent (`SendFreed`), to a queue that the next
start reads. A converter that found no index has `who` 0; it writes through
`rgbdata[-1]`, which is the member `nCount` in front of the array, NULL on the board, and
so ends the process before it can announce index -1. That end, and every other that an
access to freed or unmapped memory may bring, is `Kill`.

### CameraSetup and DrmSetup

One stage per call. `CameraSetup` tracks for each resource whether it is null, held
or released. In `DrmSetup` every topology of connectors, encoders and crtcs is an
initial state; `crashed` is the null dereference of `drmFun.c:106` and `124`.

### YuvConvert, LcdCopy and CameraPicture

`FramePipeline` has all threads and takes a copy for two steps; `CameraPicture` has
one converter, one picture and the display, and takes one byte written and one pixel
copied for a step. `in`, `out`, `i`, `j`, `z` are the loop variables of the code,
`rgb` is `camera.rgbdata[k]`, `fb` is what `kms.fb_map` points to, `scr` the numbers
in `kms`. A byte is the pair of the frame and the place it was made from, which is
what tells a misplaced, missing or stale pixel from a right one; what value it has
is computed by `YuvConvert` and compared in `ColoursRight` with the direct formula,
with exact arithmetic and with the definition of RGB565. A line of the screen may
have padding and the buffer a tail; picture and screen have any sizes.

### BmpViewer

A byte of the picture is the offset in the file it was read from. A file has a
marker, a header and a length; header structures begin with anything (`Headers`),
as they are uninitialised, and a file that is too short leaves them so. `ReadPixel`
ignores the result of `fread` as the code does. `drm_init` is one step that succeeds
or fails, `DrmSetup` has its inside.

Sizes are computed in words of the machine (`Word`, 2^32 on the board): the number of
pixels is a signed word (`Count`), the bytes asked of `malloc` an unsigned one (`Size`),
and both wrap, while `lcd_show_pic` indexes by width and height. An access that misses
`colorData` or the frame buffer is noted in `astray`; what is read there is `Stray`, what
is written is lost, and from then on the process may end at any point (`Crash`). `fseek`
gets the offset as an `int` and does nothing when that is negative.
`drm_draw_background` writes `kms.fb_size / n` numbers whether or not there is a frame
buffer, and `Paint` notes those that find none.

## Runs

| run | constants | shows |
|---|---|---|
| `pipeline` | N=2, QMax=2, MaxFrame=4, all faults | the safety properties, the refinement; that the threads never wait in a ring (`NoCircularWait`) and a mixed screen has one cause only (`WholeUnlessOverwritten`) |
| `live` | N=2, QMax=2, MaxFrame=2, all faults, fairness | `BufferComesBack`, `AnnouncedIsShown`, `SurvivorsKeepShowing` |
| `picture` | 4 pictures, 2 screens, QMax=2, MaxFrame=3 | the loops and the arithmetic of conversion and copy, and exactly what the screen shows after a copy |
| `app` | N=2, QMax=2, MaxFrame=3, two starts, all faults | what `main()`, threads in freed memory and restarts add; that only old announcements show blank pictures (`CapturedUnlessStale`) |
| `setup` | N=4, granted 0 to 6, all faults | clean-up and completeness of the camera setup |
| `drm` | 2 connectors, encoders, crtcs, all faults | clean-up and result of `drm_init` |
| `viewer` | Word=256, 18 files, 2 headers, 4 screens, every failing call, fairness | what the viewer shows and releases, what its accesses can miss (`IndexesInside`), that it ends, and why (`EveryStepForward`) |

Five more runs end in a violation. Each shows a place where the code does not do what
a comment or the readme says (`findings` in `PROJECT.json` has the quotations):

| run | the code |
|---|---|
| `stale_queue` | `msgbufFun.c:24` keeps the queue of an ended process, so the next one shows pictures nothing was captured into |
| `map_failed` | `cameraFun.c:155` looks for NULL where `mmap` returns `MAP_FAILED`; `v4l2_init` succeeds without the buffer |
| `reqbufs_fails` | `cameraFun.c:233` reads through a null `pBuffers` when VIDIOC_REQBUFS, the count check or `calloc` failed |
| `unbound` | `drmFun.c:124` reads through a null encoder when the connector has none; line 158 stores crtc 0 when the encoder has none |
| `not_bmp` | `1_drm框架显示图像/bmp.c:69` assigns the marker instead of comparing it, so every file is taken for a BMP picture |

Bounds. Two converters are enough for every race between a converter and another
thread and between two converters; a third adds no new kind of holder. Larger
instances (N=3, QMax=2, MaxFrame=4 and N=4, QMax=2, MaxFrame=3) were also run
without an error, and the proofs cover all sizes. `QMax` of 2 is small so that the
queue is full; the real one holds thousands of messages. `MaxFrame` is twice the
number of buffers in `pipeline`, so each buffer goes round and waits with two messages in
the queue. Two starts are enough for a queue with old and new messages; the three frames
of `app` are divided between them in every way. `CameraSetup`
runs with the code's own numbers; of `DrmSetup`, two connectors are what it takes
for one to be skipped, and two crtcs for a wrong one to be chosen. The pictures of
`picture` are narrower and higher, wider and lower than its screens, one has an odd
width, and one screen has padded lines; three frames let a conversion overlap a copy
with two messages waiting. Its samples of y, u and v are the edges of the tables and
of the clamp (the proof covers all bytes). The files of `viewer` are whole, cut in the
picture and in the header, with a row that needs padding, with negative and zero
sizes, of an unknown depth and without the marker; five have a number that does not fit
a word of eight bits: an offset that is negative as an `int`, sizes that wrap to less
than the picture or to nothing, a number of pixels that wraps to a negative one, and a
negative product that wraps to a small size. `IndexesInside` is proved for every word
size, so eight bits stand for the board's 32. Deadlock is not checked where the
system does stop: with faults, with a last frame, or at the end of a program.

Fairness (`PipelineLiveness`). Threads run again when they are not blocked: weak
fairness of each step that does not fail. The camera goes on: after `MaxFrame` it
repeats the last number. `Send` is strongly fair because Linux wakes the blocked
callers of `msgsnd` in order; with weak fairness alone TLC finds converters that
wait for ever at a full queue, so `AnnouncedIsShown` and `BufferComesBack` depend
on it. No fairness is assumed of a failing call. `LiveSpec` of `BmpViewer` is weakly fair
to the whole program: it has one thread and nothing it calls blocks for ever.

## Proofs

From `PipelineAssumption` only (N and QMax positive, MaxFrame a natural number,
any set of faults), TLAPS proves for `FramePipeline`:

* `InductiveInvariant`: `Spec => []IInv`, and from it every safety invariant of the
  run `pipeline` (`TypeCorrect`, `OneHolderAlways`, `WorkerKnowsItselfAlways`,
  `NoMixedFrameAlways`, `AnnouncedInOrderAlways`, `ShownNotOlderAlways`,
  `WholeUnlessOverwrittenAlways`, `NoCircularWaitAlways`);
* `BusyBufferStableAlways` and `PicturesAdvanceAlways`;
* `Refinement`: `Spec => RelaySpec`.

The properties are not inductive. `IInv` adds what the code relies on without
saying it: ids are stored before threads start (`Created`), buffer k is in one of
the driver, the dispatcher's hand, semaphore k or converter k + 1 (`Holding`), the
FIFO has every filled buffer once (`DoneQueue`), and, by the buffer's way through the system,
how far picture k lags behind it (`Contents`): it is older than the buffer until
converter k + 1 writes it, half of it equals the buffer in `convBot`, all of it
from `send` on. That a picture is never older than a message about it (`Announced`)
then gives the order of messages and `ShownNotOlder`; that the screen is never newer
than the picture (`ShownNotNewer`) gives `WholeUnlessOverwritten`, as what lies between
two equal bounds is one frame. `NoCircularWait` needs no more than `Holding` and
`DoneQueue`: a dispatcher that waits has an empty FIFO and nothing in its hand, so a
buffer that is neither with a waiting converter nor in its semaphore is the camera's.
The part of `IInv` without
messages is `BufferInv`; it also holds of the program that restarts over an old queue.
`DistinctFrames` (no two buffers hold the same frame) is needed by the refinement,
where `waiting` is a set of frame numbers. One lemma per group of conjuncts (`StepType`, `StepThreads`, ...) has one
step per action of `Next`.

For `CameraSetup`, from `SetupAssumption` (N positive and at most MaxCount):
`NothingLeftBehindAlways` and `ReadyIsWiredAlways`. `SetupInv` says for each stage how
far the mapping loop and the picture loop are (`MappedUpTo`, `PicturesUpTo`) and that
a set `uCount` comes before anything is held (`Opened`), which is why the loops of
`free_v4l2_memory` reach everything. Two conditional theorems say that the violations
which the runs `map_failed` and `reqbufs_fails` show have no other cause:
`OnlyUncheckedHide` (if mmap, the array of threads and msgget do not fail, a success is
complete) and `OnlyTableCrashes` (if VIDIOC_REQBUFS grants an accepted number of buffers
and their table and the semaphores are allocated, the clean-up runs to its end,
whatever else fails). For `DrmSetup`, for any numbers and any topology:
`FailureLeavesNothingAlways` and `ReadyIsShownAlways`, from `DrmInv`, which says
which objects exist at each stage (`Made`) and what `kms` names (`Chosen`); and
`OnlyUnboundDefeats`: when the first usable connector is bound as far as a crtc, a
`drm_init` in which no call fails finds it, so what the run `unbound` shows is the
only exception.

For `CameraApp`, for any number of starts, from the assumptions of `FramePipeline`:
`LcdNeverSeesFreedAlways`, `StaleFirstAlways`, `FreshShownNotOlderAlways`,
`CapturedUnlessStaleAlways`; and what the pipeline promises by itself it keeps inside
`main()` until that frees the threads' memory: `BuffersInEveryStart` (under `~ freed`)
and, for its steps, `SteadyWithinAStart` (while the process is `Intact`). Behind
`free_v4l2_memory` nothing of that kind is claimed, and it would be wrong; what does
hold there, and is proved, is that the display thread does not exist
(`LcdNeverSeesFreed`), that every message has an index of `rgbdata[]` (`AppTypeOK`, by
`Indexed`: a converter behind `sem_wait` has one), and what the next start needs of the
queue. `IInv` does
not hold after a restart, as the queue announces frames of pictures that are gone.
`AppInv` keeps `BufferInv` while nothing is freed and divides the frames at `bootFrame`, the last one of the
former starts: buffers hold later ones only (`NewFrames`), messages up to it come
first (`StaleFirst`), and those after it are about pictures at least as new
(`AppMessages`) in which something was captured (`CapturedMessages`). `MainOrder` says what `main()` has started, so that the lemmas on the
steps of the threads can be used again.

For `CameraPicture`, for all sizes of picture and screen (`PictureAssumption`: an even
number of pixels, lines and buffer at least as long as needed):
`PictureTypeCorrect` (every index of both loops inside its array),
`AnnouncedWholeAlways`, `PixelsInPlaceAlways`, `PixelsNotOlderAlways`,
`ShownWholeAlways` (if no later frame of the buffer was begun, the screen has both
bytes of every visible pixel of the announced frame), the action property
`ScreenOnlyNewerAlways`, and `ColoursRightAlways` for every byte y, u and v. `PictureInv` says which bytes of the
picture are already of the new frame (`Conversion`, with `Written` for the bytes of
the round), that messages and the copy are about frames that are complete
(`Messages`, `AtLeast`), where `z` is (`Place`) and that no byte on the screen is newer
than the byte of the picture it was copied from (`NotAhead`). Together with
`PixelsNotOlder` the last one leaves a pixel one value when the announced frame is still
the newest, and as the picture only becomes newer it keeps the screen from going back.

For `BmpViewer`, for any files, headers and screens and any word size that is a multiple
of four (`ViewerAssumption`): `ViewerTypeCorrect` (the loops end where they should),
`IndexesInsideAlways` (no access misses the frame buffer, and one misses `colorData`
only when the size of the picture does not fit a word), `FileClosedAlways`,
`ExitReleasesAlways`, `EveryStepForwardAlways`; and, for every picture whose size fits
(`SizeFits`), `PictureOnScreenAlways` and `NoStrayBytesAlways`. `ViewerInv` says what is open at each stage (`Flow`), that the
reader is at the place of its pixel or behind the end of the file (`Reading`), what
the pixels behind the end are made of (`Remembered`), and what the copy has put on the
screen (`Showing`). `EveryStepForward` is the part of `ViewerEnds` that is in the
prover's reach: the stages have an order and a loop a number of rounds left, which for
the copy is `(height - i) * (width + 1) + width - j`, and no step adds to either; that
the program does not stop on its way is left to TLC.

Only model-checked: liveness (`BufferComesBack`, `AnnouncedIsShown`,
`SurvivorsKeepShowing`, `ViewerEnds`), which is out of the prover's reach, and the
five runs that end in a violation.

## Not claimed

* The screen can show parts of several frames, even a pixel whose two bytes are of
  different ones: the display copies a picture that its converter may already be
  rewriting. `ShownNotOlder` and `PixelsNotOlder` say what holds always,
  `WholeUnlessOverwritten` and `ShownWholeUnlessOvertaken` when it is whole.
* Frames of different buffers can be shown out of order: converters race to the
  queue. For one buffer they cannot (`AnnouncedInOrder`, `ScreenOnlyNewer`).
* When VIDIOC_DQBUF fails, the screen freezes and `main()` waits for ever.
* A failing `msgrcv` gives -1. `rgbdata[-1]` is the member `nCount` (`cameraFun.h`),
  0 on the 32-bit board, so the display thread ends the process: a `Kill` of
  `CameraApp`.
* `cameraFun.c:138` loops to 4 although a granted count of 2 or 3 was accepted: then
  `v4l2_init` fails at the buffer the driver does not have. `CameraSetup` models it
  (granted 0 to 6) and `NothingLeftBehind` holds on that way too.
* `drmFun.c:209` and 25 both save the old configuration, the second time it is the
  program's own; nothing restores it.
* A BMP file stores its lowest row first: `lcd_show_pic` shows it upside down. Rows
  whose length is not a multiple of four bytes are padded in the file and the
  readers do not skip the padding, so each row is shifted. `PictureOnScreen` is about
  the order of the file and about widths without padding, `NoStrayBytes` about all of them.
* A BMP header whose width times height times the size of a pixel does not fit 32 bits
  makes `readData` allocate less than `lcd_show_pic` reads, or the readers write behind
  it: `IndexesInside` says that this is the only way, and nothing is claimed of the
  pixels then.
* Nothing keeps the camera's threads from using memory that `main()` has freed, a failing
  `msgrcv` from ending the process, or a join of an uninitialised id from hanging; no
  property says otherwise, and the properties of `app` hold whichever way it goes.
* `drm_draw_background` writes 16-bit numbers also when a pixel has 32 bits, and so
  paints half of the frame buffer.

## Not modelled

* `ProcessingImages` gives the driver a `v4l2_buffer` of which only type, memory and
  index are set; the driver ignores or checks the rest.
* Allocation failures in `tid` and `sem` are in `CameraSetup`, not in `CameraApp`.
* `timec` and the counters the display thread prints; the lists of formats printed by
  `v4l2_init`; the argument checks.
* The copies of `bmp.c`, `lcd_show_pic` and `drm_draw_background` in the camera
  program: nothing calls them there.
* Device trees and defconfig are data. Editor backups are built by nothing.
* `tool/` holds curl, jpeg, jsoncpp, libdrm, mjpg-streamer, openssl and zlib as their
  authors publish them, to be cross-compiled. They are nearly all of the repository's
  871782 lines and none of its own logic; what the two programs use of libdrm is
  modelled as external steps. Of the programs' own code, everything that changes
  state is modelled.

## What is left

The two programs are modelled and every safety property that a run checks is proved. A
further step could put the allocation failures of `CameraSetup` into `CameraApp`, give
the setup modules and the loops of `CameraPicture` measures like `EveryStepForward`, and
check liveness on larger instances. `FrameRelay` states its promises by its actions;
theorems about it alone (a frame is in one place, the announcements of a slot are in
order) would say what `Refinement` hands on to the program.
