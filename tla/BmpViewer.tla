------------------------------- MODULE BmpViewer ------------------------------
(***************************************************************************)
(* The BMP viewer of code/1_drm框架显示图像: main.c reads a picture with      *)
(* readData (bmp.c), sets the display up for its colour depth, shows it,    *)
(* paints three plain colours and ends.                                     *)
(*                                                                         *)
(* A file is its marker, its header and its length; a byte of the picture   *)
(* is the offset in the file it was read from.  Sizes and numbers of pixels *)
(* are computed in words of the machine.                                    *)
(***************************************************************************)
EXTENDS LcdCopy, Sequences

CONSTANTS
  Word,     \* 2^32: int, long and size_t have 32 bits on the board
  Files,    \* the files the viewer may be given
  Headers,  \* what uninitialised header structures may hold
  Screens   \* the frame buffers the display may be given

\* What is left of a result in an unsigned and in a signed word.
Unsigned(x) == x % Word
Signed(x) == IF Unsigned(x) < Word \div 2 THEN Unsigned(x) ELSE Unsigned(x) - Word
SignedWord == - (Word \div 2) .. Word \div 2 - 1

\* bfOffBits, biWidth, biHeight and biBitCount.
Header == [off : 0 .. Word - 1, w : SignedWord, h : SignedWord, bits : Nat]

\* bm: it begins with 0x4d42.  fopen refuses a file whose length is no int.
File == [bm : BOOLEAN, hdr : Header, len : 0 .. Word \div 2 - 1]

\* The kernel gives whole pages for a frame buffer, so its size is a multiple of
\* eight at least.
ASSUME ViewerAssumption ==
  /\ Word \in Nat /\ Word > 0 /\ Word % 4 = 0
  /\ Headers \subseteq Header
  /\ Headers # {}
  /\ Files \subseteq File
  /\ \A s \in Screens : IsScreen(s) /\ s.size > 0 /\ s.size % 8 = 0

VARIABLES
  file,    \* the file named on the command line
  main,    \* where the program is
  fp,      \* readData's file is open
  drm,     \* fd, the display device, is open
  hdr,     \* readData's fileHeader and infoHeader
  pos,     \* position of fp
  got,     \* loop variable of readBmpData_RGB565 and readBmpData_RGB888
  color,   \* their array color
  data,    \* colorData
  mapped,  \* the frame buffer exists and kms.fb_map points to it
  k,       \* loop variable of drm_draw_background
  astray   \* arrays, of colorData and kms.fb_map, that an access has missed

fileVars == <<fp, hdr, pos, got, color, data>>
lcdVars == <<scr, fb, i, j, z, mapped, k>>
vars == <<file, main, drm, astray, fileVars, lcdVars>>

\* A byte nobody wrote, and pixels that are not from the file.
Unset == -1
Stray == <<"stray">>
Black == <<"black">>
White == <<"white">>
Plain == <<<<"red">>, <<"green">>, <<"blue">>>>

Init ==
  /\ file \in Files
  /\ main = "drmOpen" /\ fp = FALSE /\ drm = FALSE
  /\ hdr \in Headers
  /\ pos = 0 /\ got = 0 /\ color = <<>> /\ data = <<>>
  /\ scr = NoScreen /\ fb = <<>> /\ mapped = FALSE
  /\ i = 0 /\ j = 0 /\ z = 0 /\ k = 1 /\ astray = {}

Step(from, to) == main = from /\ main' = to

\* What an access outside of its array adds to astray.
Missed(a, outside) == IF outside THEN {a} ELSE {}

\* Behind an access outside its array the program may be ended by a signal, at
\* once or in a later call that finds the heap damaged.
Crash ==
  /\ astray # {} /\ main # "exited"
  /\ main' = "exited" /\ fp' = FALSE /\ drm' = FALSE /\ mapped' = FALSE
  /\ UNCHANGED <<astray, file, hdr, pos, got, color, data, scr, fb, i, j, z, k>>

-----------------------------------------------------------------------------
(* readData.                                                               *)

DrmOpen ==
  /\ Step("drmOpen", "fopen")
  /\ drm' = TRUE
  /\ UNCHANGED <<astray, file, fileVars, lcdVars>>

DrmOpenFails ==
  /\ Step("drmOpen", "exited")
  /\ UNCHANGED <<astray, file, drm, fileVars, lcdVars>>

Fopen ==
  /\ Step("fopen", "header")
  /\ fp' = TRUE /\ pos' = 0
  /\ UNCHANGED <<astray, file, drm, hdr, got, color, data, lcdVars>>

FopenFails ==
  /\ Step("fopen", "background")
  /\ UNCHANGED <<astray, file, drm, fileVars, lcdVars>>

\* The marker and the two headers, 54 bytes.  The marker is assigned and not
\* compared in the condition, so every file passes.  A field behind the end of
\* the file, or cut by it, holds what happened to be there.
ReadHeaders ==
  /\ Step("header", "depth")
  /\ hdr' = [off  |-> IF file.len >= 14 THEN file.hdr.off ELSE hdr.off,
             w    |-> IF file.len >= 22 THEN file.hdr.w ELSE hdr.w,
             h    |-> IF file.len >= 26 THEN file.hdr.h ELSE hdr.h,
             bits |-> IF file.len >= 30 THEN file.hdr.bits ELSE hdr.bits]
  /\ pos' = IF file.len >= 54 THEN 54 ELSE file.len
  /\ UNCHANGED <<astray, file, drm, fp, got, color, data, lcdVars>>

DepthFits ==
  /\ Step("depth", "malloc")
  /\ hdr.bits \in {16, 24}
  /\ UNCHANGED <<astray, file, drm, fileVars, lcdVars>>

\* Mutant: the file stays open.
DepthUnknownNoClose ==
  /\ Step("depth", "background")
  /\ hdr.bits \notin {16, 24}
  /\ UNCHANGED <<astray, file, drm, fileVars, lcdVars>>

DepthUnknown ==
  /\ Step("depth", "background")
  /\ hdr.bits \notin {16, 24}
  /\ fp' = FALSE
  /\ UNCHANGED <<astray, file, drm, hdr, pos, got, color, data, lcdVars>>

\* The number of pixels, an int, and the size of colorData, a size_t; a pixel has
\* two or four bytes in memory.
Count == Signed(hdr.w * hdr.h)
PixelBytes == IF hdr.bits = 16 THEN 2 ELSE 4
Size == Unsigned(hdr.w * hdr.h * PixelBytes)

\* The number of pixels that colorData has room for.
Room == Size \div PixelBytes

\* sizeof(color): the bytes of a pixel in the file.
Depth == IF hdr.bits = 16 THEN 2 ELSE 3

Uninitialised == [b \in 1 .. Depth |-> Unset]

\* malloc, which gives at most half of the address space, and the fseek to the
\* picture, which fails with a negative int and is not looked at.
Malloc ==
  /\ Step("malloc", "read")
  /\ Size < Word \div 2
  /\ pos' = IF Signed(hdr.off) >= 0 THEN hdr.off ELSE pos
  /\ got' = 0
  /\ color' = Uninitialised
  /\ data' = [x \in 0 .. Room - 1 |-> Uninitialised]
  /\ UNCHANGED <<astray, file, drm, fp, hdr, lcdVars>>

\* Too much is asked for; the file stays open.
MallocFails ==
  /\ Step("malloc", "background")
  /\ UNCHANGED <<astray, file, drm, fileVars, lcdVars>>

\* The position behind an fread of a pixel.
Behind == IF pos + Depth <= file.len THEN pos + Depth
          ELSE IF pos <= file.len THEN file.len ELSE pos

\* *colorData++: a pixel is stored, behind colorData when that is too small.
Store(read) ==
  /\ color' = read
  /\ IF got \in DOMAIN data THEN data' = [data EXCEPT ![got] = read] ELSE data' = data
  /\ astray' = astray \cup Missed("data", got \notin DOMAIN data)
  /\ UNCHANGED <<file, main, drm, fp, hdr, lcdVars>>

\* Mutant: a short fread is repeated until the pixel is complete.
ReadPixelAgain ==
  /\ main = "read" /\ got < Count
  /\ Store([b \in 1 .. Depth |-> IF pos + b <= file.len THEN pos + b - 1 ELSE color[b]])
  /\ IF pos + Depth <= file.len
     THEN pos' = pos + Depth /\ got' = got + 1
     ELSE pos' = pos /\ got' = got

\* Mutant: after a short fread the bytes of the next pixel are in color.
ReadPixelAhead ==
  /\ main = "read" /\ got < Count
  /\ Store([b \in 1 .. Depth |-> IF pos + b < file.len THEN pos + b ELSE color[b]])
  /\ pos' = pos + Depth /\ got' = got + 1

\* Mutant: the pixel is a variable of one round, so what a short fread leaves out
\* is uninitialised.
ReadPixelFresh ==
  /\ main = "read" /\ got < Count
  /\ Store([b \in 1 .. Depth |-> IF pos + b <= file.len THEN pos + b - 1 ELSE Unset])
  /\ pos' = Behind /\ got' = got + 1

\* Mutant: one round too many.
ReadPixelOneMore ==
  /\ main = "read" /\ got <= Count
  /\ Store([b \in 1 .. Depth |-> IF pos + b <= file.len THEN pos + b - 1 ELSE color[b]])
  /\ pos' = Behind /\ got' = got + 1

\* One round of a reader: fread, whose result is not looked at, so behind the
\* end of the file color keeps the bytes of the pixel before.
ReadPixel ==
  /\ main = "read" /\ got < Count
  /\ Store([b \in 1 .. Depth |-> IF pos + b <= file.len THEN pos + b - 1 ELSE color[b]])
  /\ pos' = Behind /\ got' = got + 1

ReadDone ==
  /\ Step("read", "drmInit")
  /\ got >= Count
  /\ fp' = FALSE
  /\ UNCHANGED <<astray, file, drm, hdr, pos, got, color, data, lcdVars>>

-----------------------------------------------------------------------------
(* The display.                                                            *)

\* drm_init has made, mapped and cleared a frame buffer of the picture's depth
\* (DrmSetup has how); lcd_show_pic begins.
DrmInit(s) ==
  /\ Step("drmInit", "show")
  /\ s.n = PixelBytes
  /\ scr' = s /\ mapped' = TRUE
  /\ fb' = [e \in 0 .. s.size \div s.n - 1 |-> Black]
  /\ StartCopy
  /\ UNCHANGED <<astray, file, drm, fileVars, k>>

\* Mutant: the device is not closed.
DrmInitFailsNoClose ==
  /\ Step("drmInit", "exited")
  /\ UNCHANGED <<astray, file, drm, fileVars, lcdVars>>

\* Mutant: main() goes on without a frame buffer.
DrmInitFailsGoesOn ==
  /\ Step("drmInit", "background")
  /\ scr' \in {scr} \cup {s \in Screens : s.n = PixelBytes}
  /\ UNCHANGED <<astray, file, drm, fileVars, fb, i, j, z, mapped, k>>

\* What failed may have left its mark in kms already, up to the size.
DrmInitFails ==
  /\ Step("drmInit", "exited")
  /\ drm' = FALSE
  /\ scr' \in {scr} \cup {s \in Screens : s.n = PixelBytes}
  /\ UNCHANGED <<astray, file, fileVars, fb, i, j, z, mapped, k>>

\* What colorData points to, as an array: an address is a word too.
Place(x) == x % (Word \div PixelBytes)
Picture == [x \in Int |-> IF Place(x) \in DOMAIN data THEN data[Place(x)] ELSE Stray]

\* Place e is in the frame buffer, and the frame buffer is there.
InFb(e) == mapped /\ e \in DOMAIN fb

ShowPixel ==
  /\ main = "show"
  /\ PicPixel(Picture, hdr.w, hdr.h, White)
  /\ astray' = astray
       \cup Missed("fb", ~ InFb(z))
       \cup Missed("data", Inside(hdr.w, hdr.h) /\ Place(hdr.w * i + j) \notin DOMAIN data)
  /\ UNCHANGED <<file, main, drm, fileVars, scr, mapped, k>>

ShowLine ==
  /\ main = "show"
  /\ NextLine
  /\ UNCHANGED <<astray, file, main, drm, fileVars, scr, mapped, k>>

\* Mutant: the picture is shown once more.
ShowAgain ==
  /\ main = "show" /\ CopyEnds
  /\ StartCopy
  /\ UNCHANGED <<astray, file, main, drm, fileVars, scr, fb, mapped, k>>

ShowDone ==
  /\ Step("show", "free")
  /\ CopyEnds
  /\ UNCHANGED <<astray, file, drm, fileVars, lcdVars>>

\* free(colorData)
Free ==
  /\ Step("free", "background")
  /\ data' = <<>>
  /\ UNCHANGED <<astray, file, drm, fp, hdr, pos, got, color, lcdVars>>

\* drm_draw_background, one colour: fb_size / n numbers of 16 bits, whether or
\* not there is a frame buffer.  That is half of it when a pixel has 32.
Numbers == scr.size \div scr.n

Paint ==
  /\ main = "background" /\ k <= 3
  /\ fb' = [e \in DOMAIN fb |-> IF scr.n * e < 2 * Numbers THEN Plain[k] ELSE fb[e]]
  /\ astray' = astray
       \cup Missed("fb", \E p \in 0 .. Numbers - 1 : ~ InFb((2 * p) \div scr.n))
  /\ k' = k + 1
  /\ UNCHANGED <<file, main, drm, fileVars, scr, i, j, z, mapped>>

PaintDone ==
  /\ Step("background", "freeFb")
  /\ k > 3
  /\ UNCHANGED <<astray, file, drm, fileVars, lcdVars>>

\* drm_free_fb; without a frame buffer each of its calls only fails.
FreeFb ==
  /\ Step("freeFb", "close")
  /\ mapped' = FALSE
  /\ UNCHANGED <<astray, file, drm, fileVars, scr, fb, i, j, z, k>>

Close ==
  /\ Step("close", "exited")
  /\ drm' = FALSE
  /\ UNCHANGED <<astray, file, fileVars, lcdVars>>

-----------------------------------------------------------------------------

ReadData ==
  \/ Fopen \/ FopenFails \/ ReadHeaders \/ DepthFits \/ DepthUnknown
  \/ Malloc \/ MallocFails \/ ReadPixel \/ ReadDone

Display ==
  \/ \E s \in Screens : DrmInit(s)
  \/ DrmInitFails \/ ShowPixel \/ ShowLine \/ ShowDone
  \/ Paint \/ PaintDone \/ FreeFb

Next == DrmOpen \/ DrmOpenFails \/ ReadData \/ Display \/ Free \/ Close \/ Crash

Spec == Init /\ [][Next]_vars

\* The viewer has one thread, and nothing it calls blocks for ever.
LiveSpec == Spec /\ WF_vars(Next)

-----------------------------------------------------------------------------
(* Properties.                                                             *)

Stage == {"drmOpen", "fopen", "header", "depth", "malloc", "read", "drmInit",
          "show", "free", "background", "freeFb", "close", "exited"}

Bytes == [1 .. Depth -> Nat \cup {Unset}]

DataTypeOK ==
  /\ hdr \in Header
  /\ pos \in Nat
  /\ main = "read" => got \in Nat /\ (got = 0 \/ got <= Count) /\ color \in Bytes
  /\ main \in {"read", "drmInit", "show", "free"} =>
       Size < Word \div 2 /\ data \in [0 .. Room - 1 -> Bytes]

ScreenTypeOK ==
  /\ scr \in Screens \cup {NoScreen}
  /\ i \in 0 .. scr.height /\ j \in 0 .. scr.width /\ z \in Nat
  /\ mapped => DOMAIN fb = Elem
  /\ main = "show" /\ i < scr.height /\ j < scr.width => z \in Elem

\* The type invariant.  That the loops end where they should is in it; whether
\* the accesses find their arrays is IndexesInside.
ViewerTypeOK ==
  /\ file \in Files
  /\ main \in Stage
  /\ fp \in BOOLEAN /\ drm \in BOOLEAN /\ mapped \in BOOLEAN
  /\ astray \subseteq {"data", "fb"}
  /\ DataTypeOK
  /\ ScreenTypeOK
  /\ k \in 1 .. 4

\* The size of the picture is that of the memory asked for, or too much to be
\* given.
SizeFits ==
  LET bytes == hdr.w * hdr.h * PixelBytes
  IN  - (Word \div 2) <= bytes /\ bytes < Word

\* No access of the loops of lcd_show_pic and drm_draw_background, which trust
\* kms, misses the frame buffer, on the paths with one and without one.  And only
\* a picture whose size is not the product of its sides, because that is no
\* word, makes the readers write or lcd_show_pic read outside of colorData: not
\* an odd or a negative side, a short file, or a picture unlike the screen.
IndexesInside ==
  /\ "fb" \notin astray
  /\ "data" \in astray => ~ SizeFits

\* A row of a BMP file is padded to a multiple of four bytes.
RowBytes == ((hdr.w * Depth + 3) \div 4) * 4

\* The bytes of column c in row r of the picture, as the file format puts them.
PixelInFile(r, c) == [b \in 1 .. Depth |-> hdr.off + RowBytes * r + Depth * c + b - 1]

\* While the picture is shown, the screen has every pixel that the file has, in
\* the order of the file, and white around the picture; even when the file is
\* cut short, the pixels before the cut are right.  This holds for a width
\* that needs no padding: the readers do not skip it; and for an offset that is a
\* positive int, fseek's argument.
PictureOnScreen ==
  main = "free" /\ SizeFits =>
    \A r \in 0 .. scr.height - 1, c \in 0 .. scr.width - 1 :
      IF r < hdr.h /\ c < hdr.w
      THEN RowBytes = hdr.w * Depth /\ PixelInFile(r, c)[Depth] < file.len =>
             fb[ScanPos(r, c)] = PixelInFile(r, c)
      ELSE fb[ScanPos(r, c)] = White

\* Where byte b of pixel x is in the file, if the reader never comes short.
Offset(x, b) == hdr.off + Depth * x + b - 1

\* The readers do not look at what fread returns.  Still, where the file has the
\* byte of this place for the first pixel, every pixel shows a byte of this place
\* of a pixel up to it, with any padding and any cut: colours are not mixed with
\* each other, and nothing uninitialised is shown.
NoStrayBytes ==
  main = "free" /\ SizeFits =>
    \A r \in 0 .. scr.height - 1, c \in 0 .. scr.width - 1 :
      r < hdr.h /\ c < hdr.w =>
        \A b \in 1 .. Depth :
          Offset(0, b) < file.len =>
            \E x \in 0 .. hdr.w * r + c :
              Offset(x, b) < file.len /\ fb[ScanPos(r, c)][b] = Offset(x, b)

\* Every way out of readData but a failing malloc closes the file.
FileClosed ==
  fp /\ main \in {"drmInit", "show", "free", "background", "freeFb", "close", "exited"} =>
    /\ hdr.bits \in {16, 24} /\ data = <<>>
    /\ main \in {"background", "freeFb", "close", "exited"} /\ scr = NoScreen

\* The program leaves no frame buffer and no open device behind, and has the
\* device open as long as a frame buffer exists.
ExitReleases ==
  /\ main = "exited" => ~ drm /\ ~ mapped
  /\ mapped => drm

\* The viewer comes to its end with any file, cut short or not.
ViewerEnds == <>(main = "exited")

\* The number of a stage, and the rounds its loops still have to do.
StageOrder == <<"drmOpen", "fopen", "header", "depth", "malloc", "read", "drmInit",
                "show", "free", "background", "freeFb", "close", "exited">>
StageNo(s) == CHOOSE n \in 1 .. Len(StageOrder) : StageOrder[n] = s

RoundsLeft ==
  CASE main = "read"       -> IF got < Count THEN Count - got ELSE 0
    [] main = "show"       -> (scr.height - i) * (scr.width + 1) + scr.width - j
    [] main = "background" -> 4 - k
    [] OTHER               -> 0

\* Why the viewer cannot run for ever, whatever the size of the picture and of
\* the screen: each step goes to a later stage or takes one round from a loop
\* that has a number of rounds left, and no loop can add to it.
EveryStepForward ==
  [][ \/ StageNo(main') > StageNo(main)
      \/ main' = main /\ RoundsLeft' \in Nat /\ RoundsLeft' < RoundsLeft ]_vars

\* What bmp.h and the message in bmp.c say: a file without the marker is not a
\* BMP file, and is refused.
NonBmpRefused == main = "show" => file.bm

-----------------------------------------------------------------------------
(* The inductive invariant: what each stage has open and made, how far the  *)
(* reader and the copy are, and what data and the screen hold by then.      *)

Flow ==
  /\ drm <=> main \notin {"drmOpen", "exited"}
  /\ mapped => main \in {"show", "free", "background", "freeFb"}
  /\ main \in {"drmOpen", "fopen", "drmInit", "show", "free"} => ~ fp
  /\ main \in {"malloc", "read", "drmInit", "show", "free"} => hdr.bits \in {16, 24}
  /\ main \in {"drmOpen", "fopen", "header", "depth", "malloc"} => data = <<>> /\ astray = {}
  /\ main \in {"drmOpen", "fopen", "header", "depth", "malloc", "read", "drmInit"} =>
       scr = NoScreen
  /\ main \in {"show", "free"} => mapped /\ scr \in Screens
  /\ scr = NoScreen => ~ mapped /\ fb = <<>>
  /\ main = "background" /\ scr # NoScreen => mapped

Reading ==
  /\ main = "read" /\ hdr.off < Word \div 2 =>
       IF hdr.off + Depth * got <= file.len
       THEN pos = hdr.off + Depth * got
       ELSE pos >= file.len
  /\ main \in {"drmInit", "show", "free"} /\ SizeFits => got = Count
  /\ main \in {"read", "drmInit", "show", "free"} /\ SizeFits =>
       \A x \in 0 .. got - 1, b \in 1 .. Depth :
         Offset(x, b) < file.len => data[x][b] = Offset(x, b)

\* v is a byte of place b of one of the pixels up to x.
FromFile(v, x, b) == \E q \in 0 .. x : Offset(q, b) < file.len /\ v = Offset(q, b)

\* What color and data hold where the file came short.
Remembered ==
  /\ main = "read" /\ got > 0 =>
       \A b \in 1 .. Depth : Offset(0, b) < file.len => FromFile(color[b], got - 1, b)
  /\ main \in {"read", "drmInit", "show", "free"} /\ SizeFits =>
       \A x \in 0 .. got - 1, b \in 1 .. Depth :
         Offset(0, b) < file.len => FromFile(data[x][b], x, b)

Showing ==
  /\ main = "show" => z = Stride * i + j /\ (i = scr.height => j = 0)
  /\ main = "free" => i = scr.height
  /\ main \in {"show", "free"} =>
       /\ fb = [e \in Elem |-> fb[e]]
       /\ \A r \in 0 .. scr.height - 1, c \in 0 .. scr.width - 1 :
            SizeFits /\ Passed(r, c) =>
              fb[ScanPos(r, c)] =
                IF r < hdr.h /\ c < hdr.w THEN data[hdr.w * r + c] ELSE White

ViewerInv ==
  /\ ViewerTypeOK
  /\ Flow
  /\ FileClosed
  /\ IndexesInside
  /\ Reading
  /\ Remembered
  /\ Showing

=============================================================================
