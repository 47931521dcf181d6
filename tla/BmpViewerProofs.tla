---------------------------- MODULE BmpViewerProofs ---------------------------
(***************************************************************************)
(* BmpViewer for any files, headers and screens.  The argument is           *)
(* ViewerInv: what each stage of the program has open and made, and how far *)
(* the reader and the copy are.                                             *)
(***************************************************************************)
EXTENDS BmpViewer, CopyLemmas

\* The frame buffer the program gets is not the one it has before drm_init().
LEMMA ScreenFacts ==
  ASSUME NEW s \in Screens
  PROVE  IsScreen(s) /\ s # NoScreen
BY ViewerAssumption DEF NoScreen

\* While there is a screen, the copy's place of a row and a column is where
\* the display controller looks for it, in the frame buffer.
LEMMA CopyFacts ==
  ASSUME Flow, main \in {"show", "free"}
  PROVE  /\ IsScreen(scr) /\ Stride \in Nat /\ scr.width \in Nat /\ scr.height \in Nat
         /\ scr.width <= Stride
         /\ \A r \in Nat, c \in Nat : ScanPos(r, c) = Stride * r + c
         /\ \A r \in Nat, c \in Nat : r < scr.height /\ c < scr.width =>
              Stride * r + c \in Elem
<1>1. IsScreen(scr)
  BY ScreenFacts DEF Flow
<1>2. ASSUME NEW r \in Nat, NEW c \in Nat, r < scr.height, c < scr.width
      PROVE  Stride * r + c \in Elem
  BY <1>1, <1>2, PlaceInside DEF Stride, Elem
<1>3. QED
  BY <1>1, <1>2, StrideFacts

\* What readData has read stays, and so does the file.
LEMMA DepthFacts ==
  ASSUME Flow, main \in {"malloc", "read", "drmInit", "show", "free"}
  PROVE  Depth \in {2, 3}
BY DEF Flow, Depth

\* Numbers that fit a word are left as they are, and a negative one is a word
\* higher.
LEMMA ModSmall ==
  ASSUME NEW n \in Nat, NEW x \in Nat, x < n
  PROVE  x % n = x
OBVIOUS

LEMMA ModNegative ==
  ASSUME NEW n \in Nat, NEW x \in Int, - n <= x, x < 0
  PROVE  x % n = x + n
OBVIOUS

LEMMA SidesInt ==
  ASSUME hdr \in Header
  PROVE  /\ hdr.w \in Int /\ hdr.h \in Int /\ hdr.w * hdr.h \in Int /\ hdr.off \in Nat
         /\ Count \in Int
<1>1. Word \in Nat /\ Word > 0
  BY ViewerAssumption
<1>2. hdr.w \in Int /\ hdr.h \in Int /\ hdr.off \in Nat
  BY <1>1 DEF Header, SignedWord
<1>3. hdr.w * hdr.h \in Int
  BY <1>2
<1>4. Count \in Int
  BY <1>1, <1>3 DEF Count, Signed, Unsigned
<1>5. QED
  BY <1>2, <1>3, <1>4

\* Where the size fits and malloc gives the memory, the number of pixels is the
\* product of the sides, and there is room for as many.
LEMMA SizeFacts ==
  ASSUME hdr \in Header, SizeFits, Size < Word \div 2
  PROVE  /\ hdr.w * hdr.h \in Nat /\ Count = hdr.w * hdr.h /\ Room = hdr.w * hdr.h
         /\ \A x \in 0 .. hdr.w * hdr.h - 1 : Place(x) = x
<1> DEFINE p == hdr.w * hdr.h
           m == PixelBytes
<1>1. Word \in Nat /\ Word > 0 /\ Word % 4 = 0 /\ m \in {2, 4}
  BY ViewerAssumption DEF PixelBytes
<1>2. p \in Int
  BY SidesInt
<1>3. - (Word \div 2) <= p * m /\ p * m < Word /\ (p * m) % Word < Word \div 2
  BY DEF SizeFits, Size, Unsigned
<1> HIDE DEF p, m
<1>4. p * m \in Int
  BY <1>1, <1>2
<1>5. p * m >= 0
  <2> SUFFICES ASSUME p * m < 0 PROVE FALSE
    BY <1>4
  <2>1. - Word <= p * m
    BY <1>1, <1>3, <1>4
  <2>2. (p * m) % Word = p * m + Word
    BY <1>1, <1>4, <2>1, ModNegative
  <2>3. QED
    BY <1>1, <1>3, <1>4, <2>2
<1>6. (p * m) % Word = p * m
  BY <1>1, <1>3, <1>4, <1>5, ModSmall
<1>7. p \in Nat /\ p * m < Word \div 2 /\ p < Word \div 2 /\ p < Word /\ p <= Word \div m
  <2>1. CASE m = 2
    BY <1>1, <1>2, <1>3, <1>5, <1>6, <2>1
  <2>2. CASE m = 4
    BY <1>1, <1>2, <1>3, <1>5, <1>6, <2>2
  <2>3. QED
    BY <1>1, <2>1, <2>2
<1>8. Count = p
  <2>1. p % Word = p
    BY <1>1, <1>7, ModSmall
  <2>2. QED
    BY <1>7, <2>1 DEF Count, Signed, Unsigned, p
<1>9. Room = p
  <2>1. (p * m) \div m = p
    <3>1. CASE m = 2
      BY <1>7, <3>1
    <3>2. CASE m = 4
      BY <1>7, <3>2
    <3>3. QED
      BY <1>1, <3>1, <3>2
  <2>2. QED
    BY <1>6, <2>1 DEF Room, Size, Unsigned, p, m
<1>10. ASSUME NEW x \in 0 .. p - 1
       PROVE  Place(x) = x
  <2>1. Word \div m \in Nat /\ x \in Nat /\ x < Word \div m
    <3>1. CASE m = 2
      BY <1>1, <1>7, <3>1
    <3>2. CASE m = 4
      BY <1>1, <1>7, <3>2
    <3>3. QED
      BY <1>1, <3>1, <3>2
  <2>2. x % (Word \div m) = x
    BY <2>1, ModSmall
  <2>3. QED
    BY <2>2 DEF Place, m
<1>11. QED
  BY <1>7, <1>8, <1>9, <1>10 DEF p

-----------------------------------------------------------------------------
(* The steps, one lemma per part of ViewerInv.                             *)

LEMMA FlowStep == ViewerInv /\ [Next]_vars => Flow'
<1> SUFFICES ASSUME ViewerInv, [Next]_vars PROVE Flow'
  OBVIOUS
<1> USE DEF Flow, Step
<1>1. Flow
  BY DEF ViewerInv
<1>2. CASE UNCHANGED vars
  BY <1>1, <1>2 DEF vars, fileVars, lcdVars
<1>3. CASE DrmOpen \/ DrmOpenFails \/ Close
  BY <1>1, <1>3 DEF DrmOpen, DrmOpenFails, Close, fileVars, lcdVars
<1>4. CASE Fopen \/ FopenFails \/ ReadHeaders
  BY <1>1, <1>4 DEF Fopen, FopenFails, ReadHeaders, fileVars, lcdVars
<1>5. CASE DepthFits \/ DepthUnknown
  BY <1>1, <1>5 DEF DepthFits, DepthUnknown, fileVars, lcdVars
<1>6. CASE Malloc \/ MallocFails
  BY <1>1, <1>6 DEF Malloc, MallocFails, fileVars, lcdVars
<1>7. CASE ReadPixel \/ ReadDone
  BY <1>1, <1>7 DEF ReadPixel, Store, ReadDone, fileVars, lcdVars
<1>8. ASSUME NEW s \in Screens, DrmInit(s)
      PROVE  Flow'
  BY <1>1, <1>8, ScreenFacts DEF DrmInit, fileVars, lcdVars
<1>9. CASE DrmInitFails \/ ShowDone \/ PaintDone \/ FreeFb \/ Free
  BY <1>1, <1>9 DEF DrmInitFails, ShowDone, PaintDone, FreeFb, Free, fileVars, lcdVars
<1>10. CASE ShowPixel \/ ShowLine
  BY <1>1, <1>10, ScreenFacts DEF ShowPixel, ShowLine, fileVars, lcdVars
<1>11. CASE Paint
  <2>1. main = "background" /\ main' = main /\ scr' = scr /\ mapped' = mapped
        /\ UNCHANGED <<drm, fp, hdr, data>>
    BY <1>11 DEF Paint, fileVars
  <2>2. scr = NoScreen => fb' = <<>>
    BY <1>1, <1>11 DEF Paint
  <2>3. QED
    BY <1>1, <2>1, <2>2
<1>12. CASE Crash
  BY <1>1, <1>12 DEF Crash
<1>13. QED
  BY <1>2, <1>3, <1>4, <1>5, <1>6, <1>7, <1>8, <1>9, <1>10, <1>11, <1>12
     DEF Next, ReadData, Display

LEMMA FileClosedStep == ViewerInv /\ [Next]_vars => FileClosed'
<1> SUFFICES ASSUME ViewerInv, [Next]_vars PROVE FileClosed'
  OBVIOUS
<1> USE DEF FileClosed, Flow, Step
<1>1. Flow /\ FileClosed
  BY DEF ViewerInv
<1>2. CASE UNCHANGED vars
  BY <1>1, <1>2 DEF vars, fileVars, lcdVars
<1>3. CASE DrmOpen \/ DrmOpenFails \/ Close
  BY <1>1, <1>3 DEF DrmOpen, DrmOpenFails, Close, fileVars, lcdVars
<1>4. CASE Fopen \/ FopenFails \/ ReadHeaders
  BY <1>1, <1>4 DEF Fopen, FopenFails, ReadHeaders, fileVars, lcdVars
<1>5. CASE DepthFits \/ DepthUnknown
  BY <1>1, <1>5 DEF DepthFits, DepthUnknown, fileVars, lcdVars
<1>6. CASE Malloc \/ MallocFails
  BY <1>1, <1>6 DEF Malloc, MallocFails, fileVars, lcdVars
<1>7. CASE ReadPixel \/ ReadDone
  BY <1>1, <1>7 DEF ReadPixel, Store, ReadDone, fileVars, lcdVars
<1>8. CASE \E s \in Screens : DrmInit(s)
  BY <1>1, <1>8 DEF DrmInit, fileVars, lcdVars
<1>9. CASE DrmInitFails \/ ShowDone \/ PaintDone \/ FreeFb \/ Free
  BY <1>1, <1>9 DEF DrmInitFails, ShowDone, PaintDone, FreeFb, Free, fileVars, lcdVars
<1>10. CASE ShowPixel \/ ShowLine \/ Paint
  BY <1>1, <1>10 DEF ShowPixel, ShowLine, Paint, fileVars, lcdVars
<1>11. CASE Crash
  BY <1>1, <1>11 DEF Crash
<1>12. QED
  BY <1>2, <1>3, <1>4, <1>5, <1>6, <1>7, <1>8, <1>9, <1>10, <1>11
     DEF Next, ReadData, Display

\* The actions that leave readData's variables alone.
LEMMA DataKept ==
  ASSUME [Next]_vars, main \notin {"header", "malloc", "read", "free"}
  PROVE  UNCHANGED <<hdr, got, color, data>>
BY DEF Next, ReadData, Display, vars, fileVars, lcdVars, Step, DrmOpen, DrmOpenFails, Fopen,
   FopenFails, ReadHeaders, DepthFits, DepthUnknown, Malloc, MallocFails, ReadPixel, Store, ReadDone,
   DrmInit, DrmInitFails, ShowPixel, ShowLine, ShowDone, Paint, PaintDone, FreeFb, Free, Close, Crash

LEMMA FileKept == [Next]_vars => UNCHANGED file
BY DEF Next, ReadData, Display, vars, fileVars, lcdVars, Step, DrmOpen, DrmOpenFails, Fopen,
   FopenFails, ReadHeaders, DepthFits, DepthUnknown, Malloc, MallocFails, ReadPixel, Store, ReadDone,
   DrmInit, DrmInitFails, ShowPixel, ShowLine, ShowDone, Paint, PaintDone, FreeFb, Free, Close, Crash

\* The actions that leave the screen and the loops over it alone.
LEMMA ScreenKept ==
  ASSUME [Next]_vars, main \notin {"drmInit", "show", "background"}
  PROVE  UNCHANGED <<scr, fb, i, j, z, k>>
BY DEF Next, ReadData, Display, vars, fileVars, lcdVars, Step, DrmOpen, DrmOpenFails, Fopen,
   FopenFails, ReadHeaders, DepthFits, DepthUnknown, Malloc, MallocFails, ReadPixel, Store, ReadDone,
   DrmInit, DrmInitFails, ShowPixel, ShowLine, ShowDone, Paint, PaintDone, FreeFb, Free, Close, Crash

\* Where a step may lead.
LEMMA StageStep ==
  ASSUME [Next]_vars
  PROVE  \/ main' = main
         \/ main = "malloc" /\ main' = "read" /\ Malloc
         \/ main = "read" /\ main' = "drmInit" /\ ReadDone
         \/ main = "drmInit" /\ main' = "show" /\ \E s \in Screens : DrmInit(s)
         \/ main = "show" /\ main' = "free" /\ ShowDone
         \/ main' \notin {"read", "drmInit", "show", "free"}
<1>1. CASE UNCHANGED vars
  BY <1>1 DEF vars
<1>2. CASE ReadPixel \/ ShowPixel \/ ShowLine \/ Paint
  BY <1>2 DEF ReadPixel, Store, ShowPixel, ShowLine, Paint
<1>3. CASE DrmOpen \/ DrmOpenFails \/ Close \/ Free \/ Crash \/ PaintDone \/ FreeFb
             \/ DrmInitFails \/ ShowDone
  BY <1>3 DEF DrmOpen, DrmOpenFails, Close, Free, Crash, PaintDone, FreeFb, DrmInitFails,
     ShowDone, Step
<1>4. CASE ReadData /\ ~ ReadPixel
  BY <1>4 DEF ReadData, Step, Fopen, FopenFails, ReadHeaders, DepthFits, DepthUnknown, Malloc,
     MallocFails, ReadDone
<1>5. CASE \E s \in Screens : DrmInit(s)
  BY <1>5 DEF DrmInit, Step
<1>6. QED
  BY <1>1, <1>2, <1>3, <1>4, <1>5 DEF Next, Display

LEMMA FileFacts == file \in Files => file \in File /\ file.len \in Nat
BY ViewerAssumption DEF File

\* What colorData has room for while it is filled and shown.
LEMMA RoomFacts ==
  ASSUME DataTypeOK, SizeFits, main \in {"read", "drmInit", "show", "free"}
  PROVE  /\ Count \in Nat /\ Count = hdr.w * hdr.h /\ data \in [0 .. Count - 1 -> Bytes]
         /\ \A x \in 0 .. Count - 1 : Picture[x] = data[x] /\ Place(x) \in DOMAIN data
<1>1. /\ Count \in Nat /\ Count = hdr.w * hdr.h /\ Room = Count
      /\ \A x \in 0 .. Count - 1 : Place(x) = x
  BY SizeFacts DEF DataTypeOK
<1>2. data \in [0 .. Count - 1 -> Bytes]
  BY <1>1 DEF DataTypeOK
<1> HIDE DEF Count, Bytes, Place
<1>3. QED
  BY <1>1, <1>2 DEF Picture

\* The size depends on the headers only.
LEMMA SizeKept ==
  ASSUME hdr' = hdr
  PROVE  /\ Depth' = Depth /\ Count' = Count /\ Size' = Size /\ Room' = Room
         /\ SizeFits' = SizeFits /\ \A x, b : Offset(x, b)' = Offset(x, b)
BY DEF Depth, Count, Size, Room, PixelBytes, SizeFits, Offset

LEMMA DataTypeStep == ViewerInv /\ [Next]_vars => DataTypeOK'
<1> SUFFICES ASSUME ViewerInv, [Next]_vars PROVE DataTypeOK'
  OBVIOUS
<1>1. Flow /\ DataTypeOK /\ file \in Files
  BY DEF ViewerInv, ViewerTypeOK
<1> USE DEF DataTypeOK, Bytes
<1>2. CASE main = "header"
  <2>1. file \in File /\ hdr \in Header
    BY <1>1, ViewerAssumption
  <2>2. hdr' \in Header /\ pos' \in Nat /\ main' \notin {"read", "drmInit", "show", "free"}
    <3>1. CASE ReadHeaders
      <4>1. Word \in Nat /\ Word > 0
        BY ViewerAssumption
      <4>2. QED
        BY <2>1, <3>1, <4>1 DEF ReadHeaders, Step, File, Header
    <3>2. CASE ~ ReadHeaders
      BY <1>1, <1>2, <3>2 DEF Next, ReadData, Display, vars, fileVars, lcdVars, Step, DrmOpen,
         DrmOpenFails, Fopen, FopenFails, DepthFits, DepthUnknown, Malloc, MallocFails,
         ReadPixel, Store, ReadDone, DrmInit, DrmInitFails, ShowPixel, ShowLine, ShowDone, Paint,
         PaintDone, FreeFb, Free, Close, Crash
    <3>3. QED
      BY <3>1, <3>2
  <2>3. QED
    BY <2>2
<1>3. CASE Malloc
  <2>1. hdr' = hdr /\ Depth' = Depth /\ Size' = Size /\ Room' = Room /\ Size < Word \div 2
    BY <1>3 DEF Malloc, Depth, Size, Room, PixelBytes
  <2>2. color' \in Bytes /\ data' \in [0 .. Room - 1 -> Bytes] /\ got' = 0
    BY <1>3 DEF Malloc, Uninitialised
  <2>3. pos' \in Nat
    BY <1>1, <1>3, SidesInt DEF Malloc
  <2>4. QED
    BY <1>1, <2>1, <2>2, <2>3
<1>4. CASE ReadPixel
  <2> DEFINE read == [b \in 1 .. Depth |->
                        IF pos + b <= file.len THEN pos + b - 1 ELSE color[b]]
  <2>1. /\ main = "read" /\ main' = main /\ hdr' = hdr /\ got < Count /\ got' = got + 1
        /\ color' = read /\ (data' = [data EXCEPT ![got] = read] \/ data' = data)
        /\ pos' = Behind
    BY <1>4 DEF ReadPixel, Store
  <2>2. hdr \in Header /\ Count \in Int /\ Depth \in Nat /\ pos \in Nat /\ file.len \in Nat
        /\ got \in Nat
    BY <1>1, <2>1, SidesInt, FileFacts DEF Depth
  <2>3. read \in Bytes
    BY <1>1, <2>1, <2>2
  <2>4. pos' \in Nat
    BY <2>1, <2>2 DEF Behind
  <2>5. Depth' = Depth /\ Count' = Count /\ Bytes' = Bytes /\ Size' = Size /\ Room' = Room
    BY <2>1 DEF Depth, Count, Size, Room, PixelBytes
  <2> HIDE DEF read, Bytes
  <2>6. data' \in [0 .. Room - 1 -> Bytes] /\ got' \in Nat /\ got' <= Count
    BY <1>1, <2>1, <2>2, <2>3
  <2>7. QED
    BY <1>1, <2>1, <2>3, <2>4, <2>5, <2>6
<1>5. CASE main \notin {"header"} /\ ~ Malloc /\ ~ ReadPixel
  <2>1. hdr' = hdr
    BY <1>1, <1>5 DEF Next, ReadData, Display, vars, fileVars, lcdVars, Step, DrmOpen,
       DrmOpenFails, Fopen, FopenFails, ReadHeaders, DepthFits, DepthUnknown, MallocFails,
       ReadDone, DrmInit, DrmInitFails, ShowPixel, ShowLine, ShowDone, Paint,
       PaintDone, FreeFb, Free, Close, Crash
  <2>2. pos' = pos \/ pos' = 0
    BY <1>1, <1>5 DEF Next, ReadData, Display, vars, fileVars, lcdVars, Step, DrmOpen,
       DrmOpenFails, Fopen, FopenFails, ReadHeaders, DepthFits, DepthUnknown, MallocFails,
       ReadDone, DrmInit, DrmInitFails, ShowPixel, ShowLine, ShowDone, Paint,
       PaintDone, FreeFb, Free, Close, Crash
  <2>3. main' \in {"read", "drmInit", "show", "free"} =>
          /\ main \in {"read", "drmInit", "show", "free"}
          /\ main' = "read" => main = "read"
          /\ UNCHANGED <<got, color, data>>
    BY <1>1, <1>5 DEF Next, ReadData, Display, vars, fileVars, lcdVars, Step, DrmOpen,
       DrmOpenFails, Fopen, FopenFails, ReadHeaders, DepthFits, DepthUnknown, MallocFails,
       ReadDone, DrmInit, DrmInitFails, ShowPixel, ShowLine, ShowDone, Paint,
       PaintDone, FreeFb, Free, Close, Crash
  <2>4. Depth' = Depth /\ Count' = Count /\ Size' = Size /\ Room' = Room
    BY <2>1 DEF Depth, Count, Size, Room, PixelBytes
  <2>5. QED
    BY <1>1, <2>1, <2>2, <2>3, <2>4
<1>6. QED
  BY <1>2, <1>3, <1>4, <1>5

LEMMA ScreenTypeStep == ViewerInv /\ [Next]_vars => ScreenTypeOK'
<1> SUFFICES ASSUME ViewerInv, [Next]_vars PROVE ScreenTypeOK'
  OBVIOUS
<1>1. Flow /\ DataTypeOK /\ ScreenTypeOK /\ Showing
  BY DEF ViewerInv, ViewerTypeOK
<1>2. NoScreen.height = 0 /\ NoScreen.width = 0
  BY DEF NoScreen
<1>3. scr.height \in Nat /\ scr.width \in Nat /\ i \in Nat /\ j \in Nat
  <2>1. scr \in Screens => scr.height \in Nat /\ scr.width \in Nat
    BY ScreenFacts DEF IsScreen
  <2>2. scr.height \in Nat /\ scr.width \in Nat
    BY <1>1, <1>2, <2>1 DEF ScreenTypeOK
  <2>3. QED
    BY <1>1, <2>2 DEF ScreenTypeOK
<1>4. ASSUME NEW s \in Screens, DrmInit(s)
      PROVE  ScreenTypeOK'
  <2>1. /\ scr' = s /\ i' = 0 /\ j' = 0 /\ z' = 0 /\ main' = "show" /\ main = "drmInit"
        /\ hdr' = hdr
        /\ fb' = [e \in 0 .. s.size \div s.n - 1 |-> Black]
    BY <1>4 DEF DrmInit, Step, StartCopy, fileVars
  <2>2. IsScreen(s) /\ s.height \in Nat /\ s.width \in Nat
    BY ScreenFacts DEF IsScreen
  <2>3. DOMAIN fb' = Elem'
    BY <2>1 DEF Elem
  <2>4. s.height > 0 /\ s.width > 0 => 0 \in Elem'
    <3>1. s.line \div s.n \in Nat
      BY <2>2, LineFacts
    <3>2. s.height > 0 /\ s.width > 0 =>
            (s.line \div s.n) * 0 + 0 \in 0 .. s.size \div s.n - 1
      BY <2>2, PlaceInside
    <3>3. QED
      BY <2>1, <3>1, <3>2 DEF Elem
  <2>5. QED
    BY <2>1, <2>2, <2>3, <2>4 DEF ScreenTypeOK
<1>5. CASE main = "show" /\ main' = "show"
  <2>1. CASE UNCHANGED vars
    BY <1>1, <1>5, <2>1 DEF ScreenTypeOK, Elem, vars, lcdVars
  <2>2. CASE ShowPixel \/ ShowLine
    <3>1. /\ scr' = scr /\ hdr' = hdr /\ DOMAIN fb' = DOMAIN fb /\ i' \in 0 .. scr.height
          /\ j' \in 0 .. scr.width /\ z' \in Nat /\ z' = Stride * i' + j'
      <4>1. /\ Stride \in Nat /\ z = Stride * i + j
            /\ i \in 0 .. scr.height /\ j \in 0 .. scr.width
        BY <1>1, <1>5, CopyFacts DEF Showing, ScreenTypeOK
      <4>2. CASE ShowPixel
        <5>1. /\ i < scr.height /\ j < scr.width /\ i' = i /\ j' = j + 1 /\ z' = z + 1
              /\ scr' = scr /\ hdr' = hdr /\ DOMAIN fb' = DOMAIN fb
          BY <4>2 DEF ShowPixel, PicPixel, fileVars
        <5>2. Stride * i \in Nat
          BY <1>3, <4>1
        <5> HIDE DEF Stride
        <5>3. QED
          BY <1>3, <4>1, <5>1, <5>2
      <4>3. CASE ShowLine
        <5>1. /\ i < scr.height /\ i' = i + 1 /\ j' = 0 /\ z' = Stride * (i + 1)
              /\ scr' = scr /\ hdr' = hdr /\ fb' = fb
          BY <4>3 DEF ShowLine, NextLine, fileVars
        <5>2. Stride * (i + 1) \in Nat
          BY <1>3, <4>1
        <5>3. QED
          BY <1>3, <4>1, <5>1, <5>2
      <4>4. QED
        BY <2>2, <4>2, <4>3
    <3>2. i' < scr.height /\ j' < scr.width => z' \in Elem
      <4>1. i' \in Nat /\ j' \in Nat
        BY <1>3, <3>1
      <4>2. \A r \in Nat, c \in Nat : r < scr.height /\ c < scr.width => Stride * r + c \in Elem
        BY <1>1, <1>5, CopyFacts
      <4>3. QED
        BY <3>1, <4>1, <4>2
    <3>3. Elem' = Elem
      BY <3>1 DEF Elem
    <3>4. scr' \in Screens \cup {NoScreen} /\ (mapped' => DOMAIN fb' = Elem')
      BY <1>1, <1>5, <2>2, <3>1, <3>3 DEF ScreenTypeOK, Flow, ShowPixel, ShowLine
    <3>5. QED
      BY <3>1, <3>2, <3>3, <3>4 DEF ScreenTypeOK
  <2>3. QED
    BY <1>5, <2>1, <2>2 DEF Next, ReadData, Display, vars, fileVars, lcdVars, Step, DrmOpen,
       DrmOpenFails, Fopen, FopenFails, ReadHeaders, DepthFits, DepthUnknown, Malloc,
       MallocFails, ReadPixel, Store, ReadDone, DrmInit, DrmInitFails, ShowDone, Paint, PaintDone,
       FreeFb, Free, Close, Crash
<1>6. CASE DrmInitFails
  <2>1. /\ scr' \in Screens \cup {NoScreen} /\ main' = "exited" /\ i' = 0 /\ j' = 0 /\ z' = z
        /\ ~ mapped'
    BY <1>1, <1>2, <1>6 DEF DrmInitFails, Step, Flow, ScreenTypeOK
  <2>2. scr'.height \in Nat /\ scr'.width \in Nat
    BY <1>2, <2>1, ScreenFacts DEF IsScreen
  <2>3. QED
    BY <1>1, <2>1, <2>2 DEF ScreenTypeOK
<1>7. CASE Paint
  <2>1. /\ UNCHANGED <<scr, i, j, z, mapped, main>> /\ DOMAIN fb' = DOMAIN fb
        /\ main = "background"
    BY <1>7 DEF Paint
  <2>2. QED
    BY <1>1, <2>1 DEF ScreenTypeOK, Elem
<1>8. CASE main' # "show" /\ ~ DrmInitFails /\ ~ Paint
  <2>1. UNCHANGED <<scr, fb, i, j, z>> /\ (mapped' => mapped)
    BY <1>8 DEF Next, ReadData, Display, vars, fileVars, lcdVars, Step, DrmOpen,
       DrmOpenFails, Fopen, FopenFails, ReadHeaders, DepthFits, DepthUnknown, Malloc,
       MallocFails, ReadPixel, Store, ReadDone, DrmInit, ShowPixel, ShowLine, ShowDone,
       PaintDone, FreeFb, Free, Close, Crash
  <2>2. QED
    BY <1>1, <1>8, <2>1 DEF ScreenTypeOK, Elem
<1>9. QED
  BY <1>4, <1>5, <1>6, <1>7, <1>8, StageStep

LEMMA TypeStep == ViewerInv /\ [Next]_vars => ViewerTypeOK'
<1> SUFFICES ASSUME ViewerInv, [Next]_vars PROVE ViewerTypeOK'
  OBVIOUS
<1>1. ViewerTypeOK
  BY DEF ViewerInv
<1>2. DataTypeOK' /\ ScreenTypeOK' /\ file' = file
  BY DataTypeStep, ScreenTypeStep, FileKept
<1>3. main' \in Stage /\ fp' \in BOOLEAN /\ drm' \in BOOLEAN /\ mapped' \in BOOLEAN
  BY <1>1 DEF ViewerTypeOK, Stage, Next, ReadData, Display, vars, fileVars, lcdVars, Step,
     DrmOpen, DrmOpenFails, Fopen, FopenFails, ReadHeaders, DepthFits, DepthUnknown, Malloc,
     MallocFails, ReadPixel, Store, ReadDone, DrmInit, DrmInitFails, ShowPixel, ShowLine, ShowDone,
     Paint, PaintDone, FreeFb, Free, Close, Crash
<1>4. k' = k \/ (k <= 3 /\ k' = k + 1)
  BY DEF Next, ReadData, Display, vars, fileVars, lcdVars, Step,
     DrmOpen, DrmOpenFails, Fopen, FopenFails, ReadHeaders, DepthFits, DepthUnknown, Malloc,
     MallocFails, ReadPixel, Store, ReadDone, DrmInit, DrmInitFails, ShowPixel, ShowLine, ShowDone,
     Paint, PaintDone, FreeFb, Free, Close, Crash
<1>5. astray' \subseteq {"data", "fb"}
  BY <1>1 DEF ViewerTypeOK, Missed, Next, ReadData, Display, vars, fileVars, lcdVars, Step,
     DrmOpen, DrmOpenFails, Fopen, FopenFails, ReadHeaders, DepthFits, DepthUnknown, Malloc,
     MallocFails, ReadPixel, Store, ReadDone, DrmInit, DrmInitFails, ShowPixel, ShowLine,
     ShowDone, Paint, PaintDone, FreeFb, Free, Close, Crash
<1>6. QED
  BY <1>1, <1>2, <1>3, <1>4, <1>5 DEF ViewerTypeOK

\* A number of 16 bits that is painted is in a pixel of the frame buffer.
LEMMA NumberInside ==
  ASSUME ScreenTypeOK, Flow, main = "background", NEW p \in 0 .. Numbers - 1
  PROVE  InFb((2 * p) \div scr.n)
<1>1. scr = NoScreen => 0 .. Numbers - 1 = {}
  BY DEF NoScreen, Numbers
<1>2. scr \in Screens
  BY <1>1 DEF ScreenTypeOK
<1>3. scr.n \in {2, 4} /\ scr.size \in Nat
  BY <1>2, ScreenFacts DEF IsScreen
<1>4. mapped /\ DOMAIN fb = 0 .. Numbers - 1
  BY <1>2, ScreenFacts DEF Flow, ScreenTypeOK, Elem, Numbers
<1>5. (2 * p) \div scr.n \in 0 .. Numbers - 1
  <2>1. Numbers \in Nat
    <3>1. CASE scr.n = 2
      BY <1>3, <3>1 DEF Numbers
    <3>2. CASE scr.n = 4
      BY <1>3, <3>2 DEF Numbers
    <3>3. QED
      BY <1>3, <3>1, <3>2
  <2>2. CASE scr.n = 2
    BY <2>1, <2>2
  <2>3. CASE scr.n = 4
    BY <2>1, <2>3
  <2>4. QED
    BY <1>3, <2>2, <2>3
<1>6. QED
  BY <1>4, <1>5 DEF InFb

LEMMA IndexesStep == ViewerInv /\ [Next]_vars => IndexesInside'
<1> SUFFICES ASSUME ViewerInv, [Next]_vars PROVE IndexesInside'
  OBVIOUS
<1>1. /\ ViewerTypeOK /\ DataTypeOK /\ ScreenTypeOK /\ Flow /\ IndexesInside
  BY DEF ViewerInv, ViewerTypeOK
<1>2. CASE ReadPixel
  <2>1. /\ hdr' = hdr /\ main = "read" /\ got < Count
        /\ astray' = astray \cup Missed("data", got \notin DOMAIN data)
    BY <1>2 DEF ReadPixel, Store
  <2>2. SizeFits => got \in DOMAIN data
    <3> SUFFICES ASSUME SizeFits PROVE got \in DOMAIN data
      OBVIOUS
    <3>1. Count \in Nat /\ data \in [0 .. Count - 1 -> Bytes] /\ got \in Nat
      BY <1>1, <2>1, RoomFacts DEF DataTypeOK
    <3> HIDE DEF Count, Bytes
    <3>2. QED
      BY <2>1, <3>1
  <2>3. SizeFits' = SizeFits
    BY <2>1, SizeKept
  <2>4. QED
    BY <1>1, <2>1, <2>2, <2>3 DEF IndexesInside, Missed
<1>3. CASE ShowPixel
  <2>1. /\ hdr' = hdr /\ main = "show" /\ i < scr.height /\ j < scr.width
        /\ astray' = astray
             \cup Missed("fb", ~ InFb(z))
             \cup Missed("data", Inside(hdr.w, hdr.h) /\ Place(hdr.w * i + j) \notin DOMAIN data)
    BY <1>3 DEF ShowPixel, PicPixel, fileVars
  <2>2. InFb(z)
    BY <1>1, <2>1 DEF InFb, Flow, ScreenTypeOK
  <2>3. SizeFits /\ Inside(hdr.w, hdr.h) => Place(hdr.w * i + j) \in DOMAIN data
    <3> SUFFICES ASSUME SizeFits, j < hdr.w, i < hdr.h
                 PROVE  Place(hdr.w * i + j) \in DOMAIN data
      BY DEF Inside
    <3>1. scr.height \in Nat /\ scr.width \in Nat
      BY <1>1, <2>1, CopyFacts
    <3>2. i \in Nat /\ j \in Nat
      BY <1>1, <3>1 DEF ScreenTypeOK
    <3>3. hdr.w \in Nat /\ hdr.h \in Nat
      BY <1>1, <3>2, SidesInt DEF DataTypeOK
    <3>4. hdr.w * i + j \in Nat /\ hdr.w * i + j < hdr.w * hdr.h
      BY <3>2, <3>3, RowBounds
    <3>5. /\ Count \in Nat /\ Count = hdr.w * hdr.h
          /\ \A x \in 0 .. Count - 1 : Place(x) \in DOMAIN data
      BY <1>1, <2>1, RoomFacts
    <3>6. hdr.w * i + j \in 0 .. Count - 1
      BY <3>4, <3>5
    <3>7. QED
      BY <3>5, <3>6
  <2>4. SizeFits' = SizeFits
    BY <2>1, SizeKept
  <2>5. QED
    BY <1>1, <2>1, <2>2, <2>3, <2>4 DEF IndexesInside, Missed
<1>4. CASE Paint
  <2>1. /\ hdr' = hdr /\ main = "background"
        /\ astray' = astray
             \cup Missed("fb", \E p \in 0 .. Numbers - 1 : ~ InFb((2 * p) \div scr.n))
    BY <1>4 DEF Paint, fileVars
  <2>2. \A p \in 0 .. Numbers - 1 : InFb((2 * p) \div scr.n)
    BY <1>1, <2>1, NumberInside
  <2>3. SizeFits' = SizeFits
    BY <2>1, SizeKept
  <2>4. QED
    BY <1>1, <2>1, <2>2, <2>3 DEF IndexesInside, Missed
<1>5. CASE ReadHeaders
  <2>1. astray' = {}
    BY <1>1, <1>5 DEF ReadHeaders, Step, Flow
  <2>2. QED
    BY <2>1 DEF IndexesInside
<1>6. CASE ~ ReadPixel /\ ~ ShowPixel /\ ~ Paint /\ ~ ReadHeaders
  <2>1. UNCHANGED <<hdr, astray>>
    BY <1>6 DEF Next, ReadData, Display, vars, fileVars, lcdVars, DrmOpen, DrmOpenFails,
       Fopen, FopenFails, DepthFits, DepthUnknown, Malloc, MallocFails, ReadDone, DrmInit,
       DrmInitFails, ShowLine, ShowDone, PaintDone, FreeFb, Free, Close, Crash
  <2>2. QED
    BY <1>1, <2>1, SizeKept DEF IndexesInside
<1>7. QED
  BY <1>2, <1>3, <1>4, <1>5, <1>6

\* One round of the reader: the bytes the file has at the reader's position get
\* into the pixel, and the position is right for the next one.
LEMMA RoundFacts ==
  ASSUME ViewerTypeOK, Flow, Reading, ReadPixel
  PROVE  /\ hdr.off < Word \div 2 =>
              IF hdr.off + Depth * (got + 1) <= file.len
              THEN pos' = hdr.off + Depth * (got + 1)
              ELSE pos' >= file.len
         /\ SizeFits =>
              /\ \A b \in 1 .. Depth : Offset(got, b) < file.len =>
                   data'[got][b] = Offset(got, b)
              /\ \A x \in 0 .. got - 1 : data'[x] = data[x]
<1> DEFINE read == [b \in 1 .. Depth |->
                      IF pos + b <= file.len THEN pos + b - 1 ELSE color[b]]
           n == hdr.off + Depth * got
<1>1. /\ main = "read" /\ got < Count /\ pos' = Behind
      /\ IF got \in DOMAIN data THEN data' = [data EXCEPT ![got] = read] ELSE data' = data
  BY DEF ReadPixel, Store
<1>2. /\ Count \in Int /\ hdr.off \in Nat /\ pos \in Nat /\ file.len \in Nat /\ got \in Nat
      /\ file.len < Word \div 2 /\ DataTypeOK /\ Word \in Nat
  <2>1. hdr \in Header /\ file \in File /\ Word \in Nat
    BY ViewerAssumption DEF ViewerTypeOK, DataTypeOK
  <2>2. file.len \in 0 .. Word \div 2 - 1
    BY <2>1 DEF File
  <2>3. QED
    BY <1>1, <2>1, <2>2, SidesInt DEF ViewerTypeOK, DataTypeOK
<1>3. Depth \in {2, 3}
  BY <1>1, DepthFacts
<1>4. /\ n \in Nat /\ hdr.off + Depth * (got + 1) = n + Depth
      /\ hdr.off < Word \div 2 => IF n <= file.len THEN pos = n ELSE pos >= file.len
  <2>1. hdr.off < Word \div 2 => IF n <= file.len THEN pos = n ELSE pos >= file.len
    BY <1>1 DEF Reading
  <2> HIDE DEF Depth
  <2>2. n \in Nat /\ hdr.off + Depth * (got + 1) = n + Depth
    BY <1>2, <1>3
  <2>3. QED
    BY <2>1, <2>2
<1>5. \A b \in 1 .. Depth : Offset(got, b) = n + b - 1
  BY DEF Offset
<1>6. SizeFits => data \in [0 .. Count - 1 -> Bytes] /\ got \in 0 .. Count - 1
  BY <1>1, <1>2, RoomFacts
<1>7. n >= hdr.off
  <2>1. Depth * got \in Nat
    BY <1>2, <1>3
  <2> HIDE DEF Depth
  <2>2. QED
    BY <1>2, <2>1
<1> HIDE DEF n, Count, Depth
<1>8. hdr.off < Word \div 2 =>
        IF n + Depth <= file.len THEN pos' = n + Depth ELSE pos' >= file.len
  BY <1>1, <1>2, <1>3, <1>4 DEF Behind
<1>9. SizeFits => data'[got] = read /\ \A x \in 0 .. got - 1 : data'[x] = data[x]
  <2> HIDE DEF read, Bytes, SizeFits
  <2> SUFFICES ASSUME SizeFits
               PROVE  data'[got] = read /\ \A x \in 0 .. got - 1 : data'[x] = data[x]
    OBVIOUS
  <2>1. DOMAIN data = 0 .. Count - 1 /\ got \in DOMAIN data
    BY <1>6
  <2>2. data' = [data EXCEPT ![got] = read]
    BY <1>1, <2>1
  <2>3. \A x \in 0 .. got - 1 : x \in DOMAIN data /\ x # got
    BY <1>2, <1>6, <2>1
  <2>4. QED
    BY <2>1, <2>2, <2>3
<1>10. ASSUME NEW b \in 1 .. Depth, Offset(got, b) < file.len, SizeFits
       PROVE  data'[got][b] = Offset(got, b)
  <2>1. n + b - 1 < file.len /\ b \in Nat /\ b >= 1
    BY <1>3, <1>5, <1>10
  <2>2. hdr.off < Word \div 2
    <3>1. Word \div 2 \in Int
      BY <1>2
    <3>2. QED
      BY <1>2, <1>4, <1>7, <2>1, <3>1
  <2>3. pos = n
    BY <1>2, <1>3, <1>4, <2>1, <2>2
  <2>4. read[b] = pos + b - 1
    BY <1>2, <1>4, <2>1, <2>3
  <2>5. QED
    BY <1>5, <1>9, <1>10, <2>3, <2>4
<1>11. QED
  BY <1>4, <1>8, <1>9, <1>10

LEMMA ReadingStep == ViewerInv /\ [Next]_vars => Reading'
<1> SUFFICES ASSUME ViewerInv, [Next]_vars PROVE Reading'
  OBVIOUS
<1>1. ViewerTypeOK /\ DataTypeOK /\ Flow /\ Reading /\ file' = file
  BY FileKept DEF ViewerInv, ViewerTypeOK
<1>2. CASE Malloc
  <2>1. /\ hdr' = hdr /\ got' = 0 /\ main' = "read" /\ hdr.off \in Nat /\ Word \in Nat
        /\ pos' = IF Signed(hdr.off) >= 0 THEN hdr.off ELSE pos
    BY <1>1, <1>2, SidesInt, ViewerAssumption DEF Malloc, Step, DataTypeOK
  <2>2. hdr.off < Word \div 2 => pos' = hdr.off
    <3> SUFFICES ASSUME hdr.off < Word \div 2 PROVE Signed(hdr.off) = hdr.off
      BY <2>1
    <3>1. hdr.off < Word
      BY <2>1
    <3>2. hdr.off % Word = hdr.off
      BY <2>1, <3>1, ModSmall
    <3>3. QED
      BY <3>2 DEF Signed, Unsigned
  <2>3. Depth' = Depth /\ Depth * 0 = 0 /\ file.len \in Nat
    <3>1. Depth \in {2, 3}
      BY <1>1, <1>2, DepthFacts DEF Malloc, Step
    <3>2. QED
      BY <1>1, <2>1, <3>1, SizeKept, FileFacts DEF ViewerTypeOK
  <2>4. QED
    BY <1>1, <2>1, <2>2, <2>3 DEF Reading
<1>3. CASE ReadPixel
  <2>1. /\ main = "read" /\ main' = main /\ hdr' = hdr /\ got' = got + 1 /\ got \in Nat
    BY <1>1, <1>3 DEF ReadPixel, Store, DataTypeOK
  <2>2. Depth' = Depth /\ SizeFits' = SizeFits /\ \A x, b : Offset(x, b)' = Offset(x, b)
    BY <2>1, SizeKept
  <2>3. ASSUME NEW x \in 0 .. got, NEW b \in 1 .. Depth, Offset(x, b) < file.len, SizeFits
        PROVE  data'[x][b] = Offset(x, b)
    <3>1. CASE x = got
      BY <1>1, <1>3, <2>3, <3>1, RoundFacts
    <3>2. CASE x # got
      <4>1. x \in 0 .. got - 1
        BY <2>1, <3>2
      <4>2. data'[x] = data[x]
        BY <1>1, <1>3, <2>3, <4>1, RoundFacts
      <4>3. QED
        BY <1>1, <2>1, <2>3, <4>1, <4>2 DEF Reading
    <3>3. QED
      BY <3>1, <3>2
  <2>4. got' - 1 = got
    BY <2>1
  <2>5. hdr.off < Word \div 2 => IF hdr.off + Depth * got' <= file.len
        THEN pos' = hdr.off + Depth * got' ELSE pos' >= file.len
    BY <1>1, <1>3, <2>1, RoundFacts
  <2>6. QED
    BY <1>1, <2>1, <2>2, <2>3, <2>4, <2>5 DEF Reading
<1>4. CASE ReadDone
  <2>1. /\ main = "read" /\ main' = "drmInit" /\ got >= Count
        /\ UNCHANGED <<hdr, got, data>>
    BY <1>4 DEF ReadDone, Step
  <2>2. SizeFits => got = Count
    BY <1>1, <2>1, RoomFacts DEF DataTypeOK
  <2>3. QED
    BY <1>1, <2>1, <2>2, SizeKept DEF Reading
<1>5. CASE main \in {"drmInit", "show", "free"} /\ main' \in {"drmInit", "show", "free"}
  <2>1. UNCHANGED <<hdr, got, data>>
    <3>1. CASE main = "free"
      BY <1>5, <3>1 DEF Next, ReadData, Display, vars, fileVars, lcdVars, Step, DrmOpen,
       DrmOpenFails, Fopen, FopenFails, ReadHeaders, DepthFits, DepthUnknown, Malloc,
       MallocFails, ReadPixel, Store, ReadDone, DrmInit, DrmInitFails, ShowPixel, ShowLine, ShowDone,
       Paint, PaintDone, FreeFb, Free, Close, Crash
    <3>2. QED
      BY <1>5, <3>1, DataKept
  <2>2. QED
    BY <1>1, <1>5, <2>1, SizeKept DEF Reading
<1>6. CASE main = "read" /\ main' = "read" /\ ~ ReadPixel
  <2>1. UNCHANGED <<hdr, got, data, pos>>
    BY <1>6 DEF Next, ReadData, Display, vars, fileVars, lcdVars, Step, DrmOpen,
       DrmOpenFails, Fopen, FopenFails, ReadHeaders, DepthFits, DepthUnknown, Malloc,
       MallocFails, ReadDone, DrmInit, DrmInitFails, ShowPixel, ShowLine, ShowDone,
       Paint, PaintDone, FreeFb, Free, Close, Crash
  <2>2. QED
    BY <1>1, <1>6, <2>1, SizeKept DEF Reading
<1>7. CASE main' \notin {"read", "drmInit", "show", "free"}
  BY <1>7 DEF Reading
<1>8. QED
  <2>1. \/ main' = main \/ main' \notin {"read", "drmInit", "show", "free"}
        \/ Malloc \/ ReadDone
        \/ main = "drmInit" /\ main' = "show"
        \/ main = "show" /\ main' = "free"
    BY StageStep
  <2>2. QED
    BY <2>1, <1>2, <1>3, <1>4, <1>5, <1>6, <1>7

\* What a round stores at place b, in the pixel and in color, is from the file if
\* that place of the first pixel is.
LEMMA RoundRemembers ==
  ASSUME ViewerInv, ReadPixel, NEW b \in 1 .. Depth, Offset(0, b) < file.len
  PROVE  /\ FromFile(color'[b], got, b)
         /\ SizeFits => data'[got][b] = color'[b]
<1> DEFINE read == [c \in 1 .. Depth |->
                      IF pos + c <= file.len THEN pos + c - 1 ELSE color[c]]
<1>1. ViewerTypeOK /\ DataTypeOK /\ Flow /\ Reading /\ Remembered
  BY DEF ViewerInv, ViewerTypeOK
<1>2. /\ main = "read" /\ got < Count /\ color' = read
      /\ got \in DOMAIN data => data' = [data EXCEPT ![got] = read]
  BY DEF ReadPixel, Store
<1>3. /\ Count \in Int /\ hdr.off \in Nat /\ pos \in Nat /\ file.len \in Nat /\ got \in Nat
      /\ file.len < Word \div 2 /\ Word \in Nat
  <2>1. hdr \in Header /\ file \in File /\ Word \in Nat
    BY <1>1, ViewerAssumption DEF ViewerTypeOK, DataTypeOK
  <2>2. file.len \in 0 .. Word \div 2 - 1
    BY <2>1 DEF File
  <2>3. QED
    BY <1>1, <1>2, <2>1, <2>2, SidesInt DEF DataTypeOK
<1>4. Depth \in {2, 3}
  BY <1>1, <1>2, DepthFacts
<1>5. hdr.off < Word \div 2 =>
        IF hdr.off + Depth * got <= file.len
        THEN pos = hdr.off + Depth * got ELSE pos >= file.len
  BY <1>1, <1>2 DEF Reading
<1>6. /\ b \in Nat /\ b >= 1
      /\ SizeFits => data \in [0 .. Count - 1 -> Bytes] /\ got \in 0 .. Count - 1
  <2>1. b \in Nat /\ b >= 1
    BY <1>4
  <2>2. SizeFits => data \in [0 .. Count - 1 -> Bytes]
    BY <1>1, <1>2, RoomFacts
  <2>3. got \in 0 .. Count - 1
    BY <1>2, <1>3
  <2>4. QED
    BY <2>1, <2>2, <2>3
<1>7. read[b] = IF pos + b <= file.len THEN pos + b - 1 ELSE color[b]
  OBVIOUS
<1>8. got > 0 => FromFile(color[b], got - 1, b)
  BY <1>1, <1>2 DEF Remembered
<1>9. Offset(0, b) = hdr.off + b - 1 /\ hdr.off < Word \div 2
  <2>1. Offset(0, b) = hdr.off + b - 1
    BY <1>3, <1>4, <1>6 DEF Offset
  <2>2. Word \div 2 \in Int
    BY <1>3
  <2>3. QED
    BY <1>3, <1>6, <2>1, <2>2
<1> HIDE DEF Count, Depth, read
<1>10. SizeFits => data'[got][b] = color'[b]
  BY <1>2, <1>3, <1>6
<1>11. CASE pos + b <= file.len
  <2>1. pos = hdr.off + Depth * got
    BY <1>3, <1>5, <1>6, <1>9, <1>11
  <2>2. read[b] = Offset(got, b) /\ Offset(got, b) < file.len
    <3>1. Offset(got, b) = pos + b - 1
      BY <2>1 DEF Offset
    <3>2. QED
      BY <1>3, <1>6, <1>7, <1>11, <3>1
  <2>3. got \in 0 .. got
    BY <1>3
  <2>4. QED
    BY <1>2, <1>10, <2>2, <2>3 DEF FromFile
<1>12. CASE ~ (pos + b <= file.len)
  <2>1. got > 0
    <3> SUFFICES ASSUME got = 0 PROVE FALSE
      BY <1>3
    <3>1. hdr.off + Depth * got = hdr.off
      BY <1>3, <1>4
    <3>2. QED
      BY <1>3, <1>5, <1>6, <1>9, <1>12, <3>1
  <2>2. PICK q \in 0 .. got - 1 : Offset(q, b) < file.len /\ color[b] = Offset(q, b)
    BY <1>8, <2>1 DEF FromFile
  <2>3. q \in 0 .. got
    BY <1>3
  <2>4. QED
    BY <1>2, <1>7, <1>10, <1>12, <2>2, <2>3 DEF FromFile
<1>13. QED
  BY <1>11, <1>12

LEMMA RememberedStep == ViewerInv /\ [Next]_vars => Remembered'
<1> SUFFICES ASSUME ViewerInv, [Next]_vars PROVE Remembered'
  OBVIOUS
<1>1. ViewerTypeOK /\ DataTypeOK /\ Flow /\ Reading /\ Remembered /\ file' = file
  BY FileKept DEF ViewerInv, ViewerTypeOK
<1>2. CASE Malloc
  <2>1. got' = 0 /\ main' = "read"
    BY <1>2 DEF Malloc, Step
  <2>2. \A x \in 0 .. got' - 1 : FALSE
    BY <2>1
  <2>3. QED
    BY <2>1, <2>2 DEF Remembered
<1>3. CASE ReadPixel
  <2>1. /\ main = "read" /\ main' = main /\ hdr' = hdr /\ got' = got + 1 /\ got \in Nat
    BY <1>1, <1>3 DEF ReadPixel, Store, DataTypeOK
  <2>2. Depth' = Depth /\ SizeFits' = SizeFits /\ \A x, b : Offset(x, b)' = Offset(x, b)
    BY <2>1, SizeKept
  <2>3. ASSUME NEW b \in 1 .. Depth, Offset(0, b) < file.len
        PROVE  FromFile(color'[b], got, b)
    BY <1>3, <2>3, RoundRemembers
  <2>4. ASSUME NEW x \in 0 .. got, NEW b \in 1 .. Depth, Offset(0, b) < file.len, SizeFits
        PROVE  FromFile(data'[x][b], x, b)
    <3>1. CASE x = got
      BY <1>3, <2>4, <3>1, RoundRemembers
    <3>2. CASE x # got
      <4>1. x \in 0 .. got - 1
        BY <2>1, <3>2
      <4>2. data'[x] = data[x]
        BY <1>1, <1>3, <2>4, <4>1, RoundFacts
      <4>3. QED
        BY <1>1, <2>1, <2>4, <4>1, <4>2 DEF Remembered
    <3>3. QED
      BY <3>1, <3>2
  <2>5. got' - 1 = got
    BY <2>1
  <2>6. QED
    BY <1>1, <2>1, <2>2, <2>3, <2>4, <2>5 DEF Remembered, FromFile
<1>4. CASE ReadDone
  <2>1. /\ main = "read" /\ main' = "drmInit" /\ UNCHANGED <<hdr, got, data>>
    BY <1>4 DEF ReadDone, Step
  <2>2. QED
    BY <1>1, <2>1, SizeKept DEF Remembered, FromFile
<1>5. CASE main \in {"drmInit", "show", "free"} /\ main' \in {"drmInit", "show", "free"}
  <2>1. UNCHANGED <<hdr, got, data>>
    <3>1. CASE main = "free"
      BY <1>5, <3>1 DEF Next, ReadData, Display, vars, fileVars, lcdVars, Step, DrmOpen,
       DrmOpenFails, Fopen, FopenFails, ReadHeaders, DepthFits, DepthUnknown, Malloc,
       MallocFails, ReadPixel, Store, ReadDone, DrmInit, DrmInitFails, ShowPixel, ShowLine, ShowDone,
       Paint, PaintDone, FreeFb, Free, Close, Crash
    <3>2. QED
      BY <1>5, <3>1, DataKept
  <2>2. QED
    BY <1>1, <1>5, <2>1, SizeKept DEF Remembered, FromFile
<1>6. CASE main = "read" /\ main' = "read" /\ ~ ReadPixel
  <2>1. UNCHANGED <<hdr, got, data, color>>
    BY <1>6 DEF Next, ReadData, Display, vars, fileVars, lcdVars, Step, DrmOpen,
       DrmOpenFails, Fopen, FopenFails, ReadHeaders, DepthFits, DepthUnknown, Malloc,
       MallocFails, ReadDone, DrmInit, DrmInitFails, ShowPixel, ShowLine, ShowDone,
       Paint, PaintDone, FreeFb, Free, Close, Crash
  <2>2. QED
    BY <1>1, <1>6, <2>1, SizeKept DEF Remembered, FromFile
<1>7. CASE main' \notin {"read", "drmInit", "show", "free"}
  BY <1>7 DEF Remembered
<1>8. QED
  <2>1. \/ main' = main \/ main' \notin {"read", "drmInit", "show", "free"}
        \/ Malloc \/ ReadDone
        \/ main = "drmInit" /\ main' = "show"
        \/ main = "show" /\ main' = "free"
    BY StageStep
  <2>2. QED
    BY <2>1, <1>2, <1>3, <1>4, <1>5, <1>6, <1>7

\* The copy writes one pixel, in its place, and none that was written before.
LEMMA PixelStep ==
  ASSUME ViewerInv, ShowPixel
  PROVE  Showing'
<1> DEFINE new == IF Inside(hdr.w, hdr.h) THEN Picture[hdr.w * i + j] ELSE White
<1>1. ViewerTypeOK /\ DataTypeOK /\ ScreenTypeOK /\ Flow /\ Showing
  BY DEF ViewerInv, ViewerTypeOK
<1>2. /\ main = "show" /\ main' = main /\ UNCHANGED <<scr, hdr, data>>
      /\ i < scr.height /\ j < scr.width /\ i' = i /\ j' = j + 1 /\ z' = z + 1
      /\ fb' = [fb EXCEPT ![z] = new]
  BY DEF ShowPixel, PicPixel, fileVars
<1>3. scr.height \in Nat /\ scr.width \in Nat /\ Stride \in Nat /\ scr.width <= Stride
  BY <1>1, <1>2, CopyFacts
<1>4. i \in Nat /\ j \in Nat /\ i \in 0 .. scr.height - 1
  BY <1>1, <1>2, <1>3 DEF ScreenTypeOK
<1>5. z = Stride * i + j /\ z \in Elem /\ fb = [e \in Elem |-> fb[e]]
  BY <1>1, <1>2 DEF Showing, ScreenTypeOK
<1>6. Elem' = Elem /\ Stride' = Stride /\ \A r, c : ScanPos(r, c)' = ScanPos(r, c)
  BY <1>2 DEF Elem, Stride, ScanPos
<1> HIDE DEF new
<1>7. fb' = [e \in Elem |-> IF e = z THEN new ELSE fb[e]]
  BY <1>2, <1>5
<1>8. fb' = [e \in Elem' |-> fb'[e]]
  BY <1>6, <1>7
<1>9. z' = Stride * i' + j'
  <2>1. Stride * i \in Nat
    BY <1>3, <1>4
  <2>2. QED
    BY <1>2, <1>4, <1>5, <2>1
<1>10. ASSUME NEW r \in 0 .. scr.height - 1, NEW c \in 0 .. scr.width - 1, Passed(r, c)',
              SizeFits
       PROVE  fb'[ScanPos(r, c)] =
                IF r < hdr.h /\ c < hdr.w THEN data[hdr.w * r + c] ELSE White
  <2>1. r \in Nat /\ c \in Nat /\ r < scr.height /\ c < scr.width
    BY <1>3
  <2>2. ScanPos(r, c) = Stride * r + c
    BY <1>1, <1>2, <2>1, CopyFacts
  <2>3. CASE r = i /\ c = j
    <3>1. fb'[ScanPos(r, c)] = new
      BY <1>5, <1>7, <2>2, <2>3
    <3>2. CASE r < hdr.h /\ c < hdr.w
      <4>1. hdr.w \in Nat /\ hdr.h \in Nat
        BY <1>1, <2>1, <3>2, SidesInt DEF DataTypeOK
      <4>2. hdr.w * r + c \in Nat /\ hdr.w * r + c < hdr.w * hdr.h
        BY <2>1, <3>2, <4>1, RowBounds
      <4>3. Count \in Nat /\ Count = hdr.w * hdr.h
            /\ \A x \in 0 .. Count - 1 : Picture[x] = data[x]
        BY <1>1, <1>2, <1>10, RoomFacts
      <4>4. hdr.w * r + c \in 0 .. Count - 1
        BY <4>2, <4>3
      <4>5. Picture[hdr.w * r + c] = data[hdr.w * r + c]
        BY <4>3, <4>4
      <4>6. QED
        BY <2>3, <3>1, <3>2, <4>5 DEF new, Inside
    <3>3. CASE ~ (r < hdr.h /\ c < hdr.w)
      BY <2>3, <3>1, <3>3 DEF new, Inside
    <3>4. QED
      BY <3>2, <3>3
  <2>4. CASE ~ (r = i /\ c = j)
    <3>1. Passed(r, c)
      BY <1>2, <1>4, <1>10, <2>1, <2>4 DEF Passed
    <3>2. Stride * r + c # z
      <4>1. c < Stride /\ j < Stride
        BY <1>2, <1>3, <1>4, <2>1
      <4>2. QED
        BY <1>3, <1>4, <1>5, <2>1, <2>4, <4>1, RowInjective
    <3>3. Stride * r + c \in Elem
      BY <1>1, <1>2, <2>1, CopyFacts
    <3>4. fb'[ScanPos(r, c)] = fb[ScanPos(r, c)]
      BY <1>7, <2>2, <3>2, <3>3
    <3>5. fb[ScanPos(r, c)] = IF r < hdr.h /\ c < hdr.w THEN data[hdr.w * r + c] ELSE White
      BY <1>1, <1>2, <1>10, <3>1 DEF Showing
    <3>6. QED
      BY <3>4, <3>5
  <2>5. QED
    BY <2>3, <2>4
<1>11. \A r \in 0 .. scr'.height - 1, c \in 0 .. scr'.width - 1 :
         SizeFits' /\ Passed(r, c)' =>
           fb'[ScanPos(r, c)'] =
             IF r < hdr'.h /\ c < hdr'.w THEN data'[hdr'.w * r + c] ELSE White
  <2>1. SizeFits' = SizeFits
    BY <1>2, SizeKept
  <2>2. QED
    BY <1>2, <1>6, <1>10, <2>1
<1>12. z' = Stride' * i' + j' /\ i' # scr'.height
  BY <1>2, <1>3, <1>4, <1>6, <1>9
<1>13. QED
  BY <1>2, <1>8, <1>11, <1>12 DEF Showing

LEMMA ShowingStep == ViewerInv /\ [Next]_vars => Showing'
<1> SUFFICES ASSUME ViewerInv, [Next]_vars PROVE Showing'
  OBVIOUS
<1>1. ViewerTypeOK /\ DataTypeOK /\ ScreenTypeOK /\ Flow /\ Showing
  BY DEF ViewerInv, ViewerTypeOK
<1>2. ASSUME NEW s \in Screens, DrmInit(s)
      PROVE  Showing'
  <2>1. /\ scr' = s /\ i' = 0 /\ j' = 0 /\ z' = 0 /\ main' = "show"
        /\ fb' = [e \in 0 .. s.size \div s.n - 1 |-> Black]
    BY <1>2 DEF DrmInit, Step, StartCopy
  <2>2. Stride' \in Nat /\ fb' = [e \in Elem' |-> fb'[e]]
    BY <2>1, ScreenFacts, LineFacts DEF Stride, Elem
  <2>3. \A r \in 0 .. scr'.height - 1, c \in 0 .. scr'.width - 1 : ~ Passed(r, c)'
    <3>1. s.height \in Nat /\ s.width \in Nat
      BY ScreenFacts, LineFacts
    <3>2. QED
      BY <2>1, <3>1 DEF Passed
  <2>4. z' = Stride' * i' + j' /\ (i' = scr'.height => j' = 0)
    <3>1. Stride' * 0 + 0 = 0
      BY <2>2
    <3>2. QED
      BY <2>1, <3>1
  <2>5. QED
    BY <2>1, <2>2, <2>3, <2>4 DEF Showing
<1>3. CASE ShowPixel
  BY <1>3, PixelStep
<1>4. CASE ShowLine
  <2>1. /\ main = "show" /\ main' = main /\ UNCHANGED <<scr, fb, hdr, data>>
        /\ i < scr.height /\ j = scr.width /\ i' = i + 1 /\ j' = 0 /\ z' = Stride * (i + 1)
    BY <1>4 DEF ShowLine, NextLine, fileVars
  <2>2. i \in Nat /\ scr.width \in Nat /\ scr.height \in Nat /\ Stride \in Nat
    BY <1>1, <2>1, CopyFacts DEF ScreenTypeOK
  <2>3. z' = Stride' * i' + j'
    BY <2>1, <2>2 DEF Stride
  <2>4. ASSUME NEW r \in 0 .. scr.height - 1, NEW c \in 0 .. scr.width - 1, Passed(r, c)'
        PROVE  Passed(r, c)
    BY <2>1, <2>2, <2>4 DEF Passed
  <2>5. fb' = [e \in Elem' |-> fb'[e]]
    BY <1>1, <2>1 DEF Showing, Elem
  <2>6. \A r, c : ScanPos(r, c)' = ScanPos(r, c)
    BY <2>1 DEF ScanPos
  <2>7. \A r \in 0 .. scr.height - 1, c \in 0 .. scr.width - 1 :
          SizeFits /\ Passed(r, c)' =>
            fb[ScanPos(r, c)] = IF r < hdr.h /\ c < hdr.w THEN data[hdr.w * r + c] ELSE White
    BY <1>1, <2>1, <2>4 DEF Showing
  <2>8. QED
    BY <2>1, <2>3, <2>5, <2>6, <2>7, SizeKept DEF Showing
<1>5. CASE UNCHANGED <<scr, fb, i, j, z, hdr, data>> /\ main = "show"
             /\ (main' = main \/ ShowDone)
  <2>1. main' = main \/ (main' = "free" /\ i = scr.height)
    BY <1>5 DEF ShowDone, Step, CopyEnds
  <2>2. fb' = [e \in Elem' |-> fb'[e]] /\ Stride' = Stride
    BY <1>1, <1>5 DEF Showing, Elem, Stride
  <2>3. \A r, c : ScanPos(r, c)' = ScanPos(r, c) /\ (Passed(r, c)' <=> Passed(r, c))
    BY <1>5 DEF ScanPos, Passed
  <2>4. QED
    BY <1>1, <1>5, <2>1, <2>2, <2>3, SizeKept DEF Showing
<1>6. CASE main' \notin {"show", "free"}
  BY <1>6 DEF Showing
<1>7. CASE main = "free" /\ main' = "free"
  <2>1. UNCHANGED <<scr, fb, i, j, z, hdr, data>>
    BY <1>7 DEF Next, ReadData, Display, vars, fileVars, lcdVars, Step, DrmOpen,
       DrmOpenFails, Fopen, FopenFails, ReadHeaders, DepthFits, DepthUnknown, Malloc,
       MallocFails, ReadPixel, Store, ReadDone, DrmInit, DrmInitFails, ShowPixel, ShowLine, ShowDone,
       Paint, PaintDone, FreeFb, Free, Close, Crash
  <2>2. fb' = [e \in Elem' |-> fb'[e]]
    BY <1>1, <1>7, <2>1 DEF Showing, Elem
  <2>3. \A r, c : ScanPos(r, c)' = ScanPos(r, c) /\ (Passed(r, c)' <=> Passed(r, c))
    BY <2>1 DEF ScanPos, Passed
  <2>4. QED
    BY <1>1, <1>7, <2>1, <2>2, <2>3, SizeKept DEF Showing
<1>8. QED
  <2>1. CASE main = "show" /\ main' \in {"show", "free"}
    BY <2>1, <1>3, <1>4, <1>5 DEF Next, ReadData, Display, vars, fileVars, lcdVars, Step, DrmOpen,
       DrmOpenFails, Fopen, FopenFails, ReadHeaders, DepthFits, DepthUnknown, Malloc,
       MallocFails, ReadPixel, Store, ReadDone, DrmInit, DrmInitFails, ShowDone,
       Paint, PaintDone, FreeFb, Free, Close, Crash
  <2>2. QED
    BY <2>1, <1>2, <1>6, <1>7, StageStep

-----------------------------------------------------------------------------
(* The theorems.                                                           *)

LEMMA ViewerInit == Init => ViewerInv
<1> SUFFICES ASSUME Init PROVE ViewerInv
  OBVIOUS
<1>1. DataTypeOK
  <2>1. hdr \in Headers /\ Headers \subseteq Header /\ pos = 0 /\ main = "drmOpen"
    BY ViewerAssumption DEF Init
  <2>2. QED
    BY <2>1 DEF DataTypeOK
<1>2. ScreenTypeOK
  BY DEF Init, ScreenTypeOK, NoScreen
<1>3. file \in Files /\ main \in Stage /\ k \in 1 .. 4
  BY DEF Init, Stage
<1>4. fp \in BOOLEAN /\ drm \in BOOLEAN /\ mapped \in BOOLEAN /\ astray = {}
  BY DEF Init
<1>5. ViewerTypeOK
  BY <1>1, <1>2, <1>3, <1>4 DEF ViewerTypeOK
<1>6. Flow /\ FileClosed /\ IndexesInside /\ Reading /\ Remembered /\ Showing
  BY DEF Init, Flow, FileClosed, IndexesInside, Reading, Remembered, Showing
<1>7. QED
  BY <1>5, <1>6 DEF ViewerInv

\* The stages of the program keep what they say of the file, the picture and
\* the screen.
THEOREM ViewerInductive == Spec => []ViewerInv
<1>1. ViewerInv /\ [Next]_vars => ViewerInv'
  BY FlowStep, FileClosedStep, TypeStep, IndexesStep, ReadingStep, RememberedStep,
     ShowingStep
     DEF ViewerInv
<1>2. QED
  BY ViewerInit, <1>1, PTL DEF Spec

\* The loops of the readers, of the copy and of the background end where they
\* should, and what they fill keeps its type, for every file and header.
THEOREM ViewerTypeCorrect == Spec => []ViewerTypeOK
<1>1. ViewerInv => ViewerTypeOK
  BY DEF ViewerInv
<1>2. QED
  BY ViewerInductive, <1>1, PTL

\* No access misses the frame buffer, and none misses the picture's memory unless
\* the size of the picture is no word: for every size of a word, every file,
\* every header, initialised or not, and every screen, or none.
THEOREM IndexesInsideAlways == Spec => []IndexesInside
<1>1. ViewerInv => IndexesInside
  BY DEF ViewerInv
<1>2. QED
  BY ViewerInductive, <1>1, PTL

\* Only a failing malloc leaves readData with the file open.
THEOREM FileClosedAlways == Spec => []FileClosed
<1>1. ViewerInv => FileClosed
  BY DEF ViewerInv
<1>2. QED
  BY ViewerInductive, <1>1, PTL

\* At the end neither the frame buffer nor the device is left.
THEOREM ExitReleasesAlways == Spec => []ExitReleases
<1>1. ViewerInv => ExitReleases
  BY DEF ViewerInv, Flow, ExitReleases
<1>2. QED
  BY ViewerInductive, <1>1, PTL

\* While the picture is shown, the screen has the pixels the file has, in its
\* order, and white around them.
THEOREM PictureOnScreenAlways == Spec => []PictureOnScreen
<1>1. ViewerInv => PictureOnScreen
  <2> SUFFICES ASSUME ViewerInv, main = "free", SizeFits,
                      NEW r \in 0 .. scr.height - 1, NEW c \in 0 .. scr.width - 1
               PROVE  IF r < hdr.h /\ c < hdr.w
                      THEN RowBytes = hdr.w * Depth /\ PixelInFile(r, c)[Depth] < file.len =>
                             fb[ScanPos(r, c)] = PixelInFile(r, c)
                      ELSE fb[ScanPos(r, c)] = White
    BY DEF PictureOnScreen
  <2>1. Flow /\ DataTypeOK /\ Reading /\ Showing /\ file \in File
    BY ViewerAssumption DEF ViewerInv, ViewerTypeOK
  <2>2. scr.height \in Nat /\ scr.width \in Nat
    BY <2>1, CopyFacts
  <2>3. Passed(r, c)
    BY <2>1, <2>2 DEF Showing, Passed
  <2>4. fb[ScanPos(r, c)] = IF r < hdr.h /\ c < hdr.w THEN data[hdr.w * r + c] ELSE White
    BY <2>1, <2>3 DEF Showing
  <2>5. SUFFICES ASSUME r < hdr.h, c < hdr.w, RowBytes = hdr.w * Depth,
                        PixelInFile(r, c)[Depth] < file.len
                 PROVE  data[hdr.w * r + c] = PixelInFile(r, c)
    BY <2>4
  <2> DEFINE x == hdr.w * r + c
  <2>6. /\ hdr.w \in Nat /\ hdr.h \in Nat /\ r \in Nat /\ c \in Nat /\ hdr.off \in Nat
        /\ file.len \in Nat /\ Depth \in {2, 3}
    <3>1. r \in Nat /\ c \in Nat
      BY <2>2
    <3>2. hdr.w \in Nat /\ hdr.h \in Nat /\ hdr.off \in Nat
      BY <2>1, <2>5, <3>1, SidesInt DEF DataTypeOK
    <3>3. file.len \in Nat
      BY <2>1, FileFacts DEF ViewerInv, ViewerTypeOK
    <3>4. QED
      BY <2>1, <3>1, <3>2, <3>3, DepthFacts
  <2>7. x \in Nat /\ x < Count
    <3>1. x \in Nat /\ x < hdr.w * hdr.h
      BY <2>5, <2>6, RowBounds
    <3>2. QED
      BY <2>1, <3>1, RoomFacts
  <2>8. x \in 0 .. got - 1 /\ data[x] \in Bytes
    <3>1. got = Count /\ data \in [0 .. Count - 1 -> Bytes] /\ Count \in Nat
      BY <2>1, RoomFacts DEF Reading
    <3>2. x \in 0 .. Count - 1
      BY <2>7, <3>1
    <3>3. QED
      BY <3>1, <3>2
  <2>9. \A b \in 1 .. Depth : PixelInFile(r, c)[b] = Offset(x, b)
    <3> SUFFICES ASSUME NEW b \in 1 .. Depth PROVE PixelInFile(r, c)[b] = Offset(x, b)
      OBVIOUS
    <3>1. PixelInFile(r, c)[b] = hdr.off + (hdr.w * Depth) * r + Depth * c + b - 1
      BY <2>5 DEF PixelInFile
    <3>2. (hdr.w * Depth) * r = Depth * (hdr.w * r)
      BY <2>6
    <3>3. hdr.w * r \in Nat
      BY <2>6
    <3> HIDE DEF Depth
    <3>4. Depth * x = Depth * (hdr.w * r) + Depth * c
      BY <2>6, <3>3
    <3>5. QED
      BY <2>6, <3>1, <3>2, <3>3, <3>4 DEF Offset
  <2> HIDE DEF x
  <2>10. ASSUME NEW b \in 1 .. Depth
         PROVE  data[x][b] = Offset(x, b)
    <3>1. Offset(x, Depth) < file.len
      BY <2>5, <2>6, <2>9
    <3>2. Offset(x, b) < file.len
      <4> DEFINE m == Depth * x
      <4>1. m \in Nat
        BY <2>6, <2>7
      <4> HIDE DEF m
      <4>2. QED
        BY <2>6, <3>1, <4>1 DEF Offset, m
    <3>3. QED
      BY <2>1, <2>8, <3>2 DEF Reading
  <2>11. data[x] = [b \in 1 .. Depth |-> data[x][b]]
    BY <2>8 DEF Bytes
  <2>12. PixelInFile(r, c) = [b \in 1 .. Depth |-> PixelInFile(r, c)[b]]
    BY DEF PixelInFile
  <2>13. data[x] = PixelInFile(r, c)
    BY <2>9, <2>10, <2>11, <2>12
  <2>14. QED
    BY <2>13 DEF x
<1>2. QED
  BY ViewerInductive, <1>1, PTL

\* Whatever the cut and the padding of the file, a pixel on the screen shows no
\* byte of another colour and none that nobody wrote.
THEOREM NoStrayBytesAlways == Spec => []NoStrayBytes
<1>1. ViewerInv => NoStrayBytes
  <2> SUFFICES ASSUME ViewerInv, main = "free", SizeFits,
                      NEW r \in 0 .. scr.height - 1, NEW c \in 0 .. scr.width - 1,
                      r < hdr.h, c < hdr.w,
                      NEW b \in 1 .. Depth, Offset(0, b) < file.len
               PROVE  \E x \in 0 .. hdr.w * r + c :
                        Offset(x, b) < file.len /\ fb[ScanPos(r, c)][b] = Offset(x, b)
    BY DEF NoStrayBytes
  <2> DEFINE x == hdr.w * r + c
  <2>1. Flow /\ DataTypeOK /\ Reading /\ Remembered /\ Showing
    BY DEF ViewerInv, ViewerTypeOK
  <2>2. scr.height \in Nat /\ scr.width \in Nat
    BY <2>1, CopyFacts
  <2>3. Passed(r, c)
    BY <2>1, <2>2 DEF Showing, Passed
  <2>4. fb[ScanPos(r, c)] = data[x]
    BY <2>1, <2>3 DEF Showing
  <2>5. hdr.w \in Nat /\ hdr.h \in Nat /\ r \in Nat /\ c \in Nat
    <3>1. r \in Nat /\ c \in Nat
      BY <2>2
    <3>2. QED
      BY <2>1, <3>1, SidesInt DEF DataTypeOK
  <2>6. x \in Nat /\ x < Count
    <3>1. x \in Nat /\ x < hdr.w * hdr.h
      BY <2>5, RowBounds
    <3>2. QED
      BY <2>1, <3>1, RoomFacts
  <2>7. x \in 0 .. got - 1
    <3>1. got = Count /\ Count \in Nat
      BY <2>1, RoomFacts DEF Reading
    <3>2. QED
      BY <2>6, <3>1
  <2>8. FromFile(data[x][b], x, b)
    BY <2>1, <2>7 DEF Remembered
  <2>9. QED
    BY <2>4, <2>8 DEF FromFile
<1>2. QED
  BY ViewerInductive, <1>1, PTL

\* The stages in their order.
LEMMA StageNumbers ==
  /\ StageNo("drmOpen") = 1 /\ StageNo("fopen") = 2 /\ StageNo("header") = 3
  /\ StageNo("depth") = 4 /\ StageNo("malloc") = 5 /\ StageNo("read") = 6
  /\ StageNo("drmInit") = 7 /\ StageNo("show") = 8 /\ StageNo("free") = 9
  /\ StageNo("background") = 10 /\ StageNo("freeFb") = 11 /\ StageNo("close") = 12
  /\ StageNo("exited") = 13
<1>1. ASSUME NEW n \in 1 .. 13
      PROVE  StageNo(StageOrder[n]) = n
  <2>1. Len(StageOrder) = 13 /\ n \in 1 .. Len(StageOrder)
    BY DEF StageOrder
  <2>2. \A m \in 1 .. 13 : StageOrder[m] = StageOrder[n] => m = n
    BY DEF StageOrder
  <2>3. QED
    BY <2>1, <2>2 DEF StageNo
<1>2. QED
  BY <1>1 DEF StageOrder

\* The steps that stay in a stage are the rounds of its loop.
LEMMA Rounds ==
  ASSUME Next, main' = main
  PROVE  ReadPixel \/ ShowPixel \/ ShowLine \/ Paint
BY DEF Next, ReadData, Display, Step, DrmOpen, DrmOpenFails, Fopen, FopenFails, ReadHeaders,
   DepthFits, DepthUnknown, Malloc, MallocFails, ReadDone, DrmInit, DrmInitFails, ShowDone,
   PaintDone, FreeFb, Free, Close, Crash

\* The viewer's steps never lead back, so that none of its runs is infinite.
THEOREM EveryStepForwardAlways == Spec => EveryStepForward
<1> DEFINE Forward == \/ StageNo(main') > StageNo(main)
                      \/ main' = main /\ RoundsLeft' \in Nat /\ RoundsLeft' < RoundsLeft
<1>1. ViewerInv /\ [Next]_vars => [Forward]_vars
  <2> SUFFICES ASSUME ViewerInv, Next PROVE Forward
    OBVIOUS
  <2>1. ViewerTypeOK /\ DataTypeOK /\ ScreenTypeOK /\ Flow
    BY DEF ViewerInv, ViewerTypeOK
  <2>2. CASE main' # main
    <3>1. CASE ReadData
      <4>1. \/ main = "fopen" /\ main' \in {"header", "background"}
            \/ main = "header" /\ main' = "depth"
            \/ main = "depth" /\ main' \in {"malloc", "background"}
            \/ main = "malloc" /\ main' \in {"read", "background"}
            \/ main = "read" /\ main' = "drmInit"
        BY <2>2, <3>1 DEF ReadData, Step, Fopen, FopenFails, ReadHeaders, DepthFits,
           DepthUnknown, Malloc, MallocFails, ReadPixel, Store, ReadDone
      <4>2. StageNo(main') > StageNo(main)
        BY <4>1, StageNumbers
      <4>3. QED
        BY <4>2
    <3>2. CASE Crash
      BY <2>1, <3>2, StageNumbers DEF Crash, ViewerTypeOK, Stage
    <3>3. CASE DrmOpen \/ DrmOpenFails \/ Display \/ Free \/ Close
      <4>1. \/ main = "drmOpen" /\ main' \in {"fopen", "exited"}
            \/ main = "drmInit" /\ main' \in {"show", "exited"}
            \/ main = "show" /\ main' = "free"
            \/ main = "free" /\ main' = "background"
            \/ main = "background" /\ main' = "freeFb"
            \/ main = "freeFb" /\ main' = "close"
            \/ main = "close" /\ main' = "exited"
        BY <2>2, <3>3 DEF Display, Step, DrmOpen, DrmOpenFails, DrmInit, DrmInitFails,
           ShowPixel, ShowLine, ShowDone, Paint, PaintDone, FreeFb, Free, Close
      <4>2. StageNo(main') > StageNo(main)
        BY <4>1, StageNumbers
      <4>3. QED
        BY <4>2
    <3>4. QED
      BY <3>1, <3>2, <3>3 DEF Next
  <2>3. CASE ReadPixel
    <3>1. main = "read" /\ main' = main /\ got' = got + 1 /\ got < Count /\ hdr' = hdr
      BY <2>3 DEF ReadPixel, Store
    <3>2. got \in Nat /\ Count \in Int /\ Count' = Count
      BY <2>1, <3>1, SidesInt, SizeKept DEF DataTypeOK
    <3> HIDE DEF Count
    <3>3. RoundsLeft = Count - got
      BY <3>1 DEF RoundsLeft
    <3>4. RoundsLeft' = IF got + 1 < Count THEN Count - (got + 1) ELSE 0
      BY <3>1, <3>2 DEF RoundsLeft
    <3>5. QED
      BY <3>1, <3>2, <3>3, <3>4
  <2>4. CASE ShowPixel \/ ShowLine
    <3> DEFINE w == scr.width
               h == scr.height
    <3>1. main = "show" /\ main' = main /\ scr' = scr /\ i < h
      BY <2>4 DEF ShowPixel, ShowLine, PicPixel, NextLine
    <3>2. w \in Nat /\ h \in Nat
      BY <2>1, <3>1, CopyFacts
    <3>3. i \in 0 .. h /\ j \in 0 .. w
      BY <2>1 DEF ScreenTypeOK
    <3>4. /\ RoundsLeft = (h - i) * (w + 1) + w - j
          /\ RoundsLeft' = (h - i') * (w + 1) + w - j'
      BY <3>1 DEF RoundsLeft
    <3>5. \/ i' = i /\ j' = j + 1 /\ j < w
          \/ i' = i + 1 /\ j' = 0 /\ j = w
      BY <2>4 DEF ShowPixel, ShowLine, PicPixel, NextLine
    <3> HIDE DEF w, h
    <3>6. CASE i' = i /\ j' = j + 1 /\ j < w
      <4>1. (h - i) * (w + 1) \in Nat
        BY <3>2, <3>3
      <4>2. QED
        BY <3>1, <3>2, <3>3, <3>4, <3>6, <4>1
    <3>7. CASE i' = i + 1 /\ j' = 0 /\ j = w
      <4> DEFINE m == (h - (i + 1)) * (w + 1)
      <4>1. h - (i + 1) \in Nat
        BY <3>1, <3>2, <3>3
      <4>2. m \in Nat
        BY <3>2, <4>1
      <4>3. (h - i) * (w + 1) = m + (w + 1)
        BY <3>2, <3>3
      <4> HIDE DEF m
      <4>4. RoundsLeft = m + (w + 1) + w - w /\ RoundsLeft' = m + w - 0
        BY <3>4, <3>7, <4>3 DEF m
      <4>5. QED
        BY <3>1, <3>2, <4>2, <4>4
    <3>8. QED
      BY <3>5, <3>6, <3>7
  <2>5. CASE Paint
    <3>1. main = "background" /\ main' = main /\ k' = k + 1 /\ k <= 3 /\ k \in 1 .. 4
      BY <2>1, <2>5 DEF Paint, ViewerTypeOK
    <3>2. RoundsLeft = 4 - k /\ RoundsLeft' = 4 - (k + 1)
      BY <3>1 DEF RoundsLeft
    <3>3. QED
      BY <3>1, <3>2
  <2>6. QED
    BY <2>2, <2>3, <2>4, <2>5, Rounds
<1>2. QED
  BY ViewerInductive, <1>1, PTL DEF Spec, EveryStepForward

=============================================================================
