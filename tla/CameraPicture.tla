----------------------------- MODULE CameraPicture ----------------------------
(***************************************************************************)
(* One buffer of the camera program, byte by byte: its converter writes the *)
(* picture camera.rgbdata[k] while the display thread copies an earlier or  *)
(* this announcement of it to the screen.  FramePipeline has all buffers    *)
(* and takes each of the two copies for two steps; here are the loops       *)
(* themselves, with their index arithmetic.                                 *)
(*                                                                         *)
(* A byte is abstracted to the frame it was made from and to its place in   *)
(* that frame: byte 0 or 1 of pixel x is number 2x or 2x + 1.  What value it *)
(* has is the matter of YuvConvert and of the property ColoursRight.        *)
(***************************************************************************)
EXTENDS YuvConvert, LcdCopy, Sequences

CONSTANTS
  Pictures,  \* the sizes the camera may have been set to
  Screens,   \* the frame buffers the display may have been given
  MaxFrame,  \* bound: frames that are converted
  QMax,      \* messages the System V queue holds
  Samples    \* the values of y, u and v the colours are compared for

\* YUYV has one u and one v for two pixels, so there is an even number of them.
IsPicture(p) == p \in [width : Nat, height : Nat] /\ (p.width * p.height) % 2 = 0

ASSUME PictureAssumption ==
  /\ \A p \in Pictures : IsPicture(p)
  /\ \A s \in Screens : IsScreen(s) /\ s.n = 2
  /\ MaxFrame \in Nat
  /\ QMax \in Nat \ {0}
  /\ Samples \subseteq Byte

VARIABLES
  pic,     \* camera.fmt.fmt.pix.width and height
  tables,  \* y_table, v_r_table, v_g_table, u_g_table and u_b_table
  frame,   \* number of the last frame given to the converter
  conv,    \* the converter: init, wait, convert, send
  in,      \* its loop variables
  out,
  sub,     \* how many of the four bytes of this round are written
  rgb,     \* camera.rgbdata[k]
  mq,      \* announcements of this buffer, as the frames they are about
  lcd,     \* the display thread: off, ready, recv, copy
  msg      \* the frame the message it received last is about

convVars == <<tables, frame, conv, in, out, sub, rgb>>
lcdVars == <<scr, fb, i, j, z, lcd, msg>>
vars == <<pic, convVars, mq, lcdVars>>

\* v4l2_init allocates the picture with width * height * 2 bytes.
Bytes == 0 .. pic.width * pic.height * 2 - 1

Nothing == [seq |-> 0, at |-> 0]
Black == <<Nothing, Nothing>>

Init ==
  /\ pic \in Pictures
  /\ tables = ZeroTables
  /\ frame = 0
  /\ conv = "init" /\ in = 0 /\ out = 0 /\ sub = 0
  /\ rgb = [b \in Bytes |-> Nothing]
  /\ mq = <<>>
  /\ scr = NoScreen /\ fb = <<>>
  /\ i = 0 /\ j = 0 /\ z = 0
  /\ lcd = "off" /\ msg = 0

-----------------------------------------------------------------------------
(* The converter.                                                          *)

\* yuv_rgb_table_init(), called by v4l2_init before there is any thread.
TableInit ==
  /\ conv = "init"
  /\ conv' = "wait"
  /\ tables' = Tables
  /\ UNCHANGED <<pic, frame, in, out, sub, rgb, mq, lcdVars>>

\* Mutant: the number of pixels is taken for the number of bytes.
SizeInPixels == pic.width * pic.height

\* The local variable size of convert_yuv_to_rgb565_buffer.
Size == pic.width * pic.height * 2

\* Mutant: the picture is cleared before the new one is written into it.
BeginConversionCleared ==
  /\ conv = "wait" /\ frame < MaxFrame
  /\ conv' = "convert"
  /\ frame' = frame + 1
  /\ in' = 0 /\ out' = 0 /\ sub' = 0
  /\ rgb' = [b \in Bytes |-> Nothing]
  /\ UNCHANGED <<pic, tables, mq, lcdVars>>

\* sem_wait has returned: convert_yuv_to_rgb565_buffer(yuv, rgb, width, height)
\* begins.
BeginConversion ==
  /\ conv = "wait" /\ frame < MaxFrame
  /\ conv' = "convert"
  /\ frame' = frame + 1
  /\ in' = 0 /\ out' = 0 /\ sub' = 0
  /\ UNCHANGED <<pic, tables, rgb, mq, lcdVars>>

\* A round reads y0, u, y1 and v at in and writes rgb[out+1], rgb[out+0],
\* rgb[out+3] and rgb[out+2]: the bytes 1 and 0 of the pixel of y0, then those
\* of the pixel of y1.
Store ==
  LET luma == in + 2 * (sub \div 2)
      half == 1 - (sub % 2)
  IN  /\ conv = "convert" /\ in < Size /\ sub < 4
      /\ rgb' = [rgb EXCEPT ![out + 2 * (sub \div 2) + half] =
                   [seq |-> frame, at |-> 2 * (luma \div 2) + half]]
      /\ sub' = sub + 1
      /\ UNCHANGED <<pic, tables, frame, conv, in, out, mq, lcdVars>>

\* Mutant: the picture is taken for one of three bytes a pixel.
NextGroupRGB888 ==
  /\ conv = "convert" /\ sub = 4
  /\ in' = in + 4 /\ out' = out + 6 /\ sub' = 0
  /\ UNCHANGED <<pic, tables, frame, conv, rgb, mq, lcdVars>>

NextGroup ==
  /\ conv = "convert" /\ sub = 4
  /\ in' = in + 4 /\ out' = out + 4 /\ sub' = 0
  /\ UNCHANGED <<pic, tables, frame, conv, rgb, mq, lcdVars>>

Converted ==
  /\ conv = "convert" /\ sub = 0 /\ in >= Size
  /\ conv' = "send"
  /\ UNCHANGED <<pic, tables, frame, in, out, sub, rgb, mq, lcdVars>>

\* sendMsgQueue; the converter gives the buffer back and waits again.
Send ==
  /\ conv = "send" /\ Len(mq) < QMax
  /\ conv' = "wait"
  /\ mq' = Append(mq, frame)
  /\ UNCHANGED <<pic, tables, frame, in, out, sub, rgb, lcdVars>>

SendFails ==
  /\ conv = "send"
  /\ conv' = "wait"
  /\ UNCHANGED <<pic, tables, frame, in, out, sub, rgb, mq, lcdVars>>

-----------------------------------------------------------------------------
(* The display.                                                            *)

\* drm_init has made, mapped and cleared a frame buffer; DrmSetup has how.
DrmInit(s) ==
  /\ lcd = "off" /\ conv # "init"
  /\ lcd' = "ready"
  /\ scr' = s
  /\ fb' = [k \in 0 .. s.size \div s.n - 1 |-> Black]
  /\ UNCHANGED <<pic, convVars, mq, i, j, z, msg>>

DrmThread ==
  /\ lcd = "ready"
  /\ lcd' = "recv"
  /\ UNCHANGED <<pic, convVars, mq, scr, fb, i, j, z, msg>>

\* recvMsgQueue; lcd_show_camear begins.
Receive ==
  /\ lcd = "recv" /\ mq # <<>>
  /\ msg' = Head(mq) /\ mq' = Tail(mq)
  /\ lcd' = "copy" /\ StartCopy
  /\ UNCHANGED <<pic, convVars, scr, fb>>

\* p[k] of lcd_show_camear: 16 bits of the picture, read at once.
Pixels == [k \in 0 .. pic.width * pic.height - 1 |-> <<rgb[2 * k], rgb[2 * k + 1]>>]

CopyPixel ==
  /\ lcd = "copy"
  /\ CamearPixel(Pixels, pic.width, pic.height)
  /\ UNCHANGED <<pic, convVars, mq, scr, lcd, msg>>

CopyLine ==
  /\ lcd = "copy"
  /\ NextLine
  /\ UNCHANGED <<pic, convVars, mq, scr, lcd, msg>>

CopyDone ==
  /\ lcd = "copy" /\ CopyEnds
  /\ lcd' = "recv"
  /\ UNCHANGED <<pic, convVars, mq, scr, fb, i, j, z, msg>>

-----------------------------------------------------------------------------

Converter ==
  \/ TableInit \/ BeginConversion \/ Store \/ NextGroup \/ Converted
  \/ Send \/ SendFails

Display ==
  \/ \E s \in Screens : DrmInit(s)
  \/ DrmThread \/ Receive \/ CopyPixel \/ CopyLine \/ CopyDone

Next == Converter \/ Display

Spec == Init /\ [][Next]_vars

-----------------------------------------------------------------------------
(* Properties.                                                             *)

ByteOf == [seq : 0 .. MaxFrame, at : Nat]

\* The type invariant; that every index is inside its array is a claim about
\* the loops.
PictureTypeOK ==
  /\ pic \in Pictures
  /\ tables \in {ZeroTables, Tables}
  /\ frame \in 0 .. MaxFrame
  /\ conv \in {"init", "wait", "convert", "send"}
  /\ in \in Nat /\ out \in Nat /\ sub \in 0 .. 4
  /\ conv = "convert" /\ in < Size => in + 3 \in Bytes /\ out + 3 \in Bytes
  /\ rgb \in [Bytes -> ByteOf]
  /\ mq \in Seq(1 .. MaxFrame)
  /\ lcd \in {"off", "ready", "recv", "copy"}
  /\ msg \in 0 .. MaxFrame
  /\ scr \in Screens \cup {NoScreen}
  /\ lcd # "off" => scr \in Screens /\ fb \in [Elem -> ByteOf \X ByteOf]
  /\ i \in 0 .. scr.height /\ j \in 0 .. scr.width /\ z \in Nat
  /\ lcd = "copy" /\ i < scr.height /\ j < scr.width /\ Inside(pic.width, pic.height) =>
       /\ z \in Elem
       /\ pic.width * i + j \in 0 .. pic.width * pic.height - 1

\* The byte of frame f that belongs at place b of a picture.
Cell(f, b) == [seq |-> f, at |-> b]

\* When a converter announces its picture, every byte of it is made from this
\* frame and from the pixel it belongs to: convert_yuv_to_rgb565_buffer leaves
\* none out and puts none in another's place.
AnnouncedWhole ==
  conv = "send" => \A b \in Bytes : rgb[b] = Cell(frame, b)

\* Row r and column c of the screen show something of the picture.
Visible(r, c) ==
  /\ r \in 0 .. scr.height - 1 /\ c \in 0 .. scr.width - 1
  /\ r < pic.height /\ c < pic.width

\* The two bytes of an element are those of row r and column c of the picture,
\* perhaps of two frames.
IsPixel(e, r, c) ==
  LET px == pic.width * r + c
  IN  e[1].at = 2 * px /\ e[2].at = 2 * px + 1 /\ e[1].seq > 0 /\ e[2].seq > 0

Rows == 0 .. scr.height - 1
Columns == 0 .. scr.width - 1

\* lcd_show_camear puts each pixel where the display controller looks for it,
\* for a picture larger or smaller than the screen and for padded lines, and
\* it leaves the rest of the frame buffer as it was cleared.
PixelsInPlace ==
  lcd # "off" =>
    /\ \A r \in Rows, c \in Columns :
         Visible(r, c) =>
           LET e == fb[ScanPos(r, c)] IN e = Black \/ IsPixel(e, r, c)
    /\ \A k \in Elem :
         fb[k] # Black =>
           \E r \in Rows, c \in Columns : Visible(r, c) /\ k = ScanPos(r, c)

\* No byte the copy has written is older than the frame it was told to show,
\* and at its end it has written every visible pixel: although the converter
\* may be rewriting the picture at the same time, a pixel may only be newer,
\* or half of it may.
PixelsNotOlder ==
  lcd \in {"recv", "copy"} /\ msg > 0 =>
    \A r \in Rows, c \in Columns :
      Visible(r, c) /\ (lcd = "recv" \/ Passed(r, c)) =>
        LET e == fb[ScanPos(r, c)] IN e[1].seq >= msg /\ e[2].seq >= msg

\* The exact statement of what the screen shows between two copies: if no later
\* frame of this buffer was begun since the one announced, every visible pixel
\* is that of the announced frame, both bytes of it.  The program tears a picture
\* in no other way than by capturing into its buffer too early.
ShownWholeUnlessOvertaken ==
  lcd = "recv" /\ msg > 0 /\ frame = msg =>
    \A r \in Rows, c \in Columns :
      Visible(r, c) =>
        LET px == pic.width * r + c
        IN  fb[ScanPos(r, c)] = <<Cell(msg, 2 * px), Cell(msg, 2 * px + 1)>>

\* With one buffer alone the screen never goes back: whatever converter and copy
\* do at the same time, a byte of the frame buffer is only replaced by one of the
\* same or a later frame.
ScreenOnlyNewer ==
  [][ lcd # "off" =>
        \A k \in Elem : fb'[k][1].seq >= fb[k][1].seq /\ fb'[k][2].seq >= fb[k][2].seq ]_vars

\* From a triple to the two bytes of its pixel by tables t: the sums fit an
\* int and are those of convert_yuv_to_rgb_pixel, the colour is within 1 of the
\* formula in exact arithmetic, and the bytes are the upper 5, 6 and 5 bits of
\* the three colours with the lower byte first.
ColourRight(t, y, u, v) ==
  LET s == TableSum(t, y, u, v)
      p == Pixel(s)
      e == ExactPixel(y, u, v)
  IN  /\ s = DirectSum(y, u, v)
      /\ FitsInt(s.r) /\ FitsInt(s.g) /\ FitsInt(s.b)
      /\ Near(p.r, e.r) /\ Near(p.g, e.g) /\ Near(p.b, e.b)
      /\ LowByte(p) + 256 * HighByte(p) = RGB565(p)

\* Whatever step fills in the tables, conversion with them gives the colours
\* above; and no byte is converted before.
ColoursRight ==
  [][ /\ tables' # tables => \A y, u, v \in Samples : ColourRight(tables', y, u, v)
      /\ rgb' # rgb => tables # ZeroTables ]_vars

-----------------------------------------------------------------------------
(* The inductive invariant: how far each loop is, and what that says of the *)
(* picture, of the messages about it and of the screen.                     *)

\* What byte b of the picture holds after f frames.
Made(f, b) == IF f = 0 THEN Nothing ELSE Cell(f, b)

\* The converter has written byte b in this conversion; its rounds write the
\* bytes 1, 0, 3 and 2.
Written(b) ==
  \/ b < out
  \/ sub >= 1 /\ b = out + 1
  \/ sub >= 2 /\ b = out
  \/ sub >= 3 /\ b = out + 3
  \/ sub >= 4 /\ b = out + 2

Conversion ==
  /\ conv = "init" => frame = 0 /\ lcd = "off" /\ tables = ZeroTables
  /\ conv # "init" => tables = Tables
  /\ conv \in {"convert", "send"} => frame > 0
  /\ conv = "convert" =>
       /\ in = out /\ in % 4 = 0 /\ in <= Size
       /\ sub > 0 => in < Size
       /\ \A b \in Bytes :
            rgb[b] = IF Written(b) THEN Cell(frame, b) ELSE Made(frame - 1, b)
  /\ conv # "convert" => \A b \in Bytes : rgb[b] = Made(frame, b)

\* Every byte of the picture is at least from this frame.
AtLeast == IF conv = "convert" THEN frame - 1 ELSE frame

\* Only a complete picture is announced, and pictures only become newer.
Messages ==
  /\ \A x \in 1 .. Len(mq) : mq[x] > 0 /\ mq[x] <= AtLeast
  /\ msg <= AtLeast
  /\ lcd = "copy" => msg > 0
  /\ lcd \in {"off", "ready"} => msg = 0 /\ i = 0 /\ j = 0

\* z is where the pixel of row i and column j goes, for as long as there is one.
Place ==
  lcd = "copy" =>
    /\ i = scr.height => j = 0
    /\ i < pic.height /\ j <= pic.width => z = Stride * i + j

\* No byte on the screen is newer than the byte of the picture it is a copy of.
NotAhead ==
  lcd # "off" =>
    \A r \in Rows, c \in Columns :
      Visible(r, c) =>
        LET e == fb[ScanPos(r, c)]
            px == pic.width * r + c
        IN  e[1].seq <= rgb[2 * px].seq /\ e[2].seq <= rgb[2 * px + 1].seq

PictureInv ==
  /\ PictureTypeOK
  /\ Conversion
  /\ Messages
  /\ Place
  /\ PixelsInPlace
  /\ PixelsNotOlder
  /\ NotAhead

=============================================================================
