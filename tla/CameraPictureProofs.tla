-------------------------- MODULE CameraPictureProofs -------------------------
(***************************************************************************)
(* CameraPicture for any pictures and screens, any number of frames and any *)
(* queue.  The argument is PictureInv: how far the loops of the converter   *)
(* and of the copy are, and what the picture and the screen hold by then.   *)
(***************************************************************************)
EXTENDS CameraPicture, CopyLemmas, SequenceTheorems

\* The bytes of a picture come in rounds of four.
LEMMA SizeFacts ==
  ASSUME PictureTypeOK
  PROVE  /\ pic.width \in Nat /\ pic.height \in Nat
         /\ Size \in Nat /\ Size % 4 = 0
         /\ Size = 2 * (pic.width * pic.height)
         /\ Bytes = 0 .. Size - 1
<1>1. IsPicture(pic)
  BY PictureAssumption DEF PictureTypeOK
<1> DEFINE n == pic.width * pic.height
<1>2. pic.width \in Nat /\ pic.height \in Nat /\ n % 2 = 0
  BY <1>1 DEF IsPicture
<1>3. n \in Nat
  BY <1>2
<1>4. Bytes = 0 .. Size - 1 /\ Size = n * 2
  BY DEF Bytes, Size
<1> HIDE DEF n
<1>5. n * 2 = 2 * n /\ n * 2 \in Nat /\ (n * 2) % 4 = 0
  BY <1>2, <1>3
<1>6. QED
  BY <1>2, <1>4, <1>5 DEF n

\* The frame buffer the display has was described by one of Screens.
LEMMA ScreenFacts ==
  ASSUME PictureTypeOK, lcd # "off"
  PROVE  IsScreen(scr) /\ scr.n = 2
  BY PictureAssumption DEF PictureTypeOK

\* Every byte is from frame AtLeast or a later one, and then in its place.
LEMMA ByteFacts ==
  ASSUME PictureInv, NEW b \in Bytes
  PROVE  /\ rgb[b].seq >= AtLeast
         /\ AtLeast > 0 => rgb[b].at = b
<1>1. frame \in Nat
  BY PictureAssumption DEF PictureInv, PictureTypeOK
<1>2. CASE conv = "convert"
  <2>1. frame > 0 /\ rgb[b] = IF Written(b) THEN Cell(frame, b) ELSE Made(frame - 1, b)
    BY <1>2 DEF PictureInv, Conversion
  <2>2. QED
    BY <1>1, <1>2, <2>1 DEF AtLeast, Cell, Made, Nothing
<1>3. CASE conv # "convert"
  <2>1. rgb[b] = Made(frame, b)
    BY <1>3 DEF PictureInv, Conversion
  <2>2. QED
    BY <1>1, <1>3, <2>1 DEF AtLeast, Cell, Made, Nothing
<1>4. QED
  BY <1>2, <1>3

\* A pixel the display reads while it copies is in its place and not older
\* than its message.
LEMMA PixelFacts ==
  ASSUME PictureInv, lcd = "copy", NEW r \in Nat, NEW c \in Nat,
         r < pic.height, c < pic.width
  PROVE  LET x == pic.width * r + c
         IN  /\ x \in 0 .. pic.width * pic.height - 1
             /\ 2 * x \in Bytes /\ 2 * x + 1 \in Bytes
             /\ Pixels[x] = <<rgb[2 * x], rgb[2 * x + 1]>>
             /\ IsPixel(Pixels[x], r, c)
             /\ Pixels[x][1].seq >= msg /\ Pixels[x][2].seq >= msg
<1> DEFINE x == pic.width * r + c
           n == pic.width * pic.height
<1>1. PictureTypeOK
  BY DEF PictureInv
<1>2. /\ pic.width \in Nat /\ pic.height \in Nat
      /\ Size = 2 * n /\ Bytes = 0 .. Size - 1
  BY <1>1, SizeFacts
<1>3. x \in Nat /\ x < n
  BY <1>2, RowBounds
<1>4. n \in Nat
  BY <1>2
<1> HIDE DEF x, n
<1>5. x \in 0 .. n - 1 /\ 2 * x \in Bytes /\ 2 * x + 1 \in Bytes
  BY <1>2, <1>3, <1>4
<1>6. Pixels[x] = <<rgb[2 * x], rgb[2 * x + 1]>>
  BY <1>5 DEF Pixels, n
<1>7. msg > 0 /\ msg <= AtLeast /\ msg \in Nat /\ frame \in Nat
  BY PictureAssumption DEF PictureInv, Messages, PictureTypeOK
<1>8. AtLeast \in Int /\ AtLeast > 0
  BY <1>7 DEF AtLeast
<1>9. /\ rgb[2 * x].seq >= AtLeast /\ rgb[2 * x].at = 2 * x
      /\ rgb[2 * x + 1].seq >= AtLeast /\ rgb[2 * x + 1].at = 2 * x + 1
  BY <1>5, <1>8, ByteFacts
<1>10. rgb[2 * x].seq \in Int /\ rgb[2 * x + 1].seq \in Int
  <2>1. rgb[2 * x] \in ByteOf /\ rgb[2 * x + 1] \in ByteOf
    <3>1. rgb \in [Bytes -> ByteOf]
      BY <1>1 DEF PictureTypeOK
    <3>2. QED
      BY <1>5, <3>1
  <2>2. QED
    BY <2>1 DEF ByteOf
<1>11. /\ rgb[2 * x].seq >= msg /\ rgb[2 * x].seq > 0
       /\ rgb[2 * x + 1].seq >= msg /\ rgb[2 * x + 1].seq > 0
  BY <1>7, <1>8, <1>9, <1>10
<1>12. IsPixel(Pixels[x], r, c)
  BY <1>6, <1>9, <1>11 DEF IsPixel, x
<1>13. QED
  BY <1>5, <1>6, <1>11, <1>12 DEF x, n

-----------------------------------------------------------------------------
(* The steps, one lemma per part of PictureInv.                            *)

\* No action changes the size of the picture.
LEMMA PicKept == [Next]_vars => pic' = pic /\ Bytes' = Bytes /\ Size' = Size
<1>1. [Next]_vars => pic' = pic
  BY DEF Next, Converter, Display, TableInit, BeginConversion, Store, NextGroup,
     Converted, Send, SendFails, DrmInit, DrmThread, Receive, CopyPixel, CopyLine,
     CopyDone, vars
<1>2. QED
  BY <1>1 DEF Bytes, Size

\* The types of the converter's variables, with the bounds of its indices.
ConvTypeOK ==
  /\ tables \in {ZeroTables, Tables}
  /\ frame \in 0 .. MaxFrame
  /\ conv \in {"init", "wait", "convert", "send"}
  /\ in \in Nat /\ out \in Nat /\ sub \in 0 .. 4
  /\ conv = "convert" /\ in < Size => in + 3 \in Bytes /\ out + 3 \in Bytes
  /\ rgb \in [Bytes -> ByteOf]

\* The types of the display's variables, with the bounds of its indices.
LcdTypeOK ==
  /\ lcd \in {"off", "ready", "recv", "copy"}
  /\ msg \in 0 .. MaxFrame
  /\ scr \in Screens \cup {NoScreen}
  /\ lcd # "off" => scr \in Screens /\ fb \in [Elem -> ByteOf \X ByteOf]
  /\ i \in 0 .. scr.height /\ j \in 0 .. scr.width /\ z \in Nat

\* The converter's steps keep the types of its variables: a round that begins
\* below Size has four bytes in front of it.
LEMMA ConvTypeStep == PictureInv /\ Converter => ConvTypeOK'
<1> SUFFICES ASSUME PictureInv, Converter PROVE ConvTypeOK'
  OBVIOUS
<1>1. PictureTypeOK /\ Conversion
  BY DEF PictureInv
<1>2. MaxFrame \in Nat
  BY PictureAssumption
<1>3. Bytes' = Bytes /\ Size' = Size
  BY PicKept DEF Next
<1>4. Size \in Nat /\ Size % 4 = 0 /\ Bytes = 0 .. Size - 1
  BY <1>1, SizeFacts
<1>5. ConvTypeOK
  BY <1>1 DEF PictureTypeOK, ConvTypeOK
<1>6. conv = "convert" => in = out /\ in % 4 = 0
  BY <1>1 DEF Conversion
<1>7. ASSUME NEW x \in Nat, x % 4 = 0, x < Size
      PROVE  x + 3 \in Bytes
  BY <1>4, <1>7
<1> USE DEF ConvTypeOK
<1>8. CASE TableInit
  BY <1>3, <1>5, <1>8 DEF TableInit
<1>9. CASE BeginConversion
  <2>1. frame + 1 \in 0 .. MaxFrame
    BY <1>2, <1>5, <1>9 DEF BeginConversion
  <2>2. 0 < Size => 0 + 3 \in Bytes
    BY <1>7
  <2>3. QED
    BY <1>3, <1>5, <1>9, <2>1, <2>2 DEF BeginConversion
<1>10. CASE Store
  <2> DEFINE luma == in + 2 * (sub \div 2)
             half == 1 - (sub % 2)
             cell == [seq |-> frame, at |-> 2 * (luma \div 2) + half]
  <2>1. sub \in 0 .. 3 /\ in \in Nat
    BY <1>5, <1>10 DEF Store
  <2>2. half \in {0, 1} /\ luma \in Nat
    BY <2>1
  <2>3. 2 * (luma \div 2) + half \in Nat
    BY <2>2
  <2>4. cell \in ByteOf
    BY <1>5, <2>3 DEF ByteOf
  <2>5. \E b : rgb' = [rgb EXCEPT ![b] = cell]
    BY <1>10 DEF Store
  <2> HIDE DEF luma, half, cell
  <2>6. rgb' \in [Bytes -> ByteOf]
    BY <1>5, <2>4, <2>5
  <2>7. sub' \in 0 .. 4
    BY <1>10, <2>1 DEF Store
  <2>8. UNCHANGED <<tables, frame, conv, in, out>>
    BY <1>10 DEF Store
  <2>9. QED
    BY <1>3, <1>5, <2>6, <2>7, <2>8
<1>11. CASE NextGroup
  <2>1. in' = in + 4 /\ out' = in + 4 /\ (in + 4) % 4 = 0 /\ in + 4 \in Nat
    BY <1>5, <1>6, <1>11 DEF NextGroup
  <2>2. in' < Size => in' + 3 \in Bytes /\ out' + 3 \in Bytes
    BY <1>7, <2>1
  <2>3. sub' = 0 /\ UNCHANGED <<tables, frame, conv, rgb>>
    BY <1>11 DEF NextGroup
  <2>4. QED
    BY <1>3, <1>5, <2>1, <2>2, <2>3
<1>12. CASE Converted \/ Send \/ SendFails
  BY <1>3, <1>5, <1>12 DEF Converted, Send, SendFails
<1>13. QED
  BY <1>8, <1>9, <1>10, <1>11, <1>12 DEF Converter

\* The display's steps keep the types of its variables.
LEMMA LcdTypeStep == PictureInv /\ Display => LcdTypeOK'
<1> SUFFICES ASSUME PictureInv, Display PROVE LcdTypeOK'
  OBVIOUS
<1>1. PictureTypeOK
  BY DEF PictureInv
<1>2. LcdTypeOK
  BY <1>1 DEF PictureTypeOK, LcdTypeOK
<1>3. lcd # "off" => Stride \in Nat /\ scr.width \in Nat /\ scr.height \in Nat
  BY <1>1, ScreenFacts, StrideFacts
<1>4. rgb \in [Bytes -> ByteOf]
  BY <1>1 DEF PictureTypeOK
<1> USE DEF LcdTypeOK
<1>5. ASSUME NEW s \in Screens, DrmInit(s) PROVE LcdTypeOK'
  <2>1. IsScreen(s) /\ scr' = s /\ fb' = [e \in Elem' |-> Black]
    BY <1>5, PictureAssumption DEF DrmInit, Elem
  <2>2. Black \in ByteOf \X ByteOf
    BY PictureAssumption DEF Black, Nothing, ByteOf
  <2>3. s.width \in Nat /\ s.height \in Nat
    BY <2>1 DEF IsScreen
  <2>4. i = 0 /\ j = 0
    BY <1>1, <1>5 DEF PictureInv, Messages, DrmInit
  <2>5. QED
    BY <1>2, <1>5, <2>1, <2>2, <2>3, <2>4 DEF DrmInit
<1>6. CASE DrmThread
  BY <1>2, <1>6 DEF DrmThread, Elem
<1>7. CASE Receive
  <2>1. msg' \in 0 .. MaxFrame
    <3>1. mq \in Seq(1 .. MaxFrame) /\ mq # <<>> /\ msg' = Head(mq)
      BY <1>1, <1>7 DEF Receive, PictureTypeOK
    <3>2. Head(mq) \in 1 .. MaxFrame
      BY <3>1, HeadTailProperties
    <3>3. QED
      BY <3>1, <3>2, PictureAssumption
  <2>2. i' = 0 /\ j' = 0 /\ z' = 0 /\ UNCHANGED <<scr, fb>> /\ lcd = "recv" /\ lcd' = "copy"
    BY <1>7 DEF Receive, StartCopy
  <2>3. fb \in [Elem -> ByteOf \X ByteOf] /\ scr \in Screens /\ Elem' = Elem
    BY <1>2, <2>2 DEF Elem
  <2>4. 0 \in 0 .. scr.height /\ 0 \in 0 .. scr.width
    BY <1>3, <2>2
  <2>5. QED
    BY <2>1, <2>2, <2>3, <2>4
<1>8. CASE CopyPixel
  <2>1. lcd = "copy" /\ UNCHANGED <<scr, lcd, msg>> /\ i' = i /\ j' = j + 1 /\ j < scr.width
        /\ i < scr.height
    BY <1>8 DEF CopyPixel, CamearPixel
  <2>2. CASE Inside(pic.width, pic.height)
    <3> DEFINE x == pic.width * i + j
    <3>1. z' = z + 1 /\ fb' = [fb EXCEPT ![z] = Pixels[x]]
      BY <1>8, <2>1, <2>2 DEF CopyPixel, CamearPixel
    <3>2. i \in Nat /\ j \in Nat /\ i < pic.height /\ j < pic.width
      BY <1>2, <1>3, <2>1, <2>2 DEF Inside
    <3>3. Pixels[x] = <<rgb[2 * x], rgb[2 * x + 1]>> /\ 2 * x \in Bytes /\ 2 * x + 1 \in Bytes
      BY <2>1, <3>2, PixelFacts
    <3> HIDE DEF x
    <3>4. Pixels[x] \in ByteOf \X ByteOf
      BY <1>4, <3>3
    <3>5. fb' \in [Elem -> ByteOf \X ByteOf]
      BY <1>2, <2>1, <3>1, <3>4
    <3>6. QED
      BY <1>2, <1>3, <2>1, <3>1, <3>5 DEF Elem
  <2>3. CASE ~ Inside(pic.width, pic.height)
    <3>1. UNCHANGED <<fb, z>>
      BY <1>8, <2>1, <2>3 DEF CopyPixel, CamearPixel
    <3>2. QED
      BY <1>2, <1>3, <2>1, <3>1 DEF Elem
  <2>4. QED
    BY <2>2, <2>3
<1>9. CASE CopyLine
  <2>1. lcd = "copy" /\ UNCHANGED <<scr, fb, lcd, msg>> /\ i' = i + 1 /\ j' = 0
        /\ z' = Stride * (i + 1) /\ i < scr.height
    BY <1>9 DEF CopyLine, NextLine
  <2>2. i + 1 \in Nat /\ Stride * (i + 1) \in Nat
    BY <1>2, <1>3, <2>1
  <2>3. QED
    BY <1>2, <1>3, <2>1, <2>2 DEF Elem
<1>10. CASE CopyDone
  BY <1>2, <1>10 DEF CopyDone, Elem
<1>11. QED
  BY <1>5, <1>6, <1>7, <1>8, <1>9, <1>10 DEF Display

\* The converter's steps keep what is known of the picture: each of the four
\* stores of a round writes a byte of the pixel it is for.
LEMMA ConversionStep == PictureInv /\ Converter => Conversion'
<1> SUFFICES ASSUME PictureInv, Converter PROVE Conversion'
  OBVIOUS
<1>1. PictureTypeOK /\ Conversion
  BY DEF PictureInv
<1>2. MaxFrame \in Nat /\ frame \in Nat /\ in \in Nat /\ out \in Nat /\ sub \in 0 .. 4
  BY <1>1, PictureAssumption DEF PictureTypeOK
<1>3. Bytes' = Bytes /\ Size' = Size
  BY PicKept DEF Next
<1>4. Size \in Nat /\ Size % 4 = 0 /\ Bytes = 0 .. Size - 1
  BY <1>1, SizeFacts
<1>5. rgb \in [Bytes -> ByteOf]
  BY <1>1 DEF PictureTypeOK
<1>6. UNCHANGED lcdVars
  BY DEF Converter, TableInit, BeginConversion, Store, NextGroup, Converted, Send,
     SendFails
<1>7. CASE TableInit
  BY <1>1, <1>3, <1>6, <1>7 DEF TableInit, Conversion, Made
<1>8. CASE BeginConversion
  <2>1. /\ conv = "wait" /\ conv' = "convert" /\ frame' = frame + 1 /\ in' = 0 /\ out' = 0
        /\ sub' = 0 /\ UNCHANGED <<rgb, tables>>
    BY <1>8 DEF BeginConversion
  <2>2. \A b \in Bytes : ~ Written(b)'
    BY <1>4, <2>1 DEF Written
  <2>3. \A b \in Bytes : rgb'[b] = Made(frame' - 1, b)
    BY <1>1, <1>2, <2>1 DEF Conversion
  <2>4. 0 % 4 = 0 /\ 0 <= Size /\ frame' > 0
    BY <1>2, <1>4, <2>1
  <2>5. tables' = Tables
    BY <1>1, <2>1 DEF Conversion
  <2>6. QED
    BY <1>3, <2>1, <2>2, <2>3, <2>4, <2>5 DEF Conversion
<1>9. CASE Store
  <2> DEFINE luma == in + 2 * (sub \div 2)
             half == 1 - (sub % 2)
             here == out + 2 * (sub \div 2) + half
  <2>1. /\ conv = "convert" /\ in < Size /\ sub < 4 /\ sub' = sub + 1
        /\ rgb' = [rgb EXCEPT ![here] = [seq |-> frame, at |-> 2 * (luma \div 2) + half]]
        /\ UNCHANGED <<tables, frame, conv, in, out>>
    BY <1>9 DEF Store
  <2>2. in = out /\ in % 4 = 0 /\ frame > 0
    BY <1>1, <2>1 DEF Conversion
  <2>3. sub \in 0 .. 3
    BY <1>2, <2>1
  <2>4. PICK q \in Nat : in = 4 * q
    <3>1. in \div 4 \in Nat /\ in = 4 * (in \div 4)
      BY <1>2, <2>2
    <3>2. QED
      BY <3>1
  <2>5. 2 * (luma \div 2) + half = here
    <3>1. CASE sub = 0
      BY <2>2, <2>4, <3>1
    <3>2. CASE sub = 1
      BY <2>2, <2>4, <3>2
    <3>3. CASE sub = 2
      BY <2>2, <2>4, <3>3
    <3>4. CASE sub = 3
      BY <2>2, <2>4, <3>4
    <3>5. QED
      BY <2>3, <3>1, <3>2, <3>3, <3>4
  <2>6. \A b \in Bytes : Written(b)' <=> Written(b) \/ b = here
    <3>1. CASE sub = 0
      BY <1>2, <2>1, <3>1 DEF Written
    <3>2. CASE sub = 1
      BY <1>2, <2>1, <3>2 DEF Written
    <3>3. CASE sub = 2
      BY <1>2, <2>1, <3>3 DEF Written
    <3>4. CASE sub = 3
      BY <1>2, <2>1, <3>4 DEF Written
    <3>5. QED
      BY <2>3, <3>1, <3>2, <3>3, <3>4
  <2> HIDE DEF luma, half, here
  <2>7. rgb' = [rgb EXCEPT ![here] = Cell(frame, here)]
    BY <2>1, <2>5 DEF Cell
  <2>8. \A b \in Bytes :
          rgb'[b] = IF Written(b)' THEN Cell(frame, b) ELSE Made(frame - 1, b)
    <3>1. \A b \in Bytes :
            rgb[b] = IF Written(b) THEN Cell(frame, b) ELSE Made(frame - 1, b)
      BY <1>1, <2>1 DEF Conversion
    <3>2. \A b \in Bytes : rgb'[b] = IF b = here THEN Cell(frame, here) ELSE rgb[b]
      BY <1>5, <2>7
    <3>3. QED
      BY <2>6, <3>1, <3>2
  <2>9. tables = Tables /\ in <= Size
    BY <1>1, <2>1 DEF Conversion
  <2>10. QED
    BY <1>3, <2>1, <2>2, <2>8, <2>9 DEF Conversion, Made, Cell
<1>10. CASE NextGroup
  <2>1. /\ conv = "convert" /\ sub = 4 /\ in' = in + 4 /\ out' = out + 4 /\ sub' = 0
        /\ UNCHANGED <<tables, frame, conv, rgb>>
    BY <1>10 DEF NextGroup
  <2>2. in = out /\ in % 4 = 0 /\ in < Size /\ frame > 0 /\ tables = Tables
    BY <1>1, <2>1 DEF Conversion
  <2>3. (in + 4) % 4 = 0 /\ in + 4 <= Size
    BY <1>2, <1>4, <2>2
  <2>4. \A b \in Bytes : Written(b)' <=> Written(b)
    BY <1>2, <1>4, <2>1 DEF Written
  <2>5. \A b \in Bytes :
          rgb[b] = IF Written(b) THEN Cell(frame, b) ELSE Made(frame - 1, b)
    BY <1>1, <2>1 DEF Conversion
  <2>6. QED
    BY <1>3, <2>1, <2>2, <2>3, <2>4, <2>5 DEF Conversion, Made, Cell
<1>11. CASE Converted
  <2>1. /\ conv = "convert" /\ sub = 0 /\ in >= Size /\ conv' = "send"
        /\ UNCHANGED <<tables, frame, rgb>>
    BY <1>11 DEF Converted
  <2>2. in = out /\ in <= Size /\ frame > 0 /\ tables = Tables
    BY <1>1, <2>1 DEF Conversion
  <2>3. \A b \in Bytes : Written(b)
    BY <1>2, <1>4, <2>1, <2>2 DEF Written
  <2>4. \A b \in Bytes : rgb[b] = Cell(frame, b)
    BY <1>1, <2>1, <2>3 DEF Conversion
  <2>5. QED
    BY <1>2, <1>3, <2>1, <2>2, <2>4 DEF Conversion, Made
<1>12. CASE Send \/ SendFails
  <2>1. conv = "send" /\ conv' = "wait" /\ UNCHANGED <<tables, frame, rgb>>
    BY <1>12 DEF Send, SendFails
  <2>2. QED
    BY <1>1, <1>3, <2>1 DEF Conversion, Made
<1>13. QED
  BY <1>7, <1>8, <1>9, <1>10, <1>11, <1>12 DEF Converter

\* Only announcements of complete pictures enter the queue.
LEMMA MessagesStep == PictureInv /\ [Next]_vars => Messages' /\ mq' \in Seq(1 .. MaxFrame)
<1> SUFFICES ASSUME PictureInv, [Next]_vars
             PROVE  Messages' /\ mq' \in Seq(1 .. MaxFrame)
  OBVIOUS
<1>1. /\ MaxFrame \in Nat /\ frame \in 0 .. MaxFrame /\ msg \in 0 .. MaxFrame
      /\ mq \in Seq(1 .. MaxFrame)
      /\ conv \in {"init", "wait", "convert", "send"}
  BY PictureAssumption DEF PictureInv, PictureTypeOK
<1>2. Messages /\ (conv = "send" => frame > 0)
  BY DEF PictureInv, Conversion
<1>3. AtLeast \in Int /\ AtLeast <= frame
  BY <1>1 DEF AtLeast
<1>4. \A x \in 1 .. Len(mq) : mq[x] \in 1 .. MaxFrame
  BY <1>1, ElementOfSeq
<1>5. ASSUME UNCHANGED <<mq, msg, lcd, i, j>>, AtLeast' \in Int, AtLeast <= AtLeast'
      PROVE  Messages' /\ mq' \in Seq(1 .. MaxFrame)
  BY <1>1, <1>2, <1>3, <1>4, <1>5 DEF Messages
<1>6. CASE UNCHANGED vars
  BY <1>3, <1>5, <1>6 DEF vars, convVars, lcdVars, AtLeast
<1>7. CASE TableInit \/ BeginConversion \/ Store \/ NextGroup \/ Converted \/ SendFails
  <2>1. UNCHANGED <<mq, msg, lcd, i, j>>
    BY <1>7 DEF TableInit, BeginConversion, Store, NextGroup, Converted, SendFails, lcdVars
  <2>2. AtLeast' \in Int /\ AtLeast <= AtLeast'
    BY <1>1, <1>7 DEF TableInit, BeginConversion, Store, NextGroup, Converted,
       SendFails, AtLeast
  <2>3. QED
    BY <1>5, <2>1, <2>2
<1>8. CASE Send
  <2>1. /\ conv = "send" /\ conv' = "wait" /\ mq' = Append(mq, frame)
        /\ UNCHANGED <<frame, msg, lcd, i, j>>
    BY <1>8 DEF Send, lcdVars
  <2>2. AtLeast = frame /\ AtLeast' = frame /\ frame \in 1 .. MaxFrame
    BY <1>1, <1>2, <2>1 DEF AtLeast
  <2>3. /\ mq' \in Seq(1 .. MaxFrame) /\ Len(mq') = Len(mq) + 1 /\ Len(mq) \in Nat
        /\ \A x \in 1 .. Len(mq) : mq'[x] = mq[x]
        /\ mq'[Len(mq) + 1] = frame
    BY <1>1, <2>1, <2>2
  <2>4. \A x \in 1 .. Len(mq') : mq'[x] > 0 /\ mq'[x] <= frame
    BY <1>2, <1>4, <2>2, <2>3 DEF Messages
  <2>5. QED
    BY <1>2, <2>1, <2>2, <2>3, <2>4 DEF Messages
<1>9. ASSUME NEW s \in Screens, DrmInit(s)
      PROVE  Messages' /\ mq' \in Seq(1 .. MaxFrame)
  BY <1>1, <1>2, <1>9 DEF DrmInit, Messages, convVars, AtLeast
<1>10. CASE DrmThread
  BY <1>1, <1>2, <1>10 DEF DrmThread, Messages, convVars, AtLeast
<1>11. CASE Receive
  <2>1. /\ mq # <<>> /\ msg' = Head(mq) /\ mq' = Tail(mq) /\ lcd' = "copy" /\ AtLeast' = AtLeast
    BY <1>11 DEF Receive, convVars, AtLeast
  <2>2. Head(mq) = mq[1] /\ 1 \in 1 .. Len(mq)
    BY <1>1, <2>1
  <2>3. /\ Tail(mq) \in Seq(1 .. MaxFrame) /\ Len(Tail(mq)) = Len(mq) - 1
        /\ \A x \in 1 .. Len(Tail(mq)) : Tail(mq)[x] = mq[x + 1] /\ x + 1 \in 1 .. Len(mq)
    BY <1>1, <2>1
  <2>4. QED
    BY <1>2, <2>1, <2>2, <2>3 DEF Messages
<1>12. CASE CopyPixel \/ CopyLine
  <2>1. lcd = "copy" /\ UNCHANGED <<mq, msg, lcd, frame, conv>>
    BY <1>12 DEF CopyPixel, CopyLine, convVars
  <2>2. QED
    BY <1>1, <1>2, <2>1 DEF Messages, AtLeast
<1>13. CASE CopyDone
  <2>1. lcd' = "recv" /\ UNCHANGED <<mq, msg, frame, conv>>
    BY <1>13 DEF CopyDone, convVars
  <2>2. QED
    BY <1>1, <1>2, <2>1 DEF Messages, AtLeast
<1>14. QED
  BY <1>6, <1>7, <1>8, <1>9, <1>10, <1>11, <1>12, <1>13 DEF Next, Converter, Display

\* The display never touches what the converter uses.
LEMMA DisplayKeeps == PictureInv /\ Display => Conversion' /\ ConvTypeOK'
<1> SUFFICES ASSUME PictureInv, Display PROVE Conversion' /\ ConvTypeOK'
  OBVIOUS
<1>1. UNCHANGED convVars /\ Bytes' = Bytes /\ Size' = Size
  BY PicKept DEF Display, DrmInit, DrmThread, Receive, CopyPixel, CopyLine, CopyDone, Next
<1>2. conv # "init"
  BY DEF PictureInv, Conversion, Display, DrmInit, DrmThread, Receive, CopyPixel,
     CopyLine, CopyDone
<1>3. Conversion /\ ConvTypeOK
  BY DEF PictureInv, PictureTypeOK, ConvTypeOK
<1>4. Conversion'
  BY <1>1, <1>2, <1>3 DEF Conversion, convVars, Made, Cell, Written
<1>5. ConvTypeOK'
  BY <1>1, <1>3 DEF ConvTypeOK, convVars
<1>6. QED
  BY <1>4, <1>5

\* The copy keeps z at the place of its row and column.
LEMMA PlaceStep == PictureInv /\ [Next]_vars => Place'
<1> SUFFICES ASSUME PictureInv, [Next]_vars PROVE Place'
  OBVIOUS
<1>1. PictureTypeOK /\ Place
  BY DEF PictureInv
<1>2. pic' = pic /\ pic.width \in Nat /\ pic.height \in Nat
  BY <1>1, PicKept, SizeFacts
<1>3. CASE UNCHANGED lcdVars
  BY <1>1, <1>2, <1>3 DEF Place, lcdVars, Stride
<1>4. lcd # "off" =>
        Stride \in Nat /\ scr.width \in Nat /\ scr.height \in Nat /\ i \in Nat /\ j \in Nat
  BY <1>1, ScreenFacts, StrideFacts DEF PictureTypeOK
<1>5. CASE Converter \/ UNCHANGED vars
  <2>1. UNCHANGED lcdVars
    BY <1>5 DEF Converter, TableInit, BeginConversion, Store, NextGroup, Converted,
       Send, SendFails, vars
  <2>2. QED
    BY <1>3, <2>1
<1>6. CASE Receive
  <2>1. i' = 0 /\ j' = 0 /\ z' = 0 /\ scr' = scr /\ lcd = "recv"
    BY <1>6 DEF Receive, StartCopy
  <2>2. Stride * 0 + 0 = 0
    BY <1>4, <2>1
  <2>3. QED
    BY <2>1, <2>2 DEF Place, Stride
<1>7. CASE CopyPixel
  <2>1. /\ lcd = "copy" /\ scr' = scr /\ i' = i /\ j' = j + 1 /\ i < scr.height
        /\ Inside(pic.width, pic.height) => z' = z + 1
    BY <1>7 DEF CopyPixel, CamearPixel
  <2>2. ASSUME i < pic.height, j + 1 <= pic.width
        PROVE  z' = Stride * i + (j + 1)
    <3>1. Inside(pic.width, pic.height) /\ z = Stride * i + j
      BY <1>1, <1>2, <1>4, <2>1, <2>2 DEF Inside, Place
    <3>2. Stride * i \in Nat
      BY <1>4, <2>1
    <3>3. QED
      BY <1>4, <2>1, <3>1, <3>2
  <2>3. i # scr.height
    BY <1>4, <2>1
  <2>4. QED
    BY <1>2, <2>1, <2>2, <2>3 DEF Place, Stride
<1>8. CASE CopyLine
  <2>1. lcd = "copy" /\ scr' = scr /\ i' = i + 1 /\ j' = 0 /\ z' = Stride * (i + 1)
    BY <1>8 DEF CopyLine, NextLine
  <2>2. Stride * (i + 1) \in Nat
    BY <1>4, <2>1
  <2>3. QED
    BY <2>1, <2>2 DEF Place, Stride
<1>9. CASE DrmThread \/ CopyDone \/ \E s \in Screens : DrmInit(s)
  BY <1>9 DEF DrmThread, CopyDone, DrmInit, Place
<1>10. QED
  BY <1>5, <1>6, <1>7, <1>8, <1>9 DEF Next, Display

\* The type invariant is preserved: the places the copy writes are in the
\* frame buffer and the pixels it reads are in the picture.
LEMMA TypeStep == PictureInv /\ [Next]_vars => PictureTypeOK'
<1> SUFFICES ASSUME PictureInv, [Next]_vars PROVE PictureTypeOK'
  OBVIOUS
<1>1. PictureTypeOK
  BY DEF PictureInv
<1>2. pic' = pic /\ pic.width \in Nat /\ pic.height \in Nat /\ pic' \in Pictures
      /\ Bytes' = Bytes /\ Size' = Size
  BY <1>1, PicKept, SizeFacts DEF PictureTypeOK
<1>3. ConvTypeOK'
  <2>1. CASE Converter
    BY <2>1, ConvTypeStep
  <2>2. CASE Display
    BY <2>2, DisplayKeeps
  <2>3. CASE UNCHANGED vars
    BY <1>1, <1>2, <2>3 DEF vars, convVars, ConvTypeOK, PictureTypeOK
  <2>4. QED
    BY <2>1, <2>2, <2>3 DEF Next
<1>4. LcdTypeOK'
  <2>1. CASE Display
    BY <2>1, LcdTypeStep
  <2>2. CASE Converter \/ UNCHANGED vars
    <3>1. UNCHANGED lcdVars
      BY <2>2 DEF Converter, TableInit, BeginConversion, Store, NextGroup, Converted,
         Send, SendFails, vars
    <3>2. QED
      BY <1>1, <3>1 DEF lcdVars, LcdTypeOK, PictureTypeOK, Elem
  <2>3. QED
    BY <2>1, <2>2 DEF Next
<1>5. mq' \in Seq(1 .. MaxFrame)
  BY MessagesStep
<1>6. ASSUME lcd' = "copy", i' < scr'.height, j' < scr'.width,
             j' < pic'.width, i' < pic'.height
      PROVE  /\ z' \in Elem'
             /\ pic'.width * i' + j' \in 0 .. pic'.width * pic'.height - 1
  <2>1. IsScreen(scr') /\ i' \in Nat /\ j' \in Nat
    <3>1. scr' \in Screens
      BY <1>4, <1>6 DEF LcdTypeOK
    <3>2. IsScreen(scr')
      BY <3>1, PictureAssumption
    <3>3. i' \in 0 .. scr'.height /\ j' \in 0 .. scr'.width
      BY <1>4 DEF LcdTypeOK
    <3>4. QED
      BY <3>2, <3>3 DEF IsScreen
  <2>2. (Stride * i + j)' \in Elem'
    BY <1>6, <2>1, PlaceInside DEF Stride, Elem
  <2>3. z' = (Stride * i + j)'
    <3>1. j' <= pic'.width
      BY <1>2, <1>6, <2>1
    <3>2. QED
      BY <1>6, <3>1, PlaceStep DEF Place
  <2>4. pic'.width * i' + j' \in Nat /\ pic'.width * i' + j' < pic'.width * pic'.height
    BY <1>2, <1>6, <2>1, RowBounds
  <2>5. pic'.width * pic'.height \in Nat
    BY <1>2
  <2>6. QED
    BY <2>2, <2>3, <2>4, <2>5
<1>7. QED
  BY <1>2, <1>3, <1>4, <1>5, <1>6 DEF PictureTypeOK, ConvTypeOK, LcdTypeOK, Inside

\* A step that writes nothing to the screen leaves every pixel in its place.
LEMMA InPlaceKept ==
  ASSUME PixelsInPlace, UNCHANGED <<pic, scr, fb>>, lcd' # "off" => lcd # "off"
  PROVE  PixelsInPlace'
BY DEF PixelsInPlace, Rows, Columns, Visible, IsPixel, ScanPos, Elem

\* What the display knows of the place it writes next.
LEMMA CopyFacts ==
  ASSUME PictureInv, CopyPixel
  PROVE  /\ lcd = "copy" /\ UNCHANGED <<pic, scr, lcd, msg>> /\ i' = i /\ j' = j + 1
         /\ i \in Rows /\ j \in Columns /\ i \in Nat /\ j \in Nat
         /\ fb \in [Elem -> ByteOf \X ByteOf]
         /\ ~ Visible(i, j) => fb' = fb
         /\ Visible(i, j) =>
              /\ z = ScanPos(i, j) /\ z \in Elem
              /\ fb' = [fb EXCEPT ![z] = Pixels[pic.width * i + j]]
<1>1. PictureTypeOK /\ Place
  BY DEF PictureInv
<1>2. /\ lcd = "copy" /\ UNCHANGED <<pic, scr, lcd, msg>> /\ i' = i /\ j' = j + 1
      /\ i < scr.height /\ j < scr.width
      /\ Inside(pic.width, pic.height) => fb' = [fb EXCEPT ![z] = Pixels[pic.width * i + j]]
      /\ ~ Inside(pic.width, pic.height) => fb' = fb
  BY DEF CopyPixel, CamearPixel
<1>3. IsScreen(scr)
  BY <1>1, <1>2, ScreenFacts
<1>4. /\ scr.width \in Nat /\ scr.height \in Nat
      /\ \A r \in Nat, c \in Nat : ScanPos(r, c) = Stride * r + c
  BY <1>3, StrideFacts
<1>5. i \in Nat /\ j \in Nat /\ i \in Rows /\ j \in Columns
  BY <1>1, <1>2, <1>4 DEF PictureTypeOK, Rows, Columns
<1>6. pic.width \in Nat /\ pic.height \in Nat
  BY <1>1, SizeFacts
<1>7. Visible(i, j) <=> Inside(pic.width, pic.height)
  BY <1>5, <1>6 DEF Visible, Inside, Rows, Columns
<1>8. ASSUME Inside(pic.width, pic.height)
      PROVE  z = ScanPos(i, j) /\ z \in Elem
  <2>1. z = Stride * i + j
    BY <1>1, <1>2, <1>5, <1>6, <1>8 DEF Place, Inside
  <2>2. Stride * i + j \in Elem
    BY <1>2, <1>3, <1>5, PlaceInside DEF Stride, Elem
  <2>3. QED
    BY <1>4, <1>5, <2>1, <2>2
<1>9. QED
  BY <1>1, <1>2, <1>5, <1>7, <1>8 DEF PictureTypeOK

\* Two places of the screen are two elements of the frame buffer.
LEMMA PlacesDiffer ==
  ASSUME IsScreen(scr), NEW r, NEW c, NEW r2, NEW c2,
         r \in Rows, c \in Columns, r2 \in Rows, c2 \in Columns
  PROVE  /\ ScanPos(r, c) \in Elem
         /\ ScanPos(r, c) = ScanPos(r2, c2) => r = r2 /\ c = c2
<1> DEFINE w == Stride
<1>1. w \in Nat /\ scr.width \in Nat /\ scr.height \in Nat /\ scr.width <= w
  BY StrideFacts
<1>2. ASSUME NEW x \in Nat, NEW y \in Nat PROVE ScanPos(x, y) = w * x + y
  BY StrideFacts
<1> HIDE DEF w
<1>3. r \in Nat /\ r < scr.height /\ r2 \in Nat
  BY <1>1 DEF Rows
<1>4. c \in Nat /\ c < scr.width /\ c2 \in Nat /\ c2 < scr.width /\ c < w /\ c2 < w
  BY <1>1 DEF Columns
<1>5. ScanPos(r, c) = w * r + c /\ ScanPos(r2, c2) = w * r2 + c2
  BY <1>2, <1>3, <1>4
<1>6. w * r + c \in Elem
  BY <1>3, <1>4, PlaceInside DEF Stride, Elem, w
<1>7. w * r + c = w * r2 + c2 => r = r2 /\ c = c2
  BY <1>1, <1>3, <1>4, RowInjective
<1>8. QED
  BY <1>5, <1>6, <1>7

\* Each pixel is copied to its own place.
LEMMA InPlaceStep == PictureInv /\ [Next]_vars => PixelsInPlace'
<1> SUFFICES ASSUME PictureInv, [Next]_vars PROVE PixelsInPlace'
  OBVIOUS
<1>1. PictureTypeOK /\ PixelsInPlace
  BY DEF PictureInv
<1>2. CASE Converter \/ UNCHANGED vars
  <2>1. UNCHANGED <<lcdVars, pic>>
    BY <1>2 DEF Converter, TableInit, BeginConversion, Store, NextGroup, Converted,
       Send, SendFails, vars
  <2>2. QED
    BY <1>1, <2>1, InPlaceKept DEF lcdVars
<1>3. CASE DrmThread \/ Receive \/ CopyLine \/ CopyDone
  <2>1. UNCHANGED <<pic, scr, fb>> /\ lcd # "off"
    BY <1>3 DEF DrmThread, Receive, CopyLine, CopyDone, NextLine
  <2>2. QED
    BY <1>1, <2>1, InPlaceKept
<1>4. ASSUME NEW s \in Screens, DrmInit(s) PROVE PixelsInPlace'
  <2>1. IsScreen(s) /\ scr' = s /\ fb' = [e \in Elem' |-> Black]
    BY <1>4, PictureAssumption DEF DrmInit, Elem
  <2>2. ASSUME NEW r \in Rows', NEW c \in Columns' PROVE ScanPos(r, c)' \in Elem'
    <3>1. /\ s.line \div s.n \in Nat /\ s.width \in Nat /\ s.height \in Nat
          /\ \A x \in Nat : (s.line * x) \div s.n = (s.line \div s.n) * x
      BY <2>1, LineFacts
    <3>2. r \in Nat /\ c \in Nat /\ r < s.height /\ c < s.width
      BY <2>1, <3>1 DEF Rows, Columns
    <3>3. (s.line * r) \div s.n = (s.line \div s.n) * r
      BY <3>1, <3>2
    <3>4. (s.line \div s.n) * r + c \in 0 .. s.size \div s.n - 1
      BY <2>1, <3>2, PlaceInside
    <3>5. QED
      BY <2>1, <3>3, <3>4 DEF ScanPos, Elem
  <2>3. QED
    BY <2>1, <2>2 DEF PixelsInPlace
<1>5. CASE CopyPixel
  <2>1. /\ lcd = "copy" /\ UNCHANGED <<pic, scr, lcd, msg>>
        /\ i \in Rows /\ j \in Columns /\ i \in Nat /\ j \in Nat
        /\ fb \in [Elem -> ByteOf \X ByteOf]
    BY <1>5, CopyFacts
  <2>2. CASE ~ Visible(i, j)
    <3>1. fb' = fb
      BY <1>5, <2>2, CopyFacts
    <3>2. QED
      BY <1>1, <2>1, <3>1, InPlaceKept
  <2>3. CASE Visible(i, j)
    <3> DEFINE e == Pixels[pic.width * i + j]
    <3>1. z = ScanPos(i, j) /\ z \in Elem /\ fb' = [fb EXCEPT ![z] = e]
      BY <1>5, <2>3, CopyFacts
    <3>2. IsPixel(e, i, j)
      BY <2>1, <2>3, PixelFacts DEF Visible
    <3> HIDE DEF e
    <3>3. IsScreen(scr)
      BY <1>1, <2>1, ScreenFacts
    <3>4. ASSUME NEW r \in Rows, NEW c \in Columns, Visible(r, c)
          PROVE  fb'[ScanPos(r, c)] = Black \/ IsPixel(fb'[ScanPos(r, c)], r, c)
      <4>1. CASE r = i /\ c = j
        BY <2>1, <3>1, <3>2, <4>1
      <4>2. CASE ~ (r = i /\ c = j)
        <5>1. ScanPos(r, c) \in Elem /\ ScanPos(r, c) # z
          BY <2>1, <3>1, <3>3, <4>2, PlacesDiffer
        <5>2. fb'[ScanPos(r, c)] = fb[ScanPos(r, c)]
          BY <2>1, <3>1, <5>1
        <5>3. fb[ScanPos(r, c)] = Black \/ IsPixel(fb[ScanPos(r, c)], r, c)
          BY <1>1, <2>1, <3>4 DEF PixelsInPlace
        <5>4. QED
          BY <5>2, <5>3
      <4>3. QED
        BY <4>1, <4>2
    <3>5. ASSUME NEW k \in Elem, fb'[k] # Black
          PROVE  \E r \in Rows, c \in Columns : Visible(r, c) /\ k = ScanPos(r, c)
      <4>1. CASE k = z
        BY <2>1, <2>3, <3>1, <4>1
      <4>2. CASE k # z
        BY <1>1, <2>1, <3>1, <3>5, <4>2 DEF PixelsInPlace
      <4>3. QED
        BY <4>1, <4>2
    <3>6. QED
      BY <2>1, <3>4, <3>5 DEF PixelsInPlace, Rows, Columns, Visible, IsPixel, ScanPos, Elem
  <2>4. QED
    BY <2>2, <2>3
<1>6. QED
  BY <1>2, <1>3, <1>4, <1>5 DEF Next, Display

\* What a step that writes nothing may do to the promise on old pixels: start
\* a copy, go to the next line of one, or finish one after its last line.
LEMMA NotOlderKept ==
  ASSUME PixelsNotOlder, UNCHANGED <<pic, scr, fb, msg>>,
         \A r \in Rows, c \in Columns :
           lcd' = "recv" \/ (lcd' = "copy" /\ Passed(r, c)') =>
             lcd = "recv" \/ (lcd = "copy" /\ Passed(r, c))
  PROVE  lcd' \in {"recv", "copy"} /\ lcd \in {"recv", "copy"} => PixelsNotOlder'
<1> SUFFICES ASSUME lcd' \in {"recv", "copy"}, lcd \in {"recv", "copy"}, msg > 0,
                    NEW r \in Rows, NEW c \in Columns, Visible(r, c),
                    lcd' = "recv" \/ Passed(r, c)'
             PROVE  LET e == fb[ScanPos(r, c)] IN e[1].seq >= msg /\ e[2].seq >= msg
  BY DEF PixelsNotOlder, Rows, Columns, Visible, ScanPos
<1>1. lcd = "recv" \/ Passed(r, c)
  OBVIOUS
<1>2. QED
  BY <1>1 DEF PixelsNotOlder

\* What is copied is at least as new as the message, whatever the converter
\* does to the picture meanwhile.
LEMMA NotOlderStep == PictureInv /\ [Next]_vars => PixelsNotOlder'
<1> SUFFICES ASSUME PictureInv, [Next]_vars PROVE PixelsNotOlder'
  OBVIOUS
<1>1. PictureTypeOK /\ PixelsNotOlder /\ Messages
  BY DEF PictureInv
<1>2. CASE Converter \/ UNCHANGED vars
  <2>1. UNCHANGED <<lcdVars, pic>>
    BY <1>2 DEF Converter, TableInit, BeginConversion, Store, NextGroup, Converted,
       Send, SendFails, vars
  <2>2. QED
    BY <1>1, <2>1 DEF lcdVars, PixelsNotOlder, Rows, Columns, Visible, ScanPos, Passed
<1>3. ASSUME NEW s \in Screens, DrmInit(s) PROVE PixelsNotOlder'
  BY <1>1, <1>3 DEF DrmInit, Messages, PixelsNotOlder
<1>4. CASE DrmThread
  BY <1>1, <1>4 DEF DrmThread, Messages, PixelsNotOlder
<1>5. lcd # "off" =>
        i \in Nat /\ j \in Nat /\ scr.width \in Nat /\ scr.height \in Nat
  BY <1>1, ScreenFacts, StrideFacts DEF PictureTypeOK
<1>6. CASE Receive
  <2>1. i' = 0 /\ j' = 0 /\ lcd' = "copy" /\ scr' = scr /\ lcd = "recv"
    BY <1>6 DEF Receive, StartCopy
  <2>2. scr.height \in Nat /\ scr.width \in Nat
    BY <1>5, <2>1
  <2>3. \A r \in Rows', c \in Columns' : ~ Passed(r, c)'
    BY <2>1, <2>2 DEF Rows, Columns, Passed
  <2>4. QED
    BY <2>1, <2>3 DEF PixelsNotOlder
<1>7. CASE CopyLine
  <2>1. /\ UNCHANGED <<pic, scr, fb, msg>> /\ lcd = "copy" /\ lcd' = "copy"
        /\ i' = i + 1 /\ j' = 0 /\ j = scr.width
    BY <1>7 DEF CopyLine, NextLine
  <2>2. ASSUME NEW r, NEW c, r \in Rows, c \in Columns, Passed(r, c)' PROVE Passed(r, c)
    <3>1. r \in Nat /\ c \in Nat /\ c < scr.width /\ i \in Nat
      BY <1>5, <2>1, <2>2 DEF Rows, Columns
    <3>2. r < i + 1
      BY <2>1, <2>2, <3>1 DEF Passed
    <3>3. QED
      BY <2>1, <3>1, <3>2 DEF Passed
  <2>3. QED
    BY <1>1, <2>1, <2>2, NotOlderKept
<1>8. CASE CopyDone
  <2>1. UNCHANGED <<pic, scr, fb, msg>> /\ lcd = "copy" /\ lcd' = "recv" /\ i = scr.height
    BY <1>8 DEF CopyDone, CopyEnds
  <2>2. \A r \in Rows, c \in Columns : Passed(r, c)
    BY <1>5, <2>1 DEF Rows, Passed
  <2>3. QED
    BY <1>1, <2>1, <2>2, NotOlderKept
<1>9. CASE CopyPixel
  <2>1. /\ lcd = "copy" /\ UNCHANGED <<pic, scr, lcd, msg>> /\ i' = i /\ j' = j + 1
        /\ i \in Rows /\ j \in Columns /\ i \in Nat /\ j \in Nat
        /\ fb \in [Elem -> ByteOf \X ByteOf]
    BY <1>9, CopyFacts
  <2>2. ASSUME NEW r, NEW c, r \in Rows, c \in Columns, Visible(r, c), Passed(r, c)'
        PROVE  Passed(r, c) \/ (r = i /\ c = j)
    <3>1. r \in Nat /\ c \in Nat
      BY <1>5, <2>1, <2>2 DEF Rows, Columns
    <3>2. r < i \/ (r = i /\ c < j + 1)
      BY <2>1, <2>2 DEF Passed
    <3>3. QED
      BY <2>1, <3>1, <3>2 DEF Passed
  <2>3. CASE ~ Visible(i, j)
    <3>1. fb' = fb
      BY <1>9, <2>3, CopyFacts
    <3>2. ASSUME msg > 0, NEW r, NEW c, r \in Rows, c \in Columns, Visible(r, c),
                 Passed(r, c)'
          PROVE  Passed(r, c)
      BY <2>2, <2>3, <3>2
    <3>3. QED
      BY <1>1, <2>1, <3>1, <3>2 DEF PixelsNotOlder, Rows, Columns, Visible, ScanPos
  <2>4. CASE Visible(i, j)
    <3> DEFINE e == Pixels[pic.width * i + j]
               newer(x) == x[1].seq >= msg /\ x[2].seq >= msg
    <3>1. z = ScanPos(i, j) /\ z \in Elem /\ fb' = [fb EXCEPT ![z] = e]
      BY <1>9, <2>4, CopyFacts
    <3>2. newer(e)
      BY <2>1, <2>4, PixelFacts DEF Visible
    <3> HIDE DEF e
    <3>3. IsScreen(scr)
      BY <1>1, <2>1, ScreenFacts
    <3>4. ASSUME msg > 0, NEW r, NEW c, r \in Rows, c \in Columns, Visible(r, c),
                 Passed(r, c)'
          PROVE  newer(fb'[ScanPos(r, c)])
      <4>1. CASE r = i /\ c = j
        BY <2>1, <3>1, <3>2, <4>1
      <4>2. CASE ~ (r = i /\ c = j)
        <5>1. ScanPos(r, c) \in Elem /\ ScanPos(r, c) # z
          BY <2>1, <3>1, <3>3, <3>4, <4>2, PlacesDiffer
        <5>2. fb'[ScanPos(r, c)] = fb[ScanPos(r, c)]
          BY <2>1, <3>1, <5>1
        <5>3. Passed(r, c)
          BY <2>2, <3>4, <4>2
        <5>4. newer(fb[ScanPos(r, c)])
          BY <1>1, <2>1, <3>4, <5>3 DEF PixelsNotOlder
        <5>5. QED
          BY <5>2, <5>4
      <4>3. QED
        BY <4>1, <4>2
    <3>5. QED
      BY <2>1, <3>4 DEF PixelsNotOlder, Rows, Columns, Visible, ScanPos
  <2>5. QED
    BY <2>3, <2>4
<1>10. QED
  BY <1>2, <1>3, <1>4, <1>6, <1>7, <1>8, <1>9 DEF Next, Display

\* A byte of the picture is from a frame that was begun.
LEMMA ByteBegun ==
  ASSUME PictureInv, NEW b \in Bytes
  PROVE  rgb[b].seq \in Int /\ rgb[b].seq >= 0 /\ rgb[b].seq <= frame
<1>1. frame \in Nat /\ rgb \in [Bytes -> ByteOf]
  BY PictureAssumption DEF PictureInv, PictureTypeOK
<1>2. rgb[b] \in ByteOf
  BY <1>1
<1>3. rgb[b].seq \in Int /\ rgb[b].seq >= 0
  BY <1>2, PictureAssumption DEF ByteOf
<1>4. \/ rgb[b] = Cell(frame, b) \/ rgb[b] = Made(frame, b)
      \/ rgb[b] = Made(frame - 1, b) /\ frame > 0
  BY DEF PictureInv, Conversion
<1>5. rgb[b].seq <= frame
  BY <1>1, <1>4 DEF Cell, Made, Nothing
<1>6. QED
  BY <1>3, <1>5

\* No step makes a byte of the picture older.
LEMMA PictureOnlyNewer ==
  ASSUME PictureInv, [Next]_vars, NEW b \in Bytes
  PROVE  rgb'[b].seq >= rgb[b].seq /\ rgb'[b].seq \in Int
<1>1. rgb \in [Bytes -> ByteOf]
  BY DEF PictureInv, PictureTypeOK
<1>2. rgb[b].seq \in Int /\ rgb[b].seq >= 0 /\ rgb[b].seq <= frame
  BY ByteBegun
<1>3. frame \in Int
  BY PictureAssumption DEF PictureInv, PictureTypeOK
<1>4. CASE Store
  <2>1. \E x, y : rgb' = [rgb EXCEPT ![x] = [seq |-> frame, at |-> y]]
    BY <1>4 DEF Store
  <2>2. rgb'[b] = rgb[b] \/ rgb'[b].seq = frame
    BY <1>1, <2>1
  <2>3. QED
    BY <1>2, <1>3, <2>2
<1>5. CASE ~ Store
  <2>1. rgb' = rgb
    BY <1>5 DEF Next, Converter, Display, TableInit, BeginConversion, NextGroup,
       Converted, Send, SendFails, DrmInit, DrmThread, Receive, CopyPixel, CopyLine,
       CopyDone, vars, convVars
  <2>2. QED
    BY <1>2, <2>1
<1>6. QED
  BY <1>4, <1>5

\* A pixel is made from two bytes of the picture.
LEMMA PixelBytes ==
  ASSUME PictureTypeOK, NEW r \in Nat, NEW c \in Nat, r < pic.height, c < pic.width
  PROVE  LET px == pic.width * r + c
         IN  2 * px \in Bytes /\ 2 * px + 1 \in Bytes
<1> DEFINE px == pic.width * r + c
           n == pic.width * pic.height
<1>1. /\ pic.width \in Nat /\ pic.height \in Nat
      /\ Size = 2 * n /\ Bytes = 0 .. Size - 1
  BY SizeFacts
<1>2. px \in Nat /\ px < n
  BY <1>1, RowBounds
<1>3. n \in Nat
  BY <1>1
<1> HIDE DEF px, n
<1>4. 2 * px \in Bytes /\ 2 * px + 1 \in Bytes
  BY <1>1, <1>2, <1>3
<1>5. QED
  BY <1>4 DEF px

\* So is every visible one.
LEMMA VisibleBytes ==
  ASSUME PictureTypeOK, lcd # "off", NEW r, NEW c, Visible(r, c)
  PROVE  LET px == pic.width * r + c
         IN  2 * px \in Bytes /\ 2 * px + 1 \in Bytes
<1>1. scr.width \in Nat /\ scr.height \in Nat
  BY ScreenFacts, StrideFacts
<1>2. r \in Nat /\ c \in Nat /\ r < pic.height /\ c < pic.width
  BY <1>1 DEF Visible
<1>3. QED
  BY <1>2, PixelBytes

\* Where the picture becomes newer and the screen keeps what it has, the screen
\* stays behind.
LEMMA NotAheadKept ==
  ASSUME PictureInv, [Next]_vars, UNCHANGED <<pic, scr, fb>>, lcd # "off"
  PROVE  NotAhead'
<1>1. PictureTypeOK /\ NotAhead
  BY DEF PictureInv
<1>2. ASSUME NEW r \in Rows, NEW c \in Columns, Visible(r, c)
      PROVE  LET e == fb[ScanPos(r, c)]
                 px == pic.width * r + c
             IN  e[1].seq <= rgb'[2 * px].seq /\ e[2].seq <= rgb'[2 * px + 1].seq
  <2> DEFINE px == pic.width * r + c
             e == fb[ScanPos(r, c)]
  <2>1. 2 * px \in Bytes /\ 2 * px + 1 \in Bytes
    BY <1>1, <1>2, VisibleBytes
  <2>2. e[1].seq <= rgb[2 * px].seq /\ e[2].seq <= rgb[2 * px + 1].seq
    BY <1>1, <1>2 DEF NotAhead
  <2>3. e \in ByteOf \X ByteOf
    <3>1. ScanPos(r, c) \in Elem
      BY <1>1, ScreenFacts, PlacesDiffer
    <3>2. QED
      BY <1>1, <3>1 DEF PictureTypeOK
  <2>4. e[1].seq \in Int /\ e[2].seq \in Int
    BY <2>3, PictureAssumption DEF ByteOf
  <2> HIDE DEF px, e
  <2>5. /\ rgb'[2 * px].seq >= rgb[2 * px].seq /\ rgb'[2 * px].seq \in Int
        /\ rgb'[2 * px + 1].seq >= rgb[2 * px + 1].seq /\ rgb'[2 * px + 1].seq \in Int
    BY <2>1, PictureOnlyNewer
  <2>6. rgb[2 * px].seq \in Int /\ rgb[2 * px + 1].seq \in Int
    BY <2>1, ByteBegun
  <2>7. QED
    BY <2>2, <2>4, <2>5, <2>6 DEF px, e
<1>3. QED
  BY <1>2 DEF NotAhead, Rows, Columns, Visible, ScanPos

\* What is copied is what the picture holds at that moment.
LEMMA NotAheadStep == PictureInv /\ [Next]_vars => NotAhead'
<1> SUFFICES ASSUME PictureInv, [Next]_vars PROVE NotAhead'
  OBVIOUS
<1>1. PictureTypeOK /\ NotAhead
  BY DEF PictureInv
<1>2. CASE Converter \/ UNCHANGED vars
  <2>1. UNCHANGED <<lcdVars, pic>>
    BY <1>2 DEF Converter, TableInit, BeginConversion, Store, NextGroup, Converted,
       Send, SendFails, vars
  <2>2. CASE lcd = "off"
    BY <2>1, <2>2 DEF lcdVars, NotAhead
  <2>3. CASE lcd # "off"
    BY <2>1, <2>3, NotAheadKept DEF lcdVars
  <2>4. QED
    BY <2>2, <2>3
<1>3. CASE DrmThread \/ Receive \/ CopyLine \/ CopyDone
  <2>1. UNCHANGED <<pic, scr, fb>> /\ lcd # "off"
    BY <1>3 DEF DrmThread, Receive, CopyLine, CopyDone, NextLine
  <2>2. QED
    BY <2>1, NotAheadKept
<1>4. ASSUME NEW s \in Screens, DrmInit(s) PROVE NotAhead'
  <2>1. /\ IsScreen(s) /\ scr' = s /\ pic' = pic /\ lcd' = "ready" /\ rgb' = rgb
        /\ fb' = [e \in Elem' |-> Black]
    BY <1>4, PictureAssumption DEF DrmInit, Elem, convVars
  <2>2. ASSUME NEW r \in Rows', NEW c \in Columns', Visible(r, c)'
        PROVE  LET px == pic.width * r + c
               IN  2 * px \in Bytes /\ 2 * px + 1 \in Bytes /\ ScanPos(r, c)' \in Elem'
    <3>1. ScanPos(r, c)' \in Elem'
      <4>1. scr'.line \div scr'.n \in Nat /\ scr'.width \in Nat /\ scr'.height \in Nat
            /\ \A x \in Nat : (scr'.line * x) \div scr'.n = (scr'.line \div scr'.n) * x
        BY <2>1, LineFacts
      <4>2. r \in Nat /\ c \in Nat /\ r < scr'.height /\ c < scr'.width
        BY <4>1 DEF Rows, Columns
      <4>3. (scr'.line * r) \div scr'.n = (scr'.line \div scr'.n) * r
        BY <4>1, <4>2
      <4>4. (scr'.line \div scr'.n) * r + c \in 0 .. scr'.size \div scr'.n - 1
        BY <2>1, <4>2, PlaceInside
      <4>5. QED
        BY <4>3, <4>4 DEF ScanPos, Elem
    <3>2. r \in Nat /\ c \in Nat /\ r < pic.height /\ c < pic.width
      BY <2>1, <2>2 DEF Visible, IsScreen
    <3>3. QED
      BY <1>1, <3>1, <3>2, PixelBytes
  <2>3. \A b \in Bytes : rgb[b].seq \in Int /\ rgb[b].seq >= 0
    BY ByteBegun
  <2>4. QED
    BY <2>1, <2>2, <2>3 DEF NotAhead, Black, Nothing
<1>5. CASE CopyPixel
  <2>1. /\ lcd = "copy" /\ UNCHANGED <<pic, scr, lcd, msg>>
        /\ i \in Rows /\ j \in Columns /\ i \in Nat /\ j \in Nat
        /\ fb \in [Elem -> ByteOf \X ByteOf]
    BY <1>5, CopyFacts
  <2>2. rgb' = rgb
    BY <1>5 DEF CopyPixel, convVars
  <2>3. CASE ~ Visible(i, j)
    BY <1>5, <2>1, <2>3, CopyFacts, NotAheadKept
  <2>4. CASE Visible(i, j)
    <3> DEFINE e == Pixels[pic.width * i + j]
               behind(x, r, c) ==
                 LET px == pic.width * r + c
                 IN  x[1].seq <= rgb[2 * px].seq /\ x[2].seq <= rgb[2 * px + 1].seq
    <3>1. z = ScanPos(i, j) /\ z \in Elem /\ fb' = [fb EXCEPT ![z] = e]
      BY <1>5, <2>4, CopyFacts
    <3>2. behind(e, i, j)
      <4> DEFINE px == pic.width * i + j
      <4>1. e = <<rgb[2 * px], rgb[2 * px + 1]>> /\ 2 * px \in Bytes /\ 2 * px + 1 \in Bytes
        BY <2>1, <2>4, PixelFacts DEF Visible
      <4>2. rgb[2 * px].seq \in Int /\ rgb[2 * px + 1].seq \in Int
        BY <4>1, ByteBegun
      <4> HIDE DEF px, e
      <4>3. e[1].seq <= rgb[2 * px].seq /\ e[2].seq <= rgb[2 * px + 1].seq
        BY <4>1, <4>2
      <4>4. QED
        BY <4>3 DEF px
    <3> HIDE DEF e
    <3>3. IsScreen(scr)
      BY <1>1, <2>1, ScreenFacts
    <3>4. ASSUME NEW r \in Rows, NEW c \in Columns, Visible(r, c)
          PROVE  behind(fb'[ScanPos(r, c)], r, c)
      <4>1. CASE r = i /\ c = j
        <5>1. fb'[ScanPos(r, c)] = e
          BY <2>1, <3>1, <4>1
        <5>2. QED
          BY <3>2, <4>1, <5>1
      <4>2. CASE ~ (r = i /\ c = j)
        <5>1. ScanPos(r, c) \in Elem /\ ScanPos(r, c) # z
          BY <2>1, <3>1, <3>3, <4>2, PlacesDiffer
        <5>2. fb'[ScanPos(r, c)] = fb[ScanPos(r, c)]
          BY <2>1, <3>1, <5>1
        <5>3. behind(fb[ScanPos(r, c)], r, c)
          BY <1>1, <2>1, <3>4 DEF NotAhead
        <5>4. QED
          BY <5>2, <5>3
      <4>3. QED
        BY <4>1, <4>2
    <3>5. QED
      BY <2>1, <2>2, <3>4 DEF NotAhead, Rows, Columns, Visible, ScanPos
  <2>5. QED
    BY <2>3, <2>4
<1>6. QED
  BY <1>2, <1>3, <1>4, <1>5 DEF Next, Display

-----------------------------------------------------------------------------
(* The theorems.                                                           *)

\* Before anything has run the invariant holds.
LEMMA PictureInit == Init => PictureInv
<1> SUFFICES ASSUME Init PROVE PictureInv
  OBVIOUS
<1>1. MaxFrame \in Nat
  BY PictureAssumption
<1>2. rgb \in [Bytes -> ByteOf]
  BY <1>1 DEF Init, Nothing, ByteOf
<1>3. i \in 0 .. scr.height /\ j \in 0 .. scr.width
  BY DEF Init, NoScreen
<1>4. PictureTypeOK
  BY <1>1, <1>2, <1>3 DEF Init, PictureTypeOK
<1>5. Conversion
  BY DEF Init, Conversion, Made
<1>6. Messages
  BY <1>1 DEF Init, Messages, AtLeast
<1>7. Place /\ PixelsInPlace /\ PixelsNotOlder /\ NotAhead
  BY DEF Init, Place, PixelsInPlace, PixelsNotOlder, NotAhead
<1>8. QED
  BY <1>4, <1>5, <1>6, <1>7 DEF PictureInv

\* The inductive invariant of the conversion and the copy holds for any sizes
\* of pictures and screens and any interleaving of the two loops.
THEOREM PictureInductive == Spec => []PictureInv
<1>1. PictureInv /\ [Next]_vars => PictureInv'
  <2> SUFFICES ASSUME PictureInv, [Next]_vars PROVE PictureInv'
    OBVIOUS
  <2>1. Conversion'
    <3>1. CASE Converter
      BY <3>1, ConversionStep
    <3>2. CASE Display
      BY <3>2, DisplayKeeps
    <3>3. CASE UNCHANGED vars
      BY <3>3, PicKept DEF PictureInv, vars, convVars, lcdVars, Conversion, Made, Cell, Written
    <3>4. QED
      BY <3>1, <3>2, <3>3 DEF Next
  <2>2. QED
    BY <2>1, TypeStep, MessagesStep, PlaceStep, InPlaceStep, NotOlderStep,
       NotAheadStep DEF PictureInv
<1>2. QED
  BY PictureInit, <1>1, PTL DEF Spec

\* Every index of convert_yuv_to_rgb565_buffer and of lcd_show_camear is inside
\* its array.
THEOREM PictureTypeCorrect == Spec => []PictureTypeOK
<1>1. PictureInv => PictureTypeOK
  BY DEF PictureInv
<1>2. QED
  BY PictureInductive, <1>1, PTL

\* A picture is announced only when each byte of it is of the announced frame
\* and of its own pixel.
THEOREM AnnouncedWholeAlways == Spec => []AnnouncedWhole
<1>1. PictureInv => AnnouncedWhole
  <2> SUFFICES ASSUME PictureInv, conv = "send", NEW b \in Bytes
               PROVE  rgb[b] = Cell(frame, b)
    BY DEF AnnouncedWhole
  <2>1. frame \in Nat /\ frame > 0 /\ rgb[b] = Made(frame, b)
    BY PictureAssumption DEF PictureInv, Conversion, PictureTypeOK
  <2>2. QED
    BY <2>1 DEF Made
<1>2. QED
  BY PictureInductive, <1>1, PTL

\* Every pixel the display controller finds is black or the picture's pixel of
\* that row and column, and outside the picture nothing is written.
THEOREM PixelsInPlaceAlways == Spec => []PixelsInPlace
<1>1. PictureInv => PixelsInPlace
  BY DEF PictureInv
<1>2. QED
  BY PictureInductive, <1>1, PTL

\* No byte of a copied pixel is older than the announced frame.
THEOREM PixelsNotOlderAlways == Spec => []PixelsNotOlder
<1>1. PictureInv => PixelsNotOlder
  BY DEF PictureInv
<1>2. QED
  BY PictureInductive, <1>1, PTL

\* Between two copies the screen shows the announced frame and nothing else,
\* unless a later frame of this buffer was begun.
THEOREM ShownWholeAlways == Spec => []ShownWholeUnlessOvertaken
<1>1. PictureInv => ShownWholeUnlessOvertaken
  <2> SUFFICES ASSUME PictureInv, lcd = "recv", msg > 0, frame = msg,
                      NEW r \in Rows, NEW c \in Columns, Visible(r, c)
               PROVE  LET px == pic.width * r + c
                      IN  fb[ScanPos(r, c)] = <<Cell(msg, 2 * px), Cell(msg, 2 * px + 1)>>
    BY DEF ShownWholeUnlessOvertaken
  <2> DEFINE px == pic.width * r + c
             e == fb[ScanPos(r, c)]
  <2>1. PictureTypeOK /\ PixelsInPlace /\ PixelsNotOlder /\ NotAhead
    BY DEF PictureInv
  <2>2. msg \in Int
    BY <2>1, PictureAssumption DEF PictureTypeOK
  <2>3. 2 * px \in Bytes /\ 2 * px + 1 \in Bytes
    BY <2>1, VisibleBytes
  <2>4. e \in ByteOf \X ByteOf
    <3>1. ScanPos(r, c) \in Elem
      BY <2>1, ScreenFacts, PlacesDiffer
    <3>2. QED
      BY <2>1, <3>1 DEF PictureTypeOK
  <2>5. e = Black \/ IsPixel(e, r, c)
    BY <2>1 DEF PixelsInPlace
  <2>6. e[1].seq >= msg /\ e[2].seq >= msg
    BY <2>1 DEF PixelsNotOlder
  <2>7. e[1].seq <= rgb[2 * px].seq /\ e[2].seq <= rgb[2 * px + 1].seq
    BY <2>1 DEF NotAhead
  <2>8. /\ rgb[2 * px].seq \in Int /\ rgb[2 * px].seq <= msg
        /\ rgb[2 * px + 1].seq \in Int /\ rgb[2 * px + 1].seq <= msg
    BY <2>3, ByteBegun
  <2>9. e[1].seq \in Int /\ e[2].seq \in Int
    BY <2>4, PictureAssumption DEF ByteOf
  <2>10. e # Black
    <3>1. e = Black => e[1].seq = 0
      BY DEF Black, Nothing
    <3>2. QED
      BY <2>2, <2>6, <2>9, <3>1
  <2>11. e[1].at = 2 * px /\ e[2].at = 2 * px + 1
    BY <2>5, <2>10 DEF IsPixel
  <2> HIDE DEF px, e
  <2>12. e[1].seq = msg /\ e[2].seq = msg
    BY <2>2, <2>6, <2>7, <2>8, <2>9
  <2>13. e = <<Cell(msg, 2 * px), Cell(msg, 2 * px + 1)>>
    BY <2>4, <2>11, <2>12 DEF ByteOf, Cell
  <2>14. QED
    BY <2>13 DEF px, e
<1>2. QED
  BY PictureInductive, <1>1, PTL

\* No step replaces a byte on the screen by one of an earlier frame.
THEOREM ScreenOnlyNewerAlways == Spec => ScreenOnlyNewer
<1> DEFINE Newer ==
      lcd # "off" =>
        \A k \in Elem : fb'[k][1].seq >= fb[k][1].seq /\ fb'[k][2].seq >= fb[k][2].seq
<1>1. PictureInv /\ [Next]_vars => [Newer]_vars
  <2> SUFFICES ASSUME PictureInv, Next, lcd # "off", NEW k \in Elem
               PROVE  fb'[k][1].seq >= fb[k][1].seq /\ fb'[k][2].seq >= fb[k][2].seq
    BY DEF Newer
  <2>1. PictureTypeOK /\ NotAhead
    BY DEF PictureInv
  <2>2. fb[k] \in ByteOf \X ByteOf
    BY <2>1 DEF PictureTypeOK
  <2>3. fb[k][1].seq \in Int /\ fb[k][2].seq \in Int
    BY <2>2, PictureAssumption DEF ByteOf
  <2>4. CASE fb' = fb
    BY <2>3, <2>4
  <2>5. CASE CopyPixel /\ Visible(i, j)
    <3> DEFINE px == pic.width * i + j
               e == <<rgb[2 * px], rgb[2 * px + 1]>>
    <3>1. /\ lcd = "copy" /\ i \in Nat /\ j \in Nat /\ i \in Rows /\ j \in Columns
          /\ z = ScanPos(i, j) /\ fb' = [fb EXCEPT ![z] = Pixels[px]]
          /\ fb \in [Elem -> ByteOf \X ByteOf]
      BY <2>5, CopyFacts
    <3>2. Pixels[px] = e /\ 2 * px \in Bytes /\ 2 * px + 1 \in Bytes
      BY <2>5, <3>1, PixelFacts DEF Visible
    <3>3. rgb[2 * px].seq \in Int /\ rgb[2 * px + 1].seq \in Int
      BY <3>2, ByteBegun
    <3>4. fb[z][1].seq <= rgb[2 * px].seq /\ fb[z][2].seq <= rgb[2 * px + 1].seq
      BY <2>1, <2>5, <3>1 DEF NotAhead
    <3> HIDE DEF px
    <3>5. fb'[k] = IF k = z THEN e ELSE fb[k]
      BY <3>1, <3>2
    <3>6. CASE k = z
      BY <2>3, <3>3, <3>4, <3>5, <3>6
    <3>7. CASE k # z
      BY <2>3, <3>5, <3>7
    <3>8. QED
      BY <3>6, <3>7
  <2>6. fb' = fb \/ (CopyPixel /\ Visible(i, j))
    <3>1. CASE CopyPixel
      BY <3>1, CopyFacts
    <3>2. CASE ~ CopyPixel
      BY <3>2 DEF Next, Converter, Display, TableInit, BeginConversion, Store, NextGroup,
         Converted, Send, SendFails, DrmInit, DrmThread, Receive, CopyLine, NextLine,
         CopyDone, lcdVars
    <3>3. QED
      BY <3>1, <3>2
  <2>7. QED
    BY <2>4, <2>5, <2>6
<1>2. QED
  BY PictureInductive, <1>1, PTL DEF Spec, ScreenOnlyNewer

-----------------------------------------------------------------------------
(* The colours.                                                            *)

\* A clamped colour is a byte, and clamping does not make two numbers differ
\* by more.
LEMMA ClampFacts ==
  ASSUME NEW x \in Int, NEW y \in Int
  PROVE  /\ Clamp(x) \in Byte
         /\ Near(x, y) => Near(Clamp(x), Clamp(y))
BY DEF Clamp, Near, Byte

\* Two fractions that differ by less than 1 are rounded down to numbers that
\* differ by at most 1.
LEMMA FloorsNear ==
  ASSUME NEW a \in Int, NEW e \in Int,
         15625 * a - 1024 * e >= -1024000000, 15625 * a - 1024 * e <= 1024000000
  PROVE  Shift16(a) \in Int /\ e \div 1000000 \in Int /\ Near(Shift16(a), e \div 1000000)
<1> DEFINE p == a \div 65536
           q == e \div 1000000
<1>1. p \in Int /\ a >= 65536 * p /\ a < 65536 * p + 65536
  OBVIOUS
<1>2. q \in Int /\ e >= 1000000 * q /\ e < 1000000 * q + 1000000
  OBVIOUS
<1> HIDE DEF p, q
<1>3. p - q < 2 /\ p - q > -2
  BY <1>1, <1>2
<1>4. Near(p, q)
  BY <1>1, <1>2, <1>3 DEF Near
<1>5. QED
  BY <1>1, <1>2, <1>4 DEF Shift16, p, q

\* The bounds of a byte.
LEMMA ByteBounds ==
  ASSUME NEW x \in Byte
  PROVE  x \in Int /\ x >= 0 /\ x <= 255
BY DEF Byte

\* The tables hold the products of the formula.
LEMMA TablesAgree ==
  ASSUME NEW y \in Byte, NEW u \in Byte, NEW v \in Byte
  PROVE  TableSum(Tables, y, u, v) = DirectSum(y, u, v)
BY DEF TableSum, Tables, DirectSum, Byte, csY_coeff_16, csU_blue_16, csU_green_16,
   csV_green_16, csV_red_16

\* The bytes the converter writes are one RGB565 number, low byte first.
LEMMA Packed ==
  ASSUME NEW r \in Byte, NEW g \in Byte, NEW b \in Byte
  PROVE  LET p == [r |-> r, g |-> g, b |-> b]
         IN  LowByte(p) + 256 * HighByte(p) = RGB565(p)
<1> DEFINE x == g \div 32
           n == g \div 4
           red == r \div 8
           blue == b \div 8
           low == ((((g * 8) \div 32) * 32) % 256)
<1>1. g \in Int
  BY ByteBounds
<1>2. n \in Int /\ 4 * n <= g /\ g < 4 * n + 4
  BY <1>1
<1>3. x \in Int /\ 32 * x <= g /\ g < 32 * x + 32
  BY <1>1
<1>4. (g * 8) \div 32 = n
  BY <1>1
<1>5. red \in Int /\ blue \in Int
  BY ByteBounds
<1> HIDE DEF x, n, red, blue
<1>6. 8 * x <= n /\ n < 8 * x + 8
  BY <1>1, <1>2, <1>3
<1>7. (n * 32) % 256 = 32 * n - 256 * x
  BY <1>2, <1>3, <1>6
<1>8. low = 32 * n - 256 * x
  BY <1>4, <1>7
<1> HIDE DEF low
<1>9. (low + blue) + 256 * (red * 8 + x) = red * 2048 + n * 32 + blue
  BY <1>2, <1>3, <1>5, <1>8
<1>10. QED
  BY <1>9 DEF LowByte, HighByte, RGB565, low, x, n, red, blue

\* The sums of the formula and of exact arithmetic, scaled to the same unit,
\* differ by less than one colour; and no sum leaves an int.
LEMMA SumsNear ==
  ASSUME NEW y \in Byte, NEW u \in Byte, NEW v \in Byte
  PROVE  LET s == DirectSum(y, u, v)
             luma == 1164383 * (y - 16)
             er == luma + 1596027 * (v - 128)
             eg == luma - 391762 * (u - 128) - 812968 * (v - 128)
             eb == luma + 2017232 * (u - 128)
         IN  /\ s.r \in Int /\ s.g \in Int /\ s.b \in Int
             /\ FitsInt(s.r) /\ FitsInt(s.g) /\ FitsInt(s.b)
             /\ 15625 * s.r - 1024 * er >= -1024000000
             /\ 15625 * s.r - 1024 * er <= 1024000000
             /\ 15625 * s.g - 1024 * eg >= -1024000000
             /\ 15625 * s.g - 1024 * eg <= 1024000000
             /\ 15625 * s.b - 1024 * eb >= -1024000000
             /\ 15625 * s.b - 1024 * eb <= 1024000000
<1>1. /\ y \in Int /\ y >= 0 /\ y <= 255
      /\ u \in Int /\ u >= 0 /\ u <= 255
      /\ v \in Int /\ v >= 0 /\ v <= 255
  BY ByteBounds
<1> DEFINE s == DirectSum(y, u, v)
<1>2. /\ s.r = 76309 * (y - 16) + 104597 * (v - 128)
      /\ s.g = 76309 * (y - 16) - 25674 * (u - 128) - 53278 * (v - 128)
      /\ s.b = 76309 * (y - 16) + 132201 * (u - 128)
  BY <1>1 DEF DirectSum, csY_coeff_16, csU_blue_16, csU_green_16, csV_green_16, csV_red_16
<1> HIDE DEF s
<1>3. FitsInt(s.r) /\ FitsInt(s.g) /\ FitsInt(s.b)
  BY <1>1, <1>2 DEF FitsInt
<1>4. QED
  BY <1>1, <1>2, <1>3 DEF s

\* For every triple of bytes the tables give the right colour.
LEMMA EveryColour ==
  ASSUME NEW y \in Byte, NEW u \in Byte, NEW v \in Byte
  PROVE  ColourRight(Tables, y, u, v)
<1> DEFINE s == DirectSum(y, u, v)
           luma == 1164383 * (y - 16)
           er == luma + 1596027 * (v - 128)
           eg == luma - 391762 * (u - 128) - 812968 * (v - 128)
           eb == luma + 2017232 * (u - 128)
           p == Pixel(s)
           e == ExactPixel(y, u, v)
<1>1. /\ s.r \in Int /\ s.g \in Int /\ s.b \in Int
      /\ FitsInt(s.r) /\ FitsInt(s.g) /\ FitsInt(s.b)
      /\ 15625 * s.r - 1024 * er >= -1024000000
      /\ 15625 * s.r - 1024 * er <= 1024000000
      /\ 15625 * s.g - 1024 * eg >= -1024000000
      /\ 15625 * s.g - 1024 * eg <= 1024000000
      /\ 15625 * s.b - 1024 * eb >= -1024000000
      /\ 15625 * s.b - 1024 * eb <= 1024000000
  BY SumsNear
<1>2. er \in Int /\ eg \in Int /\ eb \in Int
  BY ByteBounds
<1>3. /\ e.r = Clamp(er \div 1000000) /\ e.g = Clamp(eg \div 1000000)
      /\ e.b = Clamp(eb \div 1000000)
  BY DEF ExactPixel
<1>4. p = [r |-> Clamp(Shift16(s.r)), g |-> Clamp(Shift16(s.g)), b |-> Clamp(Shift16(s.b))]
  BY DEF Pixel
<1>5. TableSum(Tables, y, u, v) = s
  BY TablesAgree
<1> HIDE DEF er, eg, eb, s, e
<1>6. Near(Clamp(Shift16(s.r)), e.r) /\ Clamp(Shift16(s.r)) \in Byte
  BY <1>1, <1>2, <1>3, FloorsNear, ClampFacts
<1>7. Near(Clamp(Shift16(s.g)), e.g) /\ Clamp(Shift16(s.g)) \in Byte
  BY <1>1, <1>2, <1>3, FloorsNear, ClampFacts
<1>8. Near(Clamp(Shift16(s.b)), e.b) /\ Clamp(Shift16(s.b)) \in Byte
  BY <1>1, <1>2, <1>3, FloorsNear, ClampFacts
<1>9. LowByte(p) + 256 * HighByte(p) = RGB565(p)
  BY <1>4, <1>6, <1>7, <1>8, Packed
<1>10. p.r = Clamp(Shift16(s.r)) /\ p.g = Clamp(Shift16(s.g)) /\ p.b = Clamp(Shift16(s.b))
  BY <1>4
<1> HIDE DEF p
<1>11. QED
  BY <1>1, <1>5, <1>6, <1>7, <1>8, <1>9, <1>10 DEF ColourRight, p, e, s

\* The step that fills in the tables makes every colour right, for all values
\* of y, u and v, and nothing is converted before it.
THEOREM ColoursRightAlways == Spec => ColoursRight
<1> DEFINE Right == /\ tables' # tables =>
                         \A y, u, v \in Samples : ColourRight(tables', y, u, v)
                    /\ rgb' # rgb => tables # ZeroTables
<1>1. PictureInv /\ [Next]_vars => [Right]_vars
  <2> SUFFICES ASSUME PictureInv, Next PROVE Right
    OBVIOUS
  <2>1. tables' # tables => tables' = Tables
    BY DEF Next, Converter, Display, TableInit, BeginConversion, Store, NextGroup,
       Converted, Send, SendFails, DrmInit, DrmThread, Receive, CopyPixel, CopyLine,
       CopyDone, convVars
  <2>2. rgb' # rgb => conv # "init"
    BY DEF Next, Converter, Display, TableInit, BeginConversion, Store, NextGroup,
       Converted, Send, SendFails, DrmInit, DrmThread, Receive, CopyPixel, CopyLine,
       CopyDone, convVars
  <2>3. Tables # ZeroTables
    <3>1. Tables.y[0] = -16 * 76309 /\ ZeroTables.y[0] = 0
      BY DEF Tables, ZeroTables, Byte, csY_coeff_16
    <3>2. QED
      BY <3>1
  <2>4. conv # "init" => tables = Tables
    BY DEF PictureInv, Conversion
  <2>5. \A y, u, v \in Samples : ColourRight(Tables, y, u, v)
    BY PictureAssumption, EveryColour
  <2>6. QED
    BY <2>1, <2>2, <2>3, <2>4, <2>5
<1>2. QED
  BY PictureInductive, <1>1, PTL DEF Spec, ColoursRight

=============================================================================
