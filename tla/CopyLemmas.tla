------------------------------ MODULE CopyLemmas ------------------------------
(***************************************************************************)
(* Facts about rows and columns: where an element of a row-major array is,  *)
(* and that the loops of LcdCopy stay inside the frame buffer.              *)
(***************************************************************************)
EXTENDS LcdCopy, TLAPS

\* A place in one of the first h rows is in front of row h.
LEMMA RowBounds ==
  ASSUME NEW w \in Nat, NEW h \in Nat, NEW r \in Nat, NEW c \in Nat, r < h, c < w
  PROVE  w * r + c \in Nat /\ w * r + c < w * h
<1>1. PICK d \in Nat : h = r + 1 + d
  <2>1. h - r - 1 \in Nat /\ h = r + 1 + (h - r - 1)  OBVIOUS
  <2> QED  BY <2>1
<1>2. w * h = w * r + w + w * d  BY <1>1
<1>3. w * r \in Nat /\ w * d \in Nat  OBVIOUS
<1>4. QED
  BY <1>2, <1>3

\* A place in a later row comes later.
LEMMA RowOrder ==
  ASSUME NEW w \in Nat, NEW r \in Nat, NEW c \in Nat, NEW r2 \in Nat, NEW c2 \in Nat,
         r < r2, c < w
  PROVE  w * r + c < w * r2 + c2
<1>1. w * r + c < w * r2  BY RowBounds
<1>2. w * r2 \in Nat /\ w * r \in Nat  OBVIOUS
<1> QED  BY <1>1, <1>2

\* So a place is in one row and one column.
LEMMA RowInjective ==
  ASSUME NEW w \in Nat, NEW r \in Nat, NEW c \in Nat, NEW r2 \in Nat, NEW c2 \in Nat,
         c < w, c2 < w, w * r + c = w * r2 + c2
  PROVE  r = r2 /\ c = c2
<1>1. w * r \in Nat /\ w * r2 \in Nat  OBVIOUS
<1>2. ~ r < r2
  <2> SUFFICES ASSUME r < r2 PROVE FALSE  OBVIOUS
  <2>1. w * r + c < w * r2 + c2  BY RowOrder
  <2> QED  BY <2>1, <1>1
<1>3. ~ r2 < r
  <2> SUFFICES ASSUME r2 < r PROVE FALSE  OBVIOUS
  <2>1. w * r2 + c2 < w * r + c  BY RowOrder
  <2> QED  BY <2>1, <1>1
<1>4. r = r2  BY <1>2, <1>3
<1> QED  BY <1>4, <1>1

\* The line length of a screen is a whole number of elements, at least the
\* screen's width, and dividing the offset of row r by the size of an element
\* gives r times that number.
LEMMA LineFacts ==
  ASSUME NEW s, IsScreen(s)
  PROVE  /\ s.line \div s.n \in Nat /\ s.width \in Nat /\ s.height \in Nat
         /\ s.line = (s.line \div s.n) * s.n
         /\ s.width <= s.line \div s.n
         /\ \A r \in Nat : (s.line * r) \div s.n = (s.line \div s.n) * r
<1> DEFINE n == s.n
           line == s.line
           q == line \div n
<1>1. n \in {2, 4} /\ line \in Nat /\ line % n = 0
      /\ s.width \in Nat /\ s.height \in Nat /\ line >= s.width * n
  BY DEF IsScreen
<1>2. q \in Nat /\ line = q * n
  <2>1. CASE n = 2
    BY <1>1, <2>1
  <2>2. CASE n = 4
    BY <1>1, <2>2
  <2>3. QED
    BY <1>1, <2>1, <2>2
<1> HIDE DEF q
<1>3. s.width <= q
  <2>1. CASE n = 2
    BY <1>1, <1>2, <2>1
  <2>2. CASE n = 4
    BY <1>1, <1>2, <2>2
  <2>3. QED
    BY <1>1, <2>1, <2>2
<1>4. ASSUME NEW r \in Nat
      PROVE  (line * r) \div n = q * r
  <2> DEFINE m == q * r
  <2>1. m \in Nat /\ line * r = m * n
    BY <1>1, <1>2
  <2> HIDE DEF m
  <2>2. (m * n) \div n = m
    <3>1. CASE n = 2
      BY <2>1, <3>1
    <3>2. CASE n = 4
      BY <2>1, <3>2
    <3>3. QED
      BY <1>1, <3>1, <3>2
  <2>3. QED
    BY <2>1, <2>2 DEF m
<1>5. QED
  BY <1>1, <1>2, <1>3, <1>4 DEF q

\* The display controller finds row r where z begins it.
LEMMA StrideFacts ==
  ASSUME IsScreen(scr)
  PROVE  /\ Stride \in Nat /\ scr.width \in Nat /\ scr.height \in Nat
         /\ scr.width <= Stride
         /\ \A r \in Nat, c \in Nat : ScanPos(r, c) = Stride * r + c
BY LineFacts DEF Stride, ScanPos

\* Every place in the rows of a screen is in its frame buffer.
LEMMA PlaceInside ==
  ASSUME NEW s, IsScreen(s), NEW r \in Nat, NEW c \in Nat, r < s.height, c < s.width
  PROVE  (s.line \div s.n) * r + c \in 0 .. s.size \div s.n - 1
<1> DEFINE n == s.n
           q == s.line \div n
           m == q * s.height
<1>1. n \in {2, 4} /\ s.size \in Nat /\ s.line * s.height <= s.size
  BY DEF IsScreen
<1>2. /\ q \in Nat /\ s.width \in Nat /\ s.height \in Nat
      /\ s.line = q * n /\ s.width <= q
  BY LineFacts
<1> HIDE DEF q
<1>3. m \in Nat /\ s.line * s.height = m * n
  BY <1>1, <1>2
<1>4. c < q
  BY <1>2
<1>5. q * r + c \in Nat /\ q * r + c < m
  BY <1>2, <1>4, RowBounds
<1> HIDE DEF m
<1>6. m <= s.size \div n /\ s.size \div n \in Int
  <2>1. CASE n = 2
    BY <1>1, <1>3, <2>1
  <2>2. CASE n = 4
    BY <1>1, <1>3, <2>2
  <2>3. QED
    BY <1>1, <2>1, <2>2
<1>7. QED
  BY <1>3, <1>5, <1>6 DEF q

=============================================================================
