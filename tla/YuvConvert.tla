------------------------------ MODULE YuvConvert ------------------------------
(***************************************************************************)
(* The arithmetic of conversionPicDate.c: a YUV triple becomes an RGB pixel *)
(* in fixed point with 16 fractional bits, by formula or by five tables,    *)
(* and the pixel becomes the two bytes of an RGB565 value.                  *)
(***************************************************************************)
EXTENDS Integers

Byte == 0 .. 255

\* 1.164383, 2.017232, -0.391762, -0.812968 and 1.596027 times 2^16; the
\* conversion to int cuts off towards zero.
csY_coeff_16 == 76309
csU_blue_16 == 132201

\* Mutant: the sign of a factor is lost.
csU_green_unsigned == 25674

csU_green_16 == -25674
csV_green_16 == -53278
csV_red_16 == 104597

\* The tables are global: all 0 until yuv_rgb_table_init() has run.
ZeroTables ==
  LET zero == [b \in Byte |-> 0]
  IN  [y |-> zero, v_r |-> zero, v_g |-> zero, u_g |-> zero, u_b |-> zero]

\* What the loop of yuv_rgb_table_init() leaves in them.
Tables ==
  [y   |-> [b \in Byte |-> (b - 16) * csY_coeff_16],
   v_r |-> [b \in Byte |-> (b - 128) * csV_red_16],
   v_g |-> [b \in Byte |-> (b - 128) * csV_green_16],
   u_g |-> [b \in Byte |-> (b - 128) * csU_green_16],
   u_b |-> [b \in Byte |-> (b - 128) * csU_blue_16]]

\* x >> 16 of an int: the arithmetic shift rounds down, also below zero.
Shift16(x) == x \div 65536

Clamp(x) == IF x > 255 THEN 255 ELSE IF x < 0 THEN 0 ELSE x

\* The sums before the shift, from tables t, as convert_yuv_to_rgb_pixel_table
\* adds them up.
TableSum(t, y, u, v) ==
  [r |-> t.y[y] + t.v_r[v],
   g |-> t.y[y] + t.u_g[u] + t.v_g[v],
   b |-> t.y[y] + t.u_b[u]]

\* The same sums by the formula of convert_yuv_to_rgb_pixel.
DirectSum(y, u, v) ==
  [r |-> csY_coeff_16 * (y - 16) + csV_red_16 * (v - 128),
   g |-> csY_coeff_16 * (y - 16) + csU_green_16 * (u - 128)
           + csV_green_16 * (v - 128),
   b |-> csY_coeff_16 * (y - 16) + csU_blue_16 * (u - 128)]

\* Shift and clamp, the end of both functions: pixel[0], pixel[1], pixel[2].
Pixel(s) ==
  [r |-> Clamp(Shift16(s.r)), g |-> Clamp(Shift16(s.g)), b |-> Clamp(Shift16(s.b))]

\* The bytes rgb[out+1] and rgb[out+0] of convert_yuv_to_rgb565_buffer.  The
\* masks clear the low 3 and 5 bits, the parts have no bit in common, and an
\* unsigned char keeps 8 bits of the shifted green.
HighByte(p) == (p.r \div 8) * 8 + p.g \div 32
LowByte(p) == ((((p.g * 8) \div 32) * 32) % 256) + p.b \div 8

-----------------------------------------------------------------------------
(* What the arithmetic is meant to compute.                                *)

\* The rule of BT.601 with the six decimals of the source, in exact arithmetic
\* and rounded down.
ExactPixel(y, u, v) ==
  LET luma == 1164383 * (y - 16)
  IN  [r |-> Clamp((luma + 1596027 * (v - 128)) \div 1000000),
       g |-> Clamp((luma - 391762 * (u - 128) - 812968 * (v - 128)) \div 1000000),
       b |-> Clamp((luma + 2017232 * (u - 128)) \div 1000000)]

Near(x, y) == (x - y) \in {-1, 0, 1}

\* The upper 5, 6 and 5 bits of red, green and blue in one 16-bit number.
RGB565(p) == (p.r \div 8) * 2048 + (p.g \div 4) * 32 + p.b \div 8

FitsInt(x) == x >= -2147483647 - 1 /\ x <= 2147483647

=============================================================================
