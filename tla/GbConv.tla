------------------------------- MODULE GbConv -------------------------------
(***************************************************************************)
(* util/gbconv.c and the two functions of util/misc.c around it: messages  *)
(* of the server from GBK to UTF-8.  The table of code points is given, and *)
(* so is the byte that lies behind the message in memory.                  *)
(***************************************************************************)
EXTENDS Naturals, Sequences

\* The test that should recognise trailing bytes from 40 to 7E masks two bits
\* and compares them with a third, so that the first case never applies.
gbk_to_index(byte1, byte2) ==
  (IF 64 * (byte2 \div 64) = 16
     THEN (byte2 % 64) + 64 * byte1
     ELSE (byte2 % 128) + 128 * byte1) - 8192

Question == 63
Utf8(unicode) ==
  CASE unicode = 0 -> <<Question>>
    [] unicode > 0 /\ unicode < 128 -> <<unicode>>
    [] unicode >= 128 /\ unicode <= 2047 -> <<192 + (unicode \div 64), 128 + (unicode % 64)>>
    [] unicode >= 2048 -> <<224 + (unicode \div 4096), 128 + ((unicode \div 64) % 64),
                           128 + (unicode % 64)>>

\* What is put in place of two bytes, of which the first is not ASCII.
Converted(byte1, byte2, table) ==
  IF byte2 \in {127, 255} THEN <<Question>> ELSE Utf8(table[gbk_to_index(byte1, byte2)])

\* What the bytes from each one on are converted to.  A zero byte, or one
\* behind half a character, ends it.
TextFrom(src, beyond, table) ==
  LET n == Len(src)
      Second(k) == IF k = n THEN beyond ELSE src[k + 1]
      from[k \in 1..(n + 2)] ==
        IF k > n \/ (k <= n /\ src[k] = 0) THEN << >>
        ELSE IF src[k] < 128 THEN <<src[k]>> \o from[k + 1]
        ELSE IF Second(k) = 0 THEN <<Question>>
        ELSE Converted(src[k], Second(k), table) \o from[k + 2]
  IN  from

\* The length that the text has with its terminator, and as much of it as
\* there is room for.
gbconv8(src, beyond, room, table) ==
  LET text == TextFrom(src, beyond, table)[1] \o <<0>>
  IN  [len |-> Len(text),
       dst |-> IF Len(text) > room THEN SubSeq(text, 1, room) ELSE text]

\* pr_info_gbk: the buffer it prints as a string, four bytes for each byte.
pr_info_gbk(in, beyond, table) ==
  LET out == gbconv8(in, beyond, 4 * Len(in), table).dst
  IN  out \o [k \in 1..(4 * Len(in) - Len(out)) |-> 0]

=============================================================================
