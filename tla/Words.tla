------------------------------- MODULE Words -------------------------------
(***************************************************************************)
(* Machine words of n bits as the sets of the positions of their one bits: *)
(* what the hash functions and the byte order helpers compute with.        *)
(* Bitwise "and" and "or" are \cap and \cup.                               *)
(***************************************************************************)
EXTENDS Integers, Sequences

Positions(n) == 0..(n - 1)

\* The word of a number below 2^31, and of a number given in 16-bit halves.
WordOf(k) == {i \in 0..30 : (k \div 2^i) % 2 = 1}
Halves(hi, lo) == WordOf(lo) \cup {i + 16 : i \in WordOf(hi)}
Quarters(a, b, c, d) == Halves(c, d) \cup {i + 32 : i \in Halves(a, b)}

\* The words written as pairs of halves in a flat sequence.
WordTable(halves) ==
  [i \in 1..(Len(halves) \div 2) |-> Halves(halves[2 * i - 1], halves[2 * i])]

Not(n, x) == Positions(n) \ x
Xor(x, y) == (x \ y) \cup (y \ x)

\* ROTATE_LEFT, ROTL32, ROL; << and >> drop what leaves the word.
RotL(n, x, s) == {(i + s) % n : i \in x}
ShiftL(n, x, s) == {i + s : i \in x} \cap Positions(n)
ShiftR(x, s) == {i - s : i \in {j \in x : j >= s}}

\* Addition modulo 2^n: a carry reaches a position from the nearest place
\* below it where one is generated and from which it is propagated.
Add(n, x, y) ==
  LET Carried(i) == \E j \in x \cap y :
                      j < i /\ \A k \in (j + 1)..(i - 1) : k \in x \cup y
  IN  Xor(Xor(x, y), {i \in Positions(n) : Carried(i)})

Add3(n, x, y, z) == Add(n, x, Add(n, y, z))
Sub(n, x, y) == Add3(n, x, Not(n, y), {0})

\* Bytes of a word, the least significant first, and the word of such bytes.
ByteAt(x, k) == {i - 8 * k : i \in {j \in x : j \div 8 = k}}
ByteValue(b) ==
  LET value[i \in 0..8] == IF i = 0 THEN 0
                           ELSE value[i - 1] + (IF i - 1 \in b THEN 2^(i - 1) ELSE 0)
  IN  value[8]
BytesOf(n, x) == [k \in 1..(n \div 8) |-> ByteValue(ByteAt(x, k - 1))]
FromBytes(bytes) ==
  UNION {{i + 8 * (k - 1) : i \in WordOf(bytes[k])} : k \in DOMAIN bytes}

=============================================================================
