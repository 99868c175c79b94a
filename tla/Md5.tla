-------------------------------- MODULE Md5 --------------------------------
(***************************************************************************)
(* The MD5 of md5.c, which answers the server's challenges, and the one of *)
(* rjmd5.c, the plugin's own variant of it.  Both run the same sixty-four  *)
(* operations; the variant starts from another state, changes six of the   *)
(* additive constants, adds a byte of the block in one operation and a     *)
(* small number after every rotation.                                      *)
(*                                                                         *)
(* A block is a sequence of sixty-four bytes, a state one of four words.   *)
(***************************************************************************)
EXTENDS Words

\* The first four words of a state, and of the plugin's.
Md5Init == WordTable(<<\h6745, \h2301, \hefcd, \hab89,
                       \h98ba, \hdcfe, \h1032, \h5476>>)
RjMd5Init == WordTable(<<\h5013, \h7246, \h8acf, \h9dbe,
                         \hc9ef, \haced, \h2564, \h7013>>)

\* The additive constants, in the order of the operations.
Md5Constants == WordTable(<<
  \hd76a, \ha478, \he8c7, \hb756, \h2420, \h70db, \hc1bd, \hceee,
  \hf57c, \h0faf, \h4787, \hc62a, \ha830, \h4613, \hfd46, \h9501,
  \h6980, \h98d8, \h8b44, \hf7af, \hffff, \h5bb1, \h895c, \hd7be,
  \h6b90, \h1122, \hfd98, \h7193, \ha679, \h438e, \h49b4, \h0821,
  \hf61e, \h2562, \hc040, \hb340, \h265e, \h5a51, \he9b6, \hc7aa,
  \hd62f, \h105d, \h0244, \h1453, \hd8a1, \he681, \he7d3, \hfbc8,
  \h21e1, \hcde6, \hc337, \h07d6, \hf4d5, \h0d87, \h455a, \h14ed,
  \ha9e3, \he905, \hfcef, \ha3f8, \h676f, \h02d9, \h8d2a, \h4c8a,
  \hfffa, \h3942, \h8771, \hf681, \h6d9d, \h6122, \hfde5, \h380c,
  \ha4be, \hea44, \h4bde, \hcfa9, \hf6bb, \h4b60, \hbebf, \hbc70,
  \h289b, \h7ec6, \heaa1, \h27fa, \hd4ef, \h3085, \h0488, \h1d05,
  \hd9d4, \hd039, \he6db, \h99e5, \h1fa2, \h7cf8, \hc4ac, \h5665,
  \hf429, \h2244, \h432a, \hff97, \hab94, \h23a7, \hfc93, \ha039,
  \h655b, \h59c3, \h8f0c, \hcc92, \hffef, \hf47d, \h8584, \h5dd1,
  \h6fa8, \h7e4f, \hfe2c, \he6e0, \ha301, \h4314, \h4e08, \h11a1,
  \hf753, \h7e82, \hbd3a, \hf235, \h2ad7, \hd2bb, \heb86, \hd391>>)

\* The constants of the variant differ in six places, counted from one.
RjMd5Constants ==
  [Md5Constants EXCEPT ![14] = Halves(\hfd98, \h7163),
                       ![22] = Halves(\h0244, \h2453),
                       ![33] = Halves(\hfffa, \h3492),
                       ![53] = Halves(\h6556, \h59c3),
                       ![62] = Halves(\hbd3a, \hf335),
                       ![64] = Halves(\heb86, \h6391)]

Rotations == <<<<7, 12, 17, 22>>, <<5, 9, 14, 20>>,
               <<4, 11, 16, 23>>, <<6, 10, 15, 21>>>>
RjRotations == <<<<7, 12, 17, 22>>, <<5, 9, 14, 20>>,
                 <<5, 11, 16, 23>>, <<6, 10, 15, 19>>>>

\* F, G, H and I, by round.
Mix(round, x, y, z) ==
  CASE round = 1 -> (x \cap y) \cup (z \ x)
    [] round = 2 -> (x \cap z) \cup (y \ z)
    [] round = 3 -> Xor(x, Xor(y, z))
    [] round = 4 -> Xor(y, x \cup Not(32, z))

\* The word of the block that operation i of its round takes.
Taken(round, i) ==
  CASE round = 1 -> i
    [] round = 2 -> (5 * i + 1) % 16
    [] round = 3 -> (3 * i + 5) % 16
    [] round = 4 -> (7 * i) % 16

Decode(block) ==
  [k \in 0..15 |-> FromBytes(SubSeq(block, 4 * k + 1, 4 * k + 4))]
Encode(state) ==
  [j \in 1..16 |-> BytesOf(32, state[((j - 1) \div 4) + 1])[((j - 1) % 4) + 1]]

\* One FF, GG, HH or II: the rotated sum enters the state, which turns.
Operation(state, round, taken, constant, rotation, after) ==
  LET a == state[1]  b == state[2]  c == state[3]  d == state[4]
      sum == Add(32, a, Add3(32, Mix(round, b, c, d), taken, constant))
  IN  <<d, Add(32, after, Add(32, b, RotL(32, sum, rotation))), b, c>>

\* The sixty-four operations on a block, then the feed-forward.
Rounds(state, input, constants, rotations, after) ==
  LET at[t \in 0..64] ==
        IF t = 0 THEN state
        ELSE LET round == ((t - 1) \div 16) + 1
             IN  Operation(at[t - 1], round, input[t], constants[t],
                           rotations[round][((t - 1) % 4) + 1], after[round])
  IN  [k \in 1..4 |-> Add(32, state[k], at[64][k])]

MD5Transform(state, block) ==
  LET x == Decode(block)
      input == [t \in 1..64 |-> x[Taken(((t - 1) \div 16) + 1, (t - 1) % 16)]]
  IN  Rounds(state, input, Md5Constants, Rotations, [round \in 1..4 |-> {}])

\* The variant adds 2, -2, -1 and 1 after the rotations of its rounds, and in
\* operation 44 the second byte of the third word of the block.
RjMd5Transform(state, block) ==
  LET x == Decode(block)
      Word(t) == x[Taken(((t - 1) \div 16) + 1, (t - 1) % 16)]
      input == [t \in 1..64 |->
                 IF t = 44 THEN Add(32, Word(t), ByteAt(x[2], 1)) ELSE Word(t)]
  IN  Rounds(state, input, RjMd5Constants, RjRotations,
             <<{1}, Not(32, {0}), Positions(32), {0}>>)

=============================================================================
