------------------------------ MODULE RjHashes ------------------------------
(***************************************************************************)
(* The block functions of the RJv3 plugin's SHA-1, RIPEMD-128, Tiger and   *)
(* Whirlpool: rjsha1.c, rjripemd128.c, rjtiger.c and rjwhirlpool.c.  They  *)
(* are the published functions with other initial states and constants and *)
(* with terms added here and there, so only the source says what is right. *)
(*                                                                         *)
(* The substitution boxes of Tiger and of Whirlpool are tables of data:    *)
(* Box(t, byte) stands for either.                                         *)
(***************************************************************************)
EXTENDS Md5, TLC

CONSTANT
  Box(_, _)   \* the word of 64 bits that table t holds for a byte

----------------------------------------------------------------------------
(* SHA-1.  The words of a block are read with the high byte first. *)

Sha1Init == WordTable(<<\h3207, \h5416, \hf8da, \he9bc, \h7354, \h1260,
                        \h8acb, \h9dfe, \hfd0c, \h2e1b>>)

Reversed(bytes) == [k \in DOMAIN bytes |-> bytes[Len(bytes) + 1 - k]]

\* The message schedule W.
Sha1Schedule(block) ==
  LET Word(t) == FromBytes(Reversed(SubSeq(block, 4 * t - 3, 4 * t)))
      upTo[t \in 0..80] ==
        IF t = 0 THEN << >>
        ELSE LET W == upTo[t - 1]
                 Mixed == Xor(Xor(W[t - 3], W[t - 8]), Xor(W[t - 14], W[t - 16]))
             IN  Append(W, IF t <= 16 THEN Word(t) ELSE RotL(32, Mixed, 1))
  IN  upTo[80]

\* The mixing function and the constant of step t, counted from one; the
\* majority is used for one step longer than the published function does.
Sha1Mix(t, b, c, d) ==
  CASE t <= 20 -> Mix(1, b, c, d)
    [] t \in 41..61 -> (b \cap c) \cup (b \cap d) \cup (c \cap d)
    [] OTHER -> Xor(b, Xor(c, d))
Sha1Constant(t) ==
  CASE t <= 20 -> Halves(\ha295, \h5b2c)
    [] t \in 21..40 -> Halves(\h16ae, \h9deb)
    [] t \in 41..61 -> Halves(\hcbfc, \hd1b8)
    [] OTHER -> Halves(\ha32c, \h616d)

\* Steps 21 to 40 add the first byte of the block, and the result one more.
Sha1Block(state, block) ==
  LET W == Sha1Schedule(block)
      Extra(t) == IF t \in 21..40 THEN WordOf(block[1]) ELSE {}
      at[t \in 0..80] ==
        IF t = 0 THEN state
        ELSE LET s == at[t - 1]
                 temp == Add(32, Add3(32, RotL(32, s[1], 5),
                                          Sha1Mix(t, s[2], s[3], s[4]), s[5]),
                                 Add3(32, W[t], Sha1Constant(t), Extra(t)))
             IN  <<temp, s[1], RotL(32, s[2], 30), s[3], s[4]>>
      last == at[80]
  IN  [k \in 1..5 |-> Add3(32, state[k], last[k], IF k = 1 THEN {0} ELSE {})]

----------------------------------------------------------------------------
(* RIPEMD-128: two lines of sixty-four steps over the same block. *)

RipemdInit == WordTable(<<\h1025, \h7436, \ha8bd, \h9cfe,
                          \h9efc, \had8b, \h1237, \h5460>>)

\* The word of the block and the rotation of every step: the four rounds of
\* the left line, then the four of the right line.
RipemdWords == <<
  <<0, 1, 2, 3, 4, 5, 6, 7, 8, 9, 10, 11, 12, 13, 14, 15>>,
  <<7, 4, 13, 1, 10, 6, 15, 3, 12, 0, 9, 5, 2, 14, 11, 8>>,
  <<3, 10, 14, 4, 9, 15, 8, 1, 2, 7, 0, 6, 13, 11, 5, 12>>,
  <<1, 9, 11, 10, 0, 8, 12, 4, 13, 3, 7, 15, 14, 5, 6, 2>>,
  <<5, 14, 7, 0, 9, 2, 11, 4, 13, 6, 15, 8, 1, 10, 3, 12>>,
  <<6, 11, 3, 7, 0, 13, 5, 10, 14, 15, 8, 12, 4, 9, 1, 2>>,
  <<15, 5, 1, 3, 7, 14, 6, 9, 11, 8, 12, 2, 10, 0, 4, 13>>,
  <<8, 6, 4, 1, 3, 11, 15, 0, 5, 12, 2, 13, 9, 7, 10, 14>> >>
RipemdRotations == <<
  <<11, 14, 15, 12, 5, 8, 7, 9, 11, 13, 14, 15, 6, 7, 9, 8>>,
  <<7, 6, 8, 13, 11, 9, 7, 15, 7, 12, 15, 9, 11, 7, 13, 12>>,
  <<11, 13, 6, 7, 14, 9, 13, 15, 14, 8, 13, 6, 5, 12, 7, 5>>,
  <<11, 12, 14, 15, 14, 15, 9, 8, 9, 14, 5, 6, 8, 6, 5, 12>>,
  <<8, 9, 9, 11, 13, 15, 15, 5, 7, 7, 8, 11, 14, 14, 12, 6>>,
  <<9, 13, 15, 7, 12, 8, 9, 11, 7, 7, 12, 7, 6, 15, 13, 11>>,
  <<9, 7, 15, 11, 8, 6, 6, 14, 12, 13, 5, 14, 13, 13, 7, 5>>,
  <<15, 5, 8, 11, 14, 14, 6, 14, 6, 9, 12, 9, 12, 5, 15, 8>> >>

\* The constants of the rounds, and the steps that have one of their own.
RipemdConstants == WordTable(<<0, 2, \h325b, \h99a1, \h1bae, \hd69c, \hbcdc, \hb1f9,
                               \h5a82, \h798a, \h41d4, \h2d5d, \h30ed, \h3f68, 0, 2>>)
RipemdExceptions ==
  LET Own(line) == Halves(\hbcdc, line)
  IN  << <<>>,
         2 :> {1} @@ 8 :> Own(\hb1f9) @@ 10 :> {1} @@ 16 :> {1},
         12 :> Halves(\h325b, \h99a1) @@ 14 :> Own(\hb1fa),
         3 :> Halves(\h325b, \h99a1) @@ 6 :> Own(\hb1fb) @@ 12 :> {1}
           @@ 10 :> Halves(\h1bae, \hd69c) @@ 16 :> Own(\hb1fc),
         7 :> Halves(\h325b, \h99a1) @@ 11 :> Own(\hb1f9) @@ 15 :> Own(\hb1fc),
         7 :> Own(\hb1f9) @@ 8 :> Own(\hb1fd) @@ 15 :> Halves(\h325b, \h99a1),
         7 :> Own(\hb1fe) @@ 10 :> Halves(\h5a82, \h798a)
           @@ 15 :> Halves(\h41d4, \h2d5d),
         2 :> Own(\hb1fe) >>

\* RIPEMD128_R1 to R4; R5 to R8 are the same functions in reverse.
RipemdMix(round, x, y, z) ==
  CASE round \in {1, 8} -> Xor(x, Xor(y, z))
    [] round \in {2, 7} -> (x \cap y) \cup (z \ x)
    [] round \in {3, 6} -> Xor(x \cup Not(32, y), z)
    [] round \in {4, 5} -> (x \cap z) \cup (y \ z)

\* Four rounds from the first one given.
RipemdLine(state, x, first) ==
  LET Constant(round, i) ==
        IF i \in DOMAIN RipemdExceptions[round] THEN RipemdExceptions[round][i]
        ELSE RipemdConstants[round]
      at[t \in 0..64] ==
        IF t = 0 THEN state
        ELSE LET s == at[t - 1]
                 round == first + ((t - 1) \div 16)
                 i == ((t - 1) % 16) + 1
                 sum == Add(32, s[1], Add3(32, RipemdMix(round, s[2], s[3], s[4]),
                              x[RipemdWords[round][i]], Constant(round, i)))
             IN  <<s[4], RotL(32, sum, RipemdRotations[round][i]), s[2], s[3]>>
  IN  at[64]

RipemdBlock(h, block) ==
  LET x == Decode(block)
      left == RipemdLine(h, x, 1)
      right == RipemdLine(h, x, 5)
  IN  <<Add3(32, right[4], left[3], h[2]),
        Add3(32, h[3], left[4], right[1]),
        Add(32, {0}, Add3(32, h[4], left[1], right[2])),
        Add3(32, h[1], left[2], right[3])>>

----------------------------------------------------------------------------
(* Tiger.  A block is eight words of 64 bits, given here as words. *)

\* Multiplication by the small factors of the passes.
Times(x, factor) ==
  CASE factor = 5 -> Add(64, x, ShiftL(64, x, 2))
    [] factor = 7 -> Sub(64, ShiftL(64, x, 3), x)
    [] factor = 9 -> Add(64, x, ShiftL(64, x, 3))

Boxes(c, tables, positions) ==
  LET Of(k) == Box(tables[k], ByteAt(c, positions[k]))
  IN  Xor(Xor(Of(1), Of(2)), Xor(Of(3), Of(4)))

\* round: the roles of a, b and c are given by the order of the triple.
TigerRound(s, order, x, factor) ==
  LET a == order[1]  b == order[2]  c == order[3]
      mixed == Xor(s[c], x)
  IN  [s EXCEPT ![c] = mixed,
                ![a] = Sub(64, @, Boxes(mixed, <<1, 2, 3, 4>>, <<0, 2, 4, 6>>)),
                ![b] = Times(Add(64, @, Boxes(mixed, <<4, 3, 2, 1>>, <<1, 3, 5, 7>>)),
                             factor)]

\* pass: eight rounds, the roles moving on by one each time.
Turned(order) == <<order[2], order[3], order[1]>>
TigerPass(s, order, x, factor) ==
  LET at[t \in 0..8] ==
        IF t = 0 THEN [s |-> s, order |-> order]
        ELSE LET from == at[t - 1]
             IN  [s |-> TigerRound(from.s, from.order, x[t], factor),
                  order |-> Turned(from.order)]
  IN  at[8].s

\* key_schedule.
KeySchedule(x) ==
  LET Comp(w) == Not(64, w)
      y1 == Sub(64, x[1], Xor(x[8], Quarters(\ha5a5, \hb5a5, \ha5a5, \ha7a5)))
      y2 == Xor(x[2], y1)
      y3 == Add(64, x[3], y2)
      y4 == Sub(64, x[4], Xor(y3, ShiftL(64, Comp(y2), 19)))
      y5 == Xor(x[5], y4)
      y6 == Add(64, x[6], y5)
      y7 == Sub(64, x[7], Xor(y6, ShiftR(Comp(y5), 23)))
      y8 == Xor(x[8], y7)
      z1 == Add(64, y1, y8)
      z2 == Sub(64, y2, Xor(z1, ShiftL(64, Comp(y8), 19)))
      z3 == Xor(y3, z2)
      z4 == Add(64, y4, z3)
      z5 == Sub(64, y5, Xor(z4, ShiftR(Comp(z3), 23)))
      z6 == Xor(y6, z5)
      z7 == Add(64, y7, z6)
      z8 == Sub(64, y8, Xor(z7, Quarters(\h0123, \h4567, \h89ab, \hcdef)))
  IN  <<z1, z2, z3, z4, z5, z6, z7, z8>>

FeedForward(s, state) ==
  <<Xor(s[1], state[1]), Sub(64, s[2], state[2]), Add(64, s[3], state[3])>>

\* The block function where CPU_X64 is defined: three passes written out.
TigerBlockX64(state, x) ==
  LET k1 == KeySchedule(x)
      k2 == KeySchedule(k1)
      p1 == TigerPass(state, <<1, 2, 3>>, x, 5)
      p2 == TigerPass(p1, <<3, 1, 2>>, k1, 7)
      p3 == TigerPass(p2, <<2, 3, 1>>, k2, 9)
  IN  FeedForward(p3, state)

\* And where it is not: a loop that moves the three words after each pass.
TigerBlockIA32(state, x) ==
  LET at[i \in 0..3] ==
        IF i = 0 THEN [s |-> state, x |-> x]
        ELSE LET from == at[i - 1]
                 keys == IF i = 1 THEN from.x ELSE KeySchedule(from.x)
                 s == TigerPass(from.s, <<1, 2, 3>>, keys, 3 + 2 * i)
             IN  [s |-> <<s[3], s[1], s[2]>>, x |-> keys]
  IN  FeedForward(at[3].s, state)
----------------------------------------------------------------------------
(* Whirlpool.  The source counts the eight words from zero; its keys and   *)
(* states alternate between two arrays.                                    *)

EightWords(word) == <<word[1], word[2], word[3], word[4], word[5], word[6], word[7], word[8]>>

WhirlpoolInit == EightWords([i \in 1..8 |-> WordOf(<<0, 3, 5, 2, 1, 7, 4, 6>>[i])])

RoundConstants == <<
  Quarters(\h1823, \hc6e8, \h87b8, \h014f), Quarters(\h36a6, \hd2f5, \h796f, \h9152),
  Quarters(\h60bc, \h9b8e, \ha30c, \h7b35), Quarters(\h1de0, \hd7c2, \h2e4b, \hfe57),
  Quarters(\h1577, \h37e5, \h9ff0, \h4ada), Quarters(\h58c9, \h290a, \hb1a0, \h6b85),
  Quarters(\hbd5d, \h10f4, \hcb3e, \h0567), Quarters(\he427, \h418b, \ha77d, \h95d8),
  Quarters(\hfbee, \h7c66, \hdd17, \h479e), Quarters(\hca2d, \hbf07, \had5a, \h8333)>>

\* WHIRLPOOL_OP: table t is looked up with byte t, from the top, of the word
\* t places before.
WhirlpoolOp(src, shift) ==
  LET upTo[t \in 0..8] ==
        IF t = 0 THEN {}
        ELSE Xor(upTo[t - 1], Box(t, ByteAt(src[((shift + 9 - t) % 8) + 1], 8 - t)))
  IN  upTo[8]

\* Three of the words of a state are one more than the published function's.
WhirlpoolRound(from, i) ==
  LET m == from.m
      newK == EightWords([w \in 1..8 |-> Xor(WhirlpoolOp(from.K[m], w - 1),
                                              IF w = 1 THEN RoundConstants[i] ELSE {})])
      newState == EightWords([w \in 1..8 |->
                    Add(64, Xor(WhirlpoolOp(from.state[m], w - 1), newK[w]),
                            IF w \in {3, 6, 7} THEN {0} ELSE {})])
  IN  [K |-> [from.K EXCEPT ![1 - m] = newK],
       state |-> [from.state EXCEPT ![1 - m] = newState],
       m |-> 1 - m]

NumberOfRounds == 10
WhirlpoolBlock(hash, block) ==
  LET first == EightWords([i \in 1..8 |-> Xor(block[i], hash[i])])
      at[i \in 0..NumberOfRounds] ==
        IF i = 0 THEN [K |-> [slot \in 0..1 |-> hash],
                       state |-> [slot \in 0..1 |-> first], m |-> 0]
        ELSE LET from == at[i - 1] IN WhirlpoolRound(from, i)
      last == at[NumberOfRounds].state[0]
  IN  EightWords([i \in 1..8 |-> Xor(first[i], last[i])])

=============================================================================
