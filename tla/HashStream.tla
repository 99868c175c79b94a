----------------------------- MODULE HashStream -----------------------------
(***************************************************************************)
(* How the hash functions of the program cut a message into blocks of 64   *)
(* bytes: the update and final operations of md5.c and of the five hashes  *)
(* of the RJv3 plugin, and the two computations of checkV4.c built on them.*)
(*                                                                         *)
(* A context keeps the length so far, the partial block, whose bytes past  *)
(* that length are whatever was there before, and the sequence of blocks   *)
(* already given to the block function.                                    *)
(***************************************************************************)
EXTENDS Integers, Sequences

Block == 64

\* A new context: the buffer is not cleared.
NewContext(garbage) ==
  [length |-> 0, message |-> [k \in 1..Block |-> garbage], blocks |-> << >>]

\* memcpy(to + index, bytes, Len(bytes)).
Copied(to, index, bytes) ==
  [k \in 1..Block |-> IF k - index \in DOMAIN bytes THEN bytes[k - index] ELSE to[k]]

Zeros(n) == [k \in 1..n |-> 0]
Drop(seq, n) == SubSeq(seq, n + 1, Len(seq))
Take(seq, n) == IF n < Len(seq) THEN SubSeq(seq, 1, n) ELSE seq

\* The whole blocks at the front of a sequence.
WholeBlocks(seq) ==
  [b \in 1..(Len(seq) \div Block) |-> SubSeq(seq, Block * (b - 1) + 1, Block * b)]
Leftover(seq) == Drop(seq, Block * (Len(seq) \div Block))

\* The number of bits in eight bytes, the low byte first or last.
LittleEndian(bits) == [k \in 1..8 |-> IF k > 4 THEN 0 ELSE (bits \div 256^(k - 1)) % 256]
BigEndian(bits) == [k \in 1..8 |-> LittleEndian(bits)[9 - k]]

----------------------------------------------------------------------------
(* md5.c, and RIPEMD-128, which fills the buffer the same way. *)

MD5Update(ctx, input) ==
  LET index == ctx.length % Block
      partLen == Block - index
      full == Copied(ctx.message, index, Take(input, partLen))
      rest == Drop(input, partLen)
  IN  IF Len(input) >= partLen
      THEN [length |-> ctx.length + Len(input),
            message |-> Copied(full, 0, Leftover(rest)),
            blocks |-> Append(ctx.blocks, full) \o WholeBlocks(rest)]
      ELSE [ctx EXCEPT !.length = @ + Len(input),
                       !.message = Copied(@, index, input)]

\* Mutant: no room is made for the length when it just does not fit.
MD5FinalTight(ctx) ==
  LET index == ctx.length % Block
      padLen == IF index <= 56 THEN (56 - index) + 1 ELSE 120 - index
      padded == MD5Update(ctx, SubSeq(<<128>> \o Zeros(63), 1, padLen))
  IN  MD5Update(padded, LittleEndian(8 * ctx.length)).blocks

\* The padding and the length go through update themselves.
MD5Final(ctx) ==
  LET index == ctx.length % Block
      padLen == IF index < 56 THEN 56 - index ELSE 120 - index
      padded == MD5Update(ctx, SubSeq(<<128>> \o Zeros(63), 1, padLen))
  IN  MD5Update(padded, LittleEndian(8 * ctx.length)).blocks

ripemd128_update(ctx, data) == MD5Update(ctx, data)

\* Works on a copy of the context.
ripemd128_finish(ctx) ==
  LET n == ctx.length % Block
      marked == Copied(ctx.message, n, <<128>>)
      last == Copied(IF n < 56 THEN Copied(marked, n + 1, Zeros(55 - n))
                     ELSE Zeros(Block),
                     56, LittleEndian(8 * ctx.length))
  IN  IF n < 56 THEN Append(ctx.blocks, last)
      ELSE ctx.blocks \o <<Copied(marked, n + 1, Zeros(63 - n)), last>>

----------------------------------------------------------------------------
(* The hashes taken from RHash. *)

\* A whole block that is not aligned is copied into the buffer first, which
\* leaves its bytes behind.
RhashUpdate(ctx, msg, aligned) ==
  LET index == ctx.length % Block
      left == Block - index
      filled == Copied(ctx.message, index, Take(msg, left))
      rest == IF index = 0 THEN msg ELSE Drop(msg, left)
      whole == WholeBlocks(rest)
      begun == IF index = 0 THEN ctx.blocks ELSE Append(ctx.blocks, filled)
      kept == IF whole # << >> /\ ~aligned THEN whole[Len(whole)]
              ELSE IF index = 0 THEN ctx.message ELSE filled
  IN  IF index # 0 /\ Len(msg) < left
      THEN [ctx EXCEPT !.length = @ + Len(msg), !.message = filled]
      ELSE [length |-> ctx.length + Len(msg),
            message |-> Copied(kept, 0, Leftover(rest)),
            blocks |-> begun \o whole]

rhash_md5_update(ctx, msg, aligned) == RhashUpdate(ctx, msg, aligned)
rhash_sha1_update(ctx, msg, aligned) == RhashUpdate(ctx, msg, aligned)
rhash_tiger_update(ctx, msg, aligned) == RhashUpdate(ctx, msg, aligned)
rhash_whirlpool_update(ctx, msg, aligned) == RhashUpdate(ctx, msg, aligned)

\* The mark at index, zeros to the end of its group of bytes, a block of its
\* own when the groups pass the room, and the length in the last eight bytes.
RhashFinal(ctx, mark, group, room, length) ==
  LET index == ctx.length % Block
      after == group * ((index + group) \div group)
      marked == Copied(ctx.message, index, <<mark>> \o Zeros(after - index - 1))
      Ended(from, at) == Copied(Copied(from, at, Zeros(56 - at)), 56, length)
  IN  IF after > room
      THEN ctx.blocks \o <<Copied(marked, after, Zeros(Block - after)),
                           Ended(marked, 0)>>
      ELSE Append(ctx.blocks, Ended(marked, after))

rhash_md5_final(ctx) == RhashFinal(ctx, 128, 4, 56, LittleEndian(8 * ctx.length))
rhash_sha1_final(ctx) == RhashFinal(ctx, 128, 4, 56, BigEndian(8 * ctx.length))
\* tiger2 is never set.
rhash_tiger_final(ctx) == RhashFinal(ctx, 1, 1, 56, LittleEndian(8 * ctx.length))
\* Only the last eight bytes of the 256-bit length are stored, but the room
\* is kept for all of them.
rhash_whirlpool_final(ctx) == RhashFinal(ctx, 128, 1, 32, BigEndian(8 * ctx.length))

\* The blocks each function hashes for a message given in chunks.
HashNames == {"md5", "rjmd5", "sha1", "ripemd128", "tiger", "whirlpool"}

Update(name, ctx, chunk, aligned) ==
  CASE name = "md5" -> MD5Update(ctx, chunk)
    [] name = "ripemd128" -> ripemd128_update(ctx, chunk)
    [] name = "rjmd5" -> rhash_md5_update(ctx, chunk, aligned)
    [] name = "sha1" -> rhash_sha1_update(ctx, chunk, aligned)
    [] name = "tiger" -> rhash_tiger_update(ctx, chunk, aligned)
    [] name = "whirlpool" -> rhash_whirlpool_update(ctx, chunk, aligned)

Final(name, ctx) ==
  CASE name = "md5" -> MD5Final(ctx)
    [] name = "ripemd128" -> ripemd128_finish(ctx)
    [] name = "rjmd5" -> rhash_md5_final(ctx)
    [] name = "sha1" -> rhash_sha1_final(ctx)
    [] name = "tiger" -> rhash_tiger_final(ctx)
    [] name = "whirlpool" -> rhash_whirlpool_final(ctx)

Contexts(name, chunks, aligned, garbage) ==
  LET ctx[k \in 0..Len(chunks)] ==
        IF k = 0 THEN NewContext(garbage)
        ELSE Update(name, ctx[k - 1], chunks[k], aligned)
  IN  ctx

HashedBlocks(name, chunks, aligned, garbage) ==
  Final(name, Contexts(name, chunks, aligned, garbage)[Len(chunks)])

\* What they should be: a message by the definition of padding is followed by a
\* mark, zeros, and the length at the end of a block, in a field of eight or
\* 32 bytes.
PaddedBlocks(name, m) ==
  LET n == Len(m)
      mark == IF name = "tiger" THEN 1 ELSE 128
      room == IF name = "whirlpool" THEN 32 ELSE 8
      total == Block * ((n + room + Block) \div Block)
      length == IF name \in {"sha1", "whirlpool"} THEN BigEndian(8 * n) ELSE LittleEndian(8 * n)
  IN  WholeBlocks(m \o <<mark>> \o Zeros(total - n - 9) \o length)

\* ComputeHash: one update over the whole of its input.
ComputeHash(src) == HashedBlocks("md5", <<src>>, TRUE, 255)

----------------------------------------------------------------------------
(* checkV4.c.  A digest or a byte of the seed is a tuple that names it.    *)

DigestBytes(name, table, n) == [i \in 1..n |-> <<name, table, i>>]

\* %02x of an unsigned byte is two digits; of a signed one it is eight when
\* the byte is negative.
HexOf(byte, digits) == [i \in 1..digits |-> <<byte, i>>]
FlatHex(bytes, digits) ==
  LET upTo[k \in 0..Len(bytes)] ==
        IF k = 0 THEN << >> ELSE upTo[k - 1] \o HexOf(bytes[k], digits[k])
  IN  upTo[Len(bytes)]

Signed(byte) == IF byte < 128 THEN byte ELSE byte - 256

\* The sum of two signed bytes, converted to unsigned, modulo 5: 2^32 leaves 1.
V4CheckType(s) ==
  LET sum == Signed(s[1]) + Signed(s[4])
  IN  IF sum < 0 THEN (sum + 1) % 5 ELSE sum % 5

\* What computeV4 gives to Whirlpool for a seed of sixteen bytes.
V4Input(s) ==
  LET seed == [i \in 1..16 |-> <<"seed", i>>]
      Md5Hex(table) == FlatHex(DigestBytes("rjmd5", table, 16), [k \in 1..16 |-> 2])
      EveryOther(first) == [k \in 1..8 |-> seed[2 * k - 2 + first]]
      SeedHex(first) == FlatHex(EveryOther(first),
                          [k \in 1..8 |-> IF s[2 * k - 2 + first] < 128 THEN 2 ELSE 8])
  IN  CASE V4CheckType(s) = 0 ->
             SubSeq(Md5Hex("array") \o SeedHex(1) \o Md5Hex("array_1") \o SeedHex(2),
                    1, 96)
        [] V4CheckType(s) = 1 ->
             DigestBytes("sha1", "array_1", 20) \o SubSeq(seed, 1, 6)
               \o DigestBytes("sha1", "array", 20) \o SubSeq(seed, 7, 16)
        [] V4CheckType(s) = 2 ->
             DigestBytes("sha1", "array_1", 20) \o SubSeq(seed, 1, 6)
               \o DigestBytes("ripemd128", "array", 16) \o SubSeq(seed, 7, 16)
        [] V4CheckType(s) = 3 ->
             DigestBytes("tiger", "array", 24) \o SubSeq(seed, 1, 10)
               \o DigestBytes("ripemd128", "array_1", 16) \o SubSeq(seed, 11, 16)
        [] V4CheckType(s) = 4 ->
             DigestBytes("tiger", "array_1", 24) \o SubSeq(seed, 1, 8)
               \o DigestBytes("sha1", "array", 20) \o SubSeq(seed, 9, 16)

computeV4(s) ==
  FlatHex(DigestBytes("whirlpool", V4Input(s), 64), [k \in 1..64 |-> 2])

\* Sixteen bytes: the hash of the user name and the challenge, masked with the
\* password padded with zeros; what a longer password has beyond is unused.
computePwd(md5, username, password) ==
  LET hash == DigestBytes("md5", username \o md5, 16)
      mask == SubSeq(password \o Zeros(16), 1, 16)
  IN  [i \in 1..16 |-> <<hash[i], mask[i]>>]

=============================================================================
