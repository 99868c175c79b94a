-------------------------- MODULE HashStreamProofs --------------------------
(***************************************************************************)
(* The update and final operations of md5.c and of the five hashes of the  *)
(* RJv3 plugin hash the padded message, for messages of every length, cut  *)
(* into any number of pieces at any places: the streaming of HashStream    *)
(* against PaddedBlocks, which pads the message as a whole.                *)
(*                                                                         *)
(* The invariant is Follows: a context has hashed the whole blocks of what *)
(* it was given, and its buffer begins with the bytes left over.  What the *)
(* number of pieces repeats is proved by the least number of pieces for    *)
(* which it would fail.                                                    *)
(*                                                                         *)
(* Several conclusions are given a name (EndsBlock, Regrouped...) so that  *)
(* they can be cited without the provers taking them apart.                *)
(***************************************************************************)
EXTENDS HashStream, SequenceTheorems, WellFoundedInduction, TLAPS

\* The buffer begins with the bytes.
Begins(buf, s) == Len(s) <= Block /\ \A k \in 1..Len(s) : buf[k] = s[k]

\* memcpy behind what the buffer begins with.
LEMMA CopiedBegins ==
  ASSUME NEW S, NEW s \in Seq(S), NEW t \in Seq(S), NEW buf,
         Begins(buf, s), Len(s) + Len(t) <= Block
  PROVE  Begins(Copied(buf, Len(s), t), s \o t)
  <1>1. /\ Len(s) \in Nat /\ Len(t) \in Nat /\ DOMAIN t = 1..Len(t)
        /\ Len(s \o t) = Len(s) + Len(t)
    BY ConcatProperties, LenProperties
  <1>2. ASSUME NEW k \in 1..Len(s \o t)
        PROVE  Copied(buf, Len(s), t)[k] = (s \o t)[k]
    <2>1. k \in 1..Block /\ k \in 1..(Len(s) + Len(t)) /\ k \in Nat
      BY <1>1, <1>2 DEF Block
    <2>2. (s \o t)[k] = IF k <= Len(s) THEN s[k] ELSE t[k - Len(s)]
      BY <2>1, ConcatProperties
    <2>3. Copied(buf, Len(s), t)[k] = IF k - Len(s) \in DOMAIN t THEN t[k - Len(s)] ELSE buf[k]
      BY <2>1 DEF Copied
    <2>4. CASE k <= Len(s)
      BY <1>1, <2>1, <2>2, <2>3, <2>4 DEF Begins
    <2>5. CASE ~(k <= Len(s))
      BY <1>1, <2>1, <2>2, <2>3, <2>5
    <2> QED
      BY <2>4, <2>5
  <1> QED
    BY <1>1, <1>2 DEF Begins

\* A full buffer is the bytes.
LEMMA FullBuffer ==
  ASSUME NEW S, NEW s \in Seq(S), NEW buf, NEW index, NEW bytes,
         Len(s) = Block, Begins(Copied(buf, index, bytes), s)
  PROVE  Copied(buf, index, bytes) = s
  <1>1. s = [k \in 1..Block |-> s[k]]
    BY LenProperties
  <1>2. \A k \in 1..Block : Copied(buf, index, bytes)[k] = s[k]
    BY DEF Begins
  <1> QED
    BY <1>1, <1>2 DEF Copied

\* Division by the size of a block.
LEMMA DivMod ==
  ASSUME NEW n \in Nat
  PROVE  /\ n \div Block \in Nat
         /\ n % Block \in 0..(Block - 1)
         /\ n = Block * (n \div Block) + (n % Block)
  <1>1. n \div 64 \in Nat
    OBVIOUS
  <1>2. n % 64 \in 0..63
    OBVIOUS
  <1>3. n = 64 * (n \div 64) + (n % 64)
    OBVIOUS
  <1> QED
    BY <1>1, <1>2, <1>3 DEF Block

\* A quotient and a remainder are the quotient and the remainder.
LEMMA DivIsUnique ==
  ASSUME NEW q \in Nat, NEW r \in 0..(Block - 1)
  PROVE  (Block * q + r) \div Block = q /\ (Block * q + r) % Block = r
  BY DEF Block

\* Whole blocks in front only add to the quotient.
LEMMA Quotient ==
  ASSUME NEW q \in Nat, NEW n \in Nat
  PROVE  /\ (Block * q + n) \div Block = q + n \div Block
         /\ (Block * q + n) % Block = n % Block
  <1> DEFINE p == n \div Block
             r == n % Block
  <1>1. p \in Nat /\ r \in 0..(Block - 1) /\ n = Block * p + r
    BY DivMod
  <1> HIDE DEF p, r
  <1>2. q + p \in Nat
    BY <1>1
  <1>3. Block * q + n = Block * (q + p) + r
    BY <1>1 DEF Block
  <1>4. (Block * q + n) \div Block = q + p /\ (Block * q + n) % Block = r
    BY <1>1, <1>2, <1>3, DivIsUnique
  <1> QED
    BY <1>4 DEF p, r

\* The blocks of a message are as many as fit, in order.
LEMMA WholeBlocksFacts ==
  ASSUME NEW S, NEW m \in Seq(S)
  PROVE  /\ WholeBlocks(m) \in Seq(Seq(S))
         /\ Len(WholeBlocks(m)) = Len(m) \div Block
         /\ \A b \in 1..(Len(m) \div Block) :
              WholeBlocks(m)[b] = SubSeq(m, Block * (b - 1) + 1, Block * b)
  <1> DEFINE n == Len(m) \div Block
  <1>1. Len(m) \in Nat /\ n \in Nat /\ Block * n <= Len(m)
    BY DivMod, LenProperties DEF Block
  <1>2. ASSUME NEW b \in 1..n
        PROVE  SubSeq(m, Block * (b - 1) + 1, Block * b) \in Seq(S)
    <2>1. /\ Block * (b - 1) + 1 \in Int /\ Block * b \in Int
          /\ \A i \in Block * (b - 1) + 1..Block * b : i \in 1..Len(m)
      BY <1>1, <1>2 DEF Block
    <2>2. \A i \in Block * (b - 1) + 1..Block * b : m[i] \in S
      BY <2>1, ElementOfSeq
    <2> QED
      BY <2>1, <2>2, SubSeqProperties
  <1> HIDE DEF n
  <1>3. WholeBlocks(m) = [b \in 1..n |-> SubSeq(m, Block * (b - 1) + 1, Block * b)]
    BY DEF WholeBlocks, n
  <1>4. WholeBlocks(m) \in [1..n -> Seq(S)]
    BY <1>2, <1>3
  <1>5. WholeBlocks(m) \in Seq(Seq(S)) /\ Len(WholeBlocks(m)) = n
    BY <1>1, <1>4
  <1> QED
    BY <1>3, <1>5 DEF n

\* A block, and a rest, of the second of two sequences.
LEMMA BlockBehind ==
  ASSUME NEW S, NEW a \in Seq(S), NEW b \in Seq(S), NEW p \in Nat, NEW i \in Nat,
         Len(a) = Block * p, p < i, Block * (i - p) <= Len(b)
  PROVE  SubSeq(a \o b, Block * (i - 1) + 1, Block * i)
           = SubSeq(b, Block * ((i - p) - 1) + 1, Block * (i - p))
  BY DEF Block

\* What is left of the second of two sequences is left of both.
LEMMA RestBehind ==
  ASSUME NEW S, NEW a \in Seq(S), NEW b \in Seq(S), NEW p \in Nat, NEW q \in Nat,
         Len(a) = Block * p, Block * q <= Len(b)
  PROVE  SubSeq(a \o b, Block * (p + q) + 1, Len(a \o b))
           = SubSeq(b, Block * q + 1, Len(b))
  BY DEF Block

\* A message that begins with whole blocks is cut like its two parts.
LEMMA CutAtBlock ==
  ASSUME NEW S, NEW a \in Seq(S), NEW b \in Seq(S), NEW p \in Nat, NEW q \in Nat,
         Len(a) = Block * p, Len(b) \div Block = q
  PROVE  /\ WholeBlocks(a \o b) = WholeBlocks(a) \o WholeBlocks(b)
         /\ Leftover(a \o b) = Leftover(b)
  <1>1. /\ Len(a) \in Nat /\ Len(b) \in Nat
        /\ Block * q <= Len(b)
    BY LenProperties, DivMod DEF Block
  <1>2. Len(a \o b) = Block * p + Len(b) /\ a \o b \in Seq(S)
    BY <1>1, ConcatProperties
  <1>3. Len(a \o b) \div Block = p + q /\ Len(a) \div Block = p
    BY <1>1, <1>2, Quotient, DivIsUnique DEF Block
  <1> DEFINE left == WholeBlocks(a \o b)
             right == WholeBlocks(a) \o WholeBlocks(b)
  <1>4. /\ left \in Seq(Seq(S)) /\ Len(left) = p + q
        /\ right \in Seq(Seq(S)) /\ Len(right) = p + q
    <2>1. left \in Seq(Seq(S)) /\ Len(left) = p + q
      BY <1>2, <1>3, WholeBlocksFacts
    <2>2. /\ WholeBlocks(a) \in Seq(Seq(S)) /\ Len(WholeBlocks(a)) = p
          /\ WholeBlocks(b) \in Seq(Seq(S)) /\ Len(WholeBlocks(b)) = q
      BY <1>3, WholeBlocksFacts
    <2> QED
      BY <2>1, <2>2, ConcatProperties
  <1>5. ASSUME NEW i \in 1..(p + q)
        PROVE  left[i] = right[i]
    <2>1. left[i] = SubSeq(a \o b, Block * (i - 1) + 1, Block * i)
      BY <1>2, <1>3, <1>5, WholeBlocksFacts
    <2>2. right[i] = IF i <= p THEN WholeBlocks(a)[i] ELSE WholeBlocks(b)[i - p]
      BY <1>3, <1>5, WholeBlocksFacts, ConcatProperties
    <2>3. CASE i <= p
      <3>1. i \in 1..p /\ Block * (i - 1) + 1 \in 1..Len(a) /\ Block * i \in 1..Len(a)
        BY <1>1, <1>5, <2>3 DEF Block
      <3>2. SubSeq(a \o b, Block * (i - 1) + 1, Block * i)
              = SubSeq(a, Block * (i - 1) + 1, Block * i)
        BY <3>1, SubSeqOfConcat1
      <3> QED
        BY <1>3, <2>1, <2>2, <2>3, <3>1, <3>2, WholeBlocksFacts
    <2>4. CASE ~(i <= p)
      <3>1. i - p \in 1..q /\ i \in Nat /\ p < i /\ Block * (i - p) <= Len(b)
        BY <1>1, <1>5, <2>4 DEF Block
      <3>2. SubSeq(a \o b, Block * (i - 1) + 1, Block * i)
              = SubSeq(b, Block * ((i - p) - 1) + 1, Block * (i - p))
        BY <1>1, <3>1, BlockBehind DEF Block
      <3> QED
        BY <2>1, <2>2, <2>4, <3>1, <3>2, WholeBlocksFacts
    <2> QED
      BY <2>3, <2>4
  <1>6. left = right
    <2> HIDE DEF left, right
    <2> QED
      BY <1>4, <1>5, SeqEqual
  <1>7. Leftover(a \o b) = Leftover(b)
    <2>1. Leftover(a \o b) = SubSeq(a \o b, Block * (p + q) + 1, Len(a \o b))
      BY <1>3 DEF Leftover, Drop
    <2>2. Leftover(b) = SubSeq(b, Block * q + 1, Len(b))
      BY DEF Leftover, Drop
    <2>3. SubSeq(a \o b, Block * (p + q) + 1, Len(a \o b))
            = SubSeq(b, Block * q + 1, Len(b))
      BY <1>1, RestBehind DEF Block
    <2> QED
      BY <2>1, <2>2, <2>3
  <1> QED
    BY <1>6, <1>7

\* The same, said with the remainder.
LEMMA BlocksOfConcat ==
  ASSUME NEW S, NEW a \in Seq(S), NEW b \in Seq(S), Len(a) % Block = 0
  PROVE  /\ WholeBlocks(a \o b) = WholeBlocks(a) \o WholeBlocks(b)
         /\ Leftover(a \o b) = Leftover(b)
  <1>1. Len(a) \in Nat /\ Len(b) \in Nat
    BY LenProperties
  <1>2. /\ Len(a) \div Block \in Nat /\ Len(b) \div Block \in Nat
        /\ Len(a) = Block * (Len(a) \div Block) + (Len(a) % Block)
    BY <1>1, DivMod
  <1>3. PICK p \in Nat, q \in Nat : Len(a) = Block * p /\ Len(b) \div Block = q
    BY <1>1, <1>2 DEF Block
  <1> QED
    BY <1>3, CutAtBlock

\* What is shorter than a block has none; what is as long is one.
LEMMA BlocksOfShort ==
  ASSUME NEW S, NEW s \in Seq(S)
  PROVE  /\ Len(s) < Block => WholeBlocks(s) = << >> /\ Leftover(s) = s
         /\ Len(s) = Block => WholeBlocks(s) = <<s>> /\ Leftover(s) = << >>
  <1>1. Len(s) \in Nat
    BY LenProperties
  <1>2. CASE Len(s) < Block
    <2>1. Len(s) \div Block = 0
      BY <1>1, <1>2 DEF Block
    <2>2. WholeBlocks(s) = << >>
      BY <2>1, WholeBlocksFacts, EmptySeq
    <2>3. Leftover(s) = SubSeq(s, 1, Len(s))
      BY <2>1 DEF Leftover, Drop, Block
    <2> QED
      BY <1>2, <2>2, <2>3, SubSeqFull
  <1>3. CASE Len(s) = Block
    <2>1. Len(s) \div Block = 1
      BY <1>3 DEF Block
    <2>2. WholeBlocks(s) \in Seq(Seq(S)) /\ Len(WholeBlocks(s)) = 1
      BY <2>1, WholeBlocksFacts
    <2>3. WholeBlocks(s)[1] = SubSeq(s, 1, Len(s))
      <3>1. WholeBlocks(s)[1] = SubSeq(s, Block * (1 - 1) + 1, Block * 1)
        BY <2>1, WholeBlocksFacts
      <3> QED
        BY <1>3, <3>1 DEF Block
    <2>4. WholeBlocks(s)[1] = s
      BY <2>3, SubSeqFull
    <2>5. Leftover(s) = SubSeq(s, Block + 1, Block)
      BY <1>3, <2>1 DEF Leftover, Drop, Block
    <2>6. Leftover(s) = << >>
      BY <2>5, SubSeqEmpty DEF Block
    <2> QED
      BY <1>3, <2>2, <2>4, <2>6 DEF Block
  <1> QED
    BY <1>2, <1>3 DEF Block

\* A sequence is its front and what follows.
LEMMA SplitAt ==
  ASSUME NEW S, NEW m \in Seq(S), NEW k \in Nat, k <= Len(m)
  PROVE  /\ m = SubSeq(m, 1, k) \o SubSeq(m, k + 1, Len(m))
         /\ SubSeq(m, 1, k) \in Seq(S) /\ Len(SubSeq(m, 1, k)) = k
         /\ SubSeq(m, k + 1, Len(m)) \in Seq(S)
         /\ Len(SubSeq(m, k + 1, Len(m))) = Len(m) - k
  <1>1. Len(m) \in Nat
    BY LenProperties
  <1>2. k \in 1 - 1..Len(m) /\ 1 \in 1..Len(m) + 1 /\ Len(m) \in k..Len(m)
    BY <1>1
  <1>3. SubSeq(m, 1, k) \o SubSeq(m, k + 1, Len(m)) = SubSeq(m, 1, Len(m))
    BY <1>2, ConcatAdjacentSubSeq
  <1>4. m = SubSeq(m, 1, k) \o SubSeq(m, k + 1, Len(m))
    BY <1>3, SubSeqFull
  <1>5. /\ SubSeq(m, 1, k) \in Seq(S) /\ Len(SubSeq(m, 1, k)) = k
        /\ SubSeq(m, k + 1, Len(m)) \in Seq(S)
        /\ Len(SubSeq(m, k + 1, Len(m))) = Len(m) - k
    BY <1>1
  <1> QED
    BY <1>4, <1>5

\* A message is its whole blocks and its leftover.
LEMMA MessageSplits ==
  ASSUME NEW S, NEW m \in Seq(S)
  PROVE  \E a \in Seq(S) :
           /\ Len(a) % Block = 0
           /\ m = a \o Leftover(m)
           /\ WholeBlocks(a) = WholeBlocks(m)
           /\ Leftover(m) \in Seq(S)
           /\ Len(Leftover(m)) = Len(m) % Block
  <1>1. Len(m) \in Nat
    BY LenProperties
  <1>2. PICK p \in Nat, r \in 0..(Block - 1) :
          /\ Len(m) \div Block = p /\ Len(m) % Block = r
          /\ Len(m) = Block * p + r
    BY <1>1, DivMod
  <1>3. PICK k \in Nat : k = Block * p /\ k <= Len(m) /\ Len(m) - k = r
    BY <1>1, <1>2 DEF Block
  <1> DEFINE a == SubSeq(m, 1, k)
  <1>4. Leftover(m) = SubSeq(m, k + 1, Len(m))
    BY <1>2, <1>3 DEF Leftover, Drop
  <1>5. a \in Seq(S) /\ Len(a) = Block * p
    BY <1>3, SplitAt
  <1>6. /\ m = a \o Leftover(m)
        /\ Leftover(m) \in Seq(S) /\ Len(Leftover(m)) = r
    <2>1. m = SubSeq(m, 1, k) \o SubSeq(m, k + 1, Len(m))
      BY <1>3, SplitAt
    <2>2. /\ SubSeq(m, k + 1, Len(m)) \in Seq(S)
          /\ Len(SubSeq(m, k + 1, Len(m))) = r
      BY <1>3, SplitAt
    <2> QED
      BY <1>4, <2>1, <2>2
  <1> HIDE DEF a
  <1>7. Len(a) % Block = 0
    BY <1>5 DEF Block
  <1>8. WholeBlocks(Leftover(m)) = << >>
    BY <1>2, <1>6, BlocksOfShort DEF Block
  <1>9. WholeBlocks(m) = WholeBlocks(a)
    <2>1. WholeBlocks(a \o Leftover(m)) = WholeBlocks(a) \o WholeBlocks(Leftover(m))
      BY <1>5, <1>6, <1>7, BlocksOfConcat
    <2>2. WholeBlocks(a) \in Seq(Seq(S)) /\ WholeBlocks(a) \o << >> = WholeBlocks(a)
      BY <1>5, WholeBlocksFacts, ConcatEmptySeq
    <2> QED
      BY <1>6, <1>8, <2>1, <2>2
  <1> QED
    BY <1>2, <1>5, <1>6, <1>7, <1>9

\* Bytes that do not fill the block only lengthen the leftover.
LEMMA AppendPart ==
  ASSUME NEW S, NEW m \in Seq(S), NEW t \in Seq(S), (Len(m) % Block) + Len(t) < Block
  PROVE  /\ WholeBlocks(m \o t) = WholeBlocks(m)
         /\ Leftover(m \o t) = Leftover(m) \o t
  <1>1. PICK a \in Seq(S), l \in Seq(S) :
           /\ Len(a) % Block = 0 /\ m = a \o l /\ l = Leftover(m)
           /\ WholeBlocks(a) = WholeBlocks(m)
           /\ Len(l) = Len(m) % Block
    BY MessageSplits
  <1>2. PICK b : b = l \o t
    OBVIOUS
  <1>3. b \in Seq(S) /\ Len(b) < Block
    BY <1>1, <1>2
  <1>4. m \o t = a \o b
    <2>1. (a \o l) \o t = a \o (l \o t)
      OBVIOUS
    <2> QED
      BY <1>1, <1>2, <2>1
  <1>5. WholeBlocks(b) = << >> /\ Leftover(b) = b
    BY <1>3, BlocksOfShort
  <1>6. WholeBlocks(a \o b) = WholeBlocks(a) \o WholeBlocks(b) /\ Leftover(a \o b) = Leftover(b)
    BY <1>1, <1>3, BlocksOfConcat
  <1>7. WholeBlocks(a \o b) = WholeBlocks(a) \o << >> /\ Leftover(a \o b) = b
    BY <1>5, <1>6
  <1>8. WholeBlocks(a) \o << >> = WholeBlocks(a)
    BY WholeBlocksFacts, ConcatEmptySeq
  <1> QED
    BY <1>1, <1>2, <1>7, <1>8, <1>4

\* The bytes t end a block of m, and u behind them is cut by itself.
EndsBlock(m, t, u) ==
  \A v, b : v = t \o u /\ b = Leftover(m) \o t =>
     /\ WholeBlocks(m \o v) = Append(WholeBlocks(m), b) \o WholeBlocks(u)
     /\ Leftover(m \o v) = Leftover(u)

\* They do whenever they fill the block that m leaves open.
LEMMA AppendBlock ==
  ASSUME NEW S, NEW m \in Seq(S), NEW t \in Seq(S), NEW u \in Seq(S),
         (Len(m) % Block) + Len(t) = Block
  PROVE  EndsBlock(m, t, u)
  <1>1. PICK a \in Seq(S), l \in Seq(S) :
           /\ Len(a) % Block = 0 /\ m = a \o l /\ l = Leftover(m)
           /\ WholeBlocks(a) = WholeBlocks(m)
           /\ Len(l) = Len(m) % Block
    BY MessageSplits
  <1>2. PICK b, d : b = l \o t /\ d = a \o b
    OBVIOUS
  <1>3. b \in Seq(S) /\ Len(b) = Block
    BY <1>1, <1>2
  <1>4. d \in Seq(S) /\ Len(d) = Len(a) + Block
    BY <1>2, <1>3
  <1>5. m \o (t \o u) = d \o u
    <2>1. (a \o l) \o (t \o u) = (a \o (l \o t)) \o u
      OBVIOUS
    <2> QED
      BY <1>1, <1>2, <2>1
  <1>6. Len(d) % Block = 0
    BY <1>1, <1>4, LenProperties DEF Block
  <1>7. WholeBlocks(b) = <<b>>
    BY <1>3, BlocksOfShort
  <1>8. WholeBlocks(d) = WholeBlocks(a) \o <<b>>
    <2>1. WholeBlocks(a \o b) = WholeBlocks(a) \o WholeBlocks(b)
      BY <1>1, <1>3, BlocksOfConcat
    <2> QED
      BY <1>2, <1>7, <2>1
  <1>9. WholeBlocks(d \o u) = WholeBlocks(d) \o WholeBlocks(u) /\ Leftover(d \o u) = Leftover(u)
    BY <1>4, <1>6, BlocksOfConcat
  <1>10. WholeBlocks(a) \o <<b>> = Append(WholeBlocks(a), b)
    BY WholeBlocksFacts
  <1>11. /\ WholeBlocks(m \o (t \o u)) = Append(WholeBlocks(m), b) \o WholeBlocks(u)
         /\ Leftover(m \o (t \o u)) = Leftover(u)
    BY <1>1, <1>5, <1>8, <1>9, <1>10
  <1>12. b = Leftover(m) \o t
    BY <1>1, <1>2
  <1> QED
    BY <1>11, <1>12, Zenon DEF EndsBlock

----------------------------------------------------------------------------
(* Updates. *)

\* The context has hashed the whole blocks of the bytes it was given, and its
\* buffer begins with the others.
Follows(ctx, m) ==
  /\ ctx = [length |-> ctx.length, message |-> ctx.message, blocks |-> ctx.blocks]
  /\ ctx.length = Len(m)
  /\ ctx.blocks = WholeBlocks(m)
  /\ Begins(ctx.message, Leftover(m))

\* Bytes copied to the front of a buffer.
LEMMA CopiedToFront ==
  ASSUME NEW S, NEW t \in Seq(S), NEW buf, Len(t) <= Block
  PROVE  Begins(Copied(buf, 0, t), t)
  <1>1. << >> \in Seq(S) /\ Len(<< >>) = 0 /\ Len(t) \in Nat
    BY EmptySeq, LenProperties
  <1>2. Begins(buf, << >>)
    <2>1. 0 <= Block /\ \A k \in 1..0 : buf[k] = << >>[k]
      BY DEF Block
    <2> QED
      BY <1>1, <2>1 DEF Begins
  <1>3. PICK e \in Seq(S) : e = << >> /\ Len(e) = 0 /\ e \o t = t /\ Begins(buf, e)
    BY <1>1, <1>2, ConcatEmptySeq
  <1>4. Len(e) + Len(t) <= Block
    BY <1>1, <1>3
  <1>5. Begins(Copied(buf, Len(e), t), e \o t)
    BY <1>3, <1>4, CopiedBegins
  <1> QED
    BY <1>3, <1>5

\* What a message is in front of a number of bytes, and behind.
LEMMA TakeAndDrop ==
  ASSUME NEW S, NEW m \in Seq(S), NEW k \in Nat, k <= Len(m)
  PROVE  /\ m = Take(m, k) \o Drop(m, k)
         /\ Take(m, k) \in Seq(S) /\ Len(Take(m, k)) = k
         /\ Drop(m, k) \in Seq(S)
  <1>1. Len(m) \in Nat
    BY LenProperties
  <1>2. Take(m, k) = SubSeq(m, 1, k)
    BY <1>1, SubSeqFull DEF Take
  <1>3. Drop(m, k) = SubSeq(m, k + 1, Len(m))
    BY DEF Drop
  <1>4. m = SubSeq(m, 1, k) \o SubSeq(m, k + 1, Len(m))
    BY SplitAt
  <1>5. /\ SubSeq(m, 1, k) \in Seq(S) /\ Len(SubSeq(m, 1, k)) = k
        /\ SubSeq(m, k + 1, Len(m)) \in Seq(S)
    BY SplitAt
  <1> QED
    BY <1>2, <1>3, <1>4, <1>5

\* The leftover is shorter than a block.
LEMMA LeftoverFacts ==
  ASSUME NEW S, NEW m \in Seq(S)
  PROVE  /\ Leftover(m) \in Seq(S)
         /\ Len(Leftover(m)) = Len(m) % Block
         /\ Len(m) % Block \in 0..(Block - 1)
         /\ Len(m) \in Nat
  BY MessageSplits, LenProperties, DivMod

\* A buffer that the input fills holds the next block of the message.
LEMMA BufferFilled ==
  ASSUME NEW S, NEW m \in Seq(S), NEW input \in Seq(S), NEW buf, NEW left \in Nat,
         Begins(buf, Leftover(m)), (Len(m) % Block) + left = Block, left <= Len(input)
  PROVE  /\ Drop(input, left) \in Seq(S)
         /\ WholeBlocks(m \o input)
              = Append(WholeBlocks(m), Copied(buf, Len(m) % Block, Take(input, left)))
                  \o WholeBlocks(Drop(input, left))
         /\ Leftover(m \o input) = Leftover(Drop(input, left))
  <1>1. /\ Leftover(m) \in Seq(S) /\ Len(Leftover(m)) = Len(m) % Block
        /\ Len(m) % Block \in Nat
    BY LeftoverFacts
  <1>2. PICK t \in Seq(S), u \in Seq(S) :
          /\ t = Take(input, left) /\ u = Drop(input, left)
          /\ input = t \o u /\ Len(t) = left
    BY TakeAndDrop
  <1>3. (Len(m) % Block) + Len(t) = Block
    BY <1>2
  <1>4. PICK b \in Seq(S) : b = Leftover(m) \o t /\ Len(b) = Block
    <2>1. /\ Leftover(m) \o t \in Seq(S)
          /\ Len(Leftover(m) \o t) = Len(Leftover(m)) + Len(t)
      BY <1>1, ConcatProperties, Zenon
    <2>2. Len(Leftover(m) \o t) = Block
      BY <1>1, <1>3, <2>1, Zenon
    <2> QED
      BY <2>1, <2>2, Zenon
  <1>5. /\ WholeBlocks(m \o input) = Append(WholeBlocks(m), b) \o WholeBlocks(u)
        /\ Leftover(m \o input) = Leftover(u)
    <2>1. EndsBlock(m, t, u)
      BY <1>3, AppendBlock
    <2> QED
      BY <1>2, <1>4, <2>1, Zenon DEF EndsBlock
  <1>6. Begins(Copied(buf, Len(m) % Block, t), Leftover(m) \o t)
    <2>1. Len(Leftover(m)) + Len(t) <= Block
      BY <1>1, <1>3 DEF Block
    <2>2. Begins(Copied(buf, Len(Leftover(m)), t), Leftover(m) \o t)
      BY <1>1, <1>2, <2>1, CopiedBegins
    <2> QED
      BY <1>1, <2>2
  <1>7. Copied(buf, Len(m) % Block, t) = Leftover(m) \o t
    BY <1>4, <1>6, FullBuffer
  <1> QED
    BY <1>2, <1>4, <1>7, <1>5

\* MD5Update and ripemd128_update follow the message.
LEMMA MD5UpdateFollows ==
  ASSUME NEW S, NEW m \in Seq(S), NEW input \in Seq(S), NEW ctx, Follows(ctx, m)
  PROVE  Follows(MD5Update(ctx, input), m \o input)
  <1> DEFINE index == ctx.length % Block
             partLen == Block - index
             full == Copied(ctx.message, index, Take(input, partLen))
             rest == Drop(input, partLen)
             new == MD5Update(ctx, input)
  <1>1. /\ index = Len(Leftover(m)) /\ index = Len(m) % Block /\ index \in 0..(Block - 1)
        /\ Leftover(m) \in Seq(S) /\ Len(m) \in Nat
    BY LeftoverFacts DEF Follows
  <1>2. /\ Len(input) \in Nat /\ Len(m \o input) = Len(m) + Len(input)
        /\ m \o input \in Seq(S)
    BY LenProperties, ConcatProperties
  <1>3. partLen \in Nat /\ index + partLen = Block
    BY <1>1 DEF Block
  <1>4. CASE Len(input) >= partLen
    <2>1. new = [length |-> ctx.length + Len(input),
                 message |-> Copied(full, 0, Leftover(rest)),
                 blocks |-> Append(ctx.blocks, full) \o WholeBlocks(rest)]
      BY <1>4 DEF MD5Update
    <2>2. /\ rest \in Seq(S)
          /\ WholeBlocks(m \o input) = Append(WholeBlocks(m), full) \o WholeBlocks(rest)
          /\ Leftover(m \o input) = Leftover(rest)
      <3>1. PICK left \in Nat : left = partLen
        BY <1>3
      <3>2. /\ Begins(ctx.message, Leftover(m)) /\ (Len(m) % Block) + left = Block
            /\ left <= Len(input)
        BY <1>1, <1>2, <1>3, <1>4, <3>1 DEF Follows
      <3>3. /\ Drop(input, left) \in Seq(S)
            /\ WholeBlocks(m \o input)
                 = Append(WholeBlocks(m), Copied(ctx.message, Len(m) % Block, Take(input, left)))
                     \o WholeBlocks(Drop(input, left))
            /\ Leftover(m \o input) = Leftover(Drop(input, left))
        BY <3>2, BufferFilled
      <3> QED
        BY <1>1, <3>1, <3>3
    <2> HIDE DEF new, full, rest
    <2>3. Begins(Copied(full, 0, Leftover(rest)), Leftover(rest))
      BY <2>2, LeftoverFacts, CopiedToFront DEF Block
    <2>4. new.length = Len(m \o input)
      BY <1>2, <2>1 DEF Follows
    <2>5. new.blocks = WholeBlocks(m \o input)
      BY <2>1, <2>2 DEF Follows
    <2>6. Begins(new.message, Leftover(m \o input))
      BY <2>1, <2>2, <2>3
    <2>7. new = [length |-> new.length, message |-> new.message, blocks |-> new.blocks]
      BY <2>1
    <2> QED
      BY <2>4, <2>5, <2>6, <2>7 DEF Follows, new
  <1>5. CASE ~(Len(input) >= partLen)
    <2>1. new = [ctx EXCEPT !.length = ctx.length + Len(input),
                            !.message = Copied(ctx.message, index, input)]
      BY <1>5 DEF MD5Update
    <2>2. new = [length |-> ctx.length + Len(input),
                 message |-> Copied(ctx.message, index, input),
                 blocks |-> ctx.blocks]
      BY <2>1 DEF Follows
    <2>3. (Len(m) % Block) + Len(input) < Block
      BY <1>1, <1>2, <1>5 DEF Block
    <2>4. /\ WholeBlocks(m \o input) = WholeBlocks(m)
          /\ Leftover(m \o input) = Leftover(m) \o input
      BY <2>3, AppendPart
    <2>5. Begins(Copied(ctx.message, index, input), Leftover(m) \o input)
      <3>1. Begins(ctx.message, Leftover(m)) /\ Len(Leftover(m)) + Len(input) <= Block
        BY <1>1, <1>2, <2>3 DEF Follows, Block
      <3> QED
        BY <1>1, <3>1, CopiedBegins
    <2> QED
      BY <1>2, <2>2, <2>4, <2>5 DEF Follows
  <1> QED
    BY <1>4, <1>5

\* RhashUpdate follows the message too, whether its blocks are aligned or not.
LEMMA RhashUpdateFollows ==
  ASSUME NEW S, NEW m \in Seq(S), NEW msg \in Seq(S), NEW aligned, NEW ctx, Follows(ctx, m)
  PROVE  Follows(RhashUpdate(ctx, msg, aligned), m \o msg)
  <1> DEFINE index == ctx.length % Block
             left == Block - index
             filled == Copied(ctx.message, index, Take(msg, left))
             new == RhashUpdate(ctx, msg, aligned)
  <1>1. /\ index = Len(Leftover(m)) /\ index = Len(m) % Block /\ index \in 0..(Block - 1)
        /\ Leftover(m) \in Seq(S) /\ Len(m) \in Nat
    BY LeftoverFacts DEF Follows
  <1>2. /\ Len(msg) \in Nat /\ Len(m \o msg) = Len(m) + Len(msg)
        /\ m \o msg \in Seq(S)
    BY LenProperties, ConcatProperties
  <1>3. left \in Nat /\ index + left = Block
    BY <1>1 DEF Block
  <1>4. CASE index # 0 /\ Len(msg) < left
    <2>1. new = [ctx EXCEPT !.length = ctx.length + Len(msg), !.message = filled]
      BY <1>4 DEF RhashUpdate
    <2>2. Take(msg, left) = msg
      BY <1>2, <1>3, <1>4 DEF Take
    <2>3. new = [length |-> ctx.length + Len(msg),
                 message |-> Copied(ctx.message, index, msg),
                 blocks |-> ctx.blocks]
      BY <2>1, <2>2 DEF Follows
    <2>4. (Len(m) % Block) + Len(msg) < Block
      BY <1>1, <1>2, <1>4 DEF Block
    <2>5. /\ WholeBlocks(m \o msg) = WholeBlocks(m)
          /\ Leftover(m \o msg) = Leftover(m) \o msg
      BY <2>4, AppendPart
    <2>6. Begins(Copied(ctx.message, index, msg), Leftover(m) \o msg)
      <3>1. Begins(ctx.message, Leftover(m)) /\ Len(Leftover(m)) + Len(msg) <= Block
        BY <1>1, <1>2, <2>4 DEF Follows, Block
      <3> QED
        BY <1>1, <3>1, CopiedBegins
    <2> QED
      BY <1>2, <2>3, <2>5, <2>6 DEF Follows
  <1>5. ASSUME NEW rest \in Seq(S), NEW begun, NEW kept,
               new = [length |-> ctx.length + Len(msg),
                      message |-> Copied(kept, 0, Leftover(rest)),
                      blocks |-> begun \o WholeBlocks(rest)],
               WholeBlocks(m \o msg) = begun \o WholeBlocks(rest),
               Leftover(m \o msg) = Leftover(rest)
        PROVE  Follows(new, m \o msg)
    <2>1. Begins(Copied(kept, 0, Leftover(rest)), Leftover(rest))
      BY LeftoverFacts, CopiedToFront DEF Block
    <2> QED
      BY <1>2, <1>5, <2>1 DEF Follows
  <1>6. CASE index # 0 /\ ~(Len(msg) < left)
    <2>1. /\ Drop(msg, left) \in Seq(S)
          /\ WholeBlocks(m \o msg)
               = Append(ctx.blocks, filled) \o WholeBlocks(Drop(msg, left))
          /\ Leftover(m \o msg) = Leftover(Drop(msg, left))
      <3>1. PICK k \in Nat : k = left
        BY <1>3
      <3>2. /\ Begins(ctx.message, Leftover(m)) /\ (Len(m) % Block) + k = Block
            /\ k <= Len(msg)
        BY <1>1, <1>2, <1>3, <1>6, <3>1 DEF Follows
      <3>3. /\ Drop(msg, k) \in Seq(S)
            /\ WholeBlocks(m \o msg)
                 = Append(WholeBlocks(m), Copied(ctx.message, Len(m) % Block, Take(msg, k)))
                     \o WholeBlocks(Drop(msg, k))
            /\ Leftover(m \o msg) = Leftover(Drop(msg, k))
        BY <3>2, BufferFilled
      <3> QED
        BY <1>1, <3>1, <3>3 DEF Follows
    <2>2. \E kept : new = [length |-> ctx.length + Len(msg),
                           message |-> Copied(kept, 0, Leftover(Drop(msg, left))),
                           blocks |-> Append(ctx.blocks, filled) \o WholeBlocks(Drop(msg, left))]
      BY <1>6 DEF RhashUpdate
    <2> QED
      BY <1>5, <2>1, <2>2
  <1>7. CASE index = 0
    <2>1. \E kept : new = [length |-> ctx.length + Len(msg),
                           message |-> Copied(kept, 0, Leftover(msg)),
                           blocks |-> ctx.blocks \o WholeBlocks(msg)]
      BY <1>7 DEF RhashUpdate
    <2>2. /\ WholeBlocks(m \o msg) = WholeBlocks(m) \o WholeBlocks(msg)
          /\ Leftover(m \o msg) = Leftover(msg)
      BY <1>1, <1>7, BlocksOfConcat
    <2> QED
      BY <1>5, <2>1, <2>2 DEF Follows
  <1> QED
    BY <1>4, <1>6, <1>7

----------------------------------------------------------------------------
(* The end of a message. *)

\* Zeros.
LEMMA ZerosFacts ==
  ASSUME NEW S, 0 \in S, NEW n \in Nat
  PROVE  Zeros(n) \in Seq(S) /\ Len(Zeros(n)) = n /\ \A k \in 1..n : Zeros(n)[k] = 0
  <1>1. Zeros(n) \in [1..n -> S]
    BY DEF Zeros
  <1> QED
    BY <1>1 DEF Zeros

\* Zeros behind zeros.
LEMMA ZerosConcat ==
  ASSUME NEW a \in Nat, NEW b \in Nat
  PROVE  Zeros(a) \o Zeros(b) = Zeros(a + b)
  <1>1. /\ Zeros(a) \in Seq({0}) /\ Len(Zeros(a)) = a /\ \A k \in 1..a : Zeros(a)[k] = 0
        /\ Zeros(b) \in Seq({0}) /\ Len(Zeros(b)) = b /\ \A k \in 1..b : Zeros(b)[k] = 0
        /\ Zeros(a + b) \in Seq({0}) /\ Len(Zeros(a + b)) = a + b
        /\ \A k \in 1..(a + b) : Zeros(a + b)[k] = 0
    <2>1. a + b \in Nat /\ 0 \in {0}
      OBVIOUS
    <2> QED
      BY <2>1, ZerosFacts
  <1>2. Zeros(a) \o Zeros(b) \in Seq({0}) /\ Len(Zeros(a) \o Zeros(b)) = a + b
    BY <1>1, ConcatProperties
  <1>3. \A k \in 1..(a + b) : (Zeros(a) \o Zeros(b))[k] = 0
    BY <1>2, ElementOfSeq
  <1> QED
    BY <1>1, <1>2, <1>3, SeqEqual

\* The blocks of a message that the bytes t fill up to the end of a block.
LEMMA OneMore ==
  ASSUME NEW S, NEW m \in Seq(S), NEW t \in Seq(S), (Len(m) % Block) + Len(t) = Block
  PROVE  WholeBlocks(m \o t) = Append(WholeBlocks(m), Leftover(m) \o t)
  <1>1. PICK e \in Seq(S) : e = << >> /\ t = t \o e /\ Len(e) = 0
    BY EmptySeq, ConcatEmptySeq
  <1>2. EndsBlock(m, t, e)
    BY AppendBlock
  <1>3. WholeBlocks(m \o t) = Append(WholeBlocks(m), Leftover(m) \o t) \o WholeBlocks(e)
    BY <1>1, <1>2, Zenon DEF EndsBlock
  <1>4. WholeBlocks(e) = << >>
    <2>1. Len(e) < Block
      BY <1>1 DEF Block
    <2> QED
      BY <2>1, BlocksOfShort
  <1>5. /\ WholeBlocks(m) \in Seq(Seq(S)) /\ Leftover(m) \o t \in Seq(S)
    BY WholeBlocksFacts, LeftoverFacts, ConcatProperties
  <1>6. PICK w : w = WholeBlocks(m) /\ w \in Seq(Seq(S))
    BY <1>5
  <1>7. PICK b : b = Leftover(m) \o t /\ b \in Seq(S)
    BY <1>5
  <1>8. Append(w, b) \in Seq(Seq(S))
    BY <1>6, <1>7
  <1>9. Append(w, b) \o << >> = Append(w, b)
    BY <1>8, ConcatEmptySeq
  <1> QED
    BY <1>3, <1>4, <1>6, <1>7, <1>9, Zenon

\* Two elements at the end of a sequence.
LEMMA AppendTwo ==
  ASSUME NEW T, NEW w \in Seq(T), NEW b \in T, NEW u \in T
  PROVE  Append(w, b) \o <<u>> = w \o <<b, u>>
  <1>1. /\ <<b>> \in Seq(T) /\ <<u>> \in Seq(T) /\ <<b, u>> \in Seq(T)
        /\ Len(<<b>>) = 1 /\ Len(<<u>>) = 1 /\ <<b>>[1] = b /\ <<u>>[1] = u
        /\ Len(<<b, u>>) = 2 /\ <<b, u>>[1] = b /\ <<b, u>>[2] = u
    OBVIOUS
  <1>2. Append(w, b) = w \o <<b>>
    BY AppendIsConcat
  <1>3. <<b>> \o <<u>> = <<b, u>>
    <2>1. PICK p \in Seq(T), q \in Seq(T) : p = <<b>> /\ q = <<u>>
      BY <1>1
    <2>2. p \o q \in Seq(T) /\ Len(p \o q) = 2
      BY <1>1, <2>1, ConcatProperties
    <2>3. (p \o q)[1] = b /\ (p \o q)[2] = u
      BY <1>1, <2>1, ConcatProperties
    <2>4. PICK r \in Seq(T) : r = <<b, u>> /\ Len(r) = 2 /\ r[1] = b /\ r[2] = u
      BY <1>1
    <2>5. PICK x \in Seq(T) : x = p \o q /\ Len(x) = 2 /\ x[1] = b /\ x[2] = u
      BY <2>2, <2>3
    <2>6. \A k \in 1..Len(x) : x[k] = r[k]
      BY <2>4, <2>5
    <2>7. x = r
      BY <2>4, <2>5, <2>6, SeqEqual
    <2> QED
      BY <2>1, <2>4, <2>5, <2>7, Zenon
  <1>4. (w \o <<b>>) \o <<u>> = w \o (<<b>> \o <<u>>)
    BY <1>1, ConcatAssociative
  <1> QED
    BY <1>4, <1>2, <1>3, Zenon

\* t ends a block of m, and u is one.
TwoBlocks(m, t, u) ==
  WholeBlocks(m \o (t \o u)) = WholeBlocks(m) \o <<Leftover(m) \o t, u>>

\* The blocks of a message that t and a whole block u end.
LEMMA TwoMore ==
  ASSUME NEW S, NEW m \in Seq(S), NEW t \in Seq(S), NEW u \in Seq(S),
         (Len(m) % Block) + Len(t) = Block, Len(u) = Block
  PROVE  TwoBlocks(m, t, u)
  <1>1. EndsBlock(m, t, u)
    BY AppendBlock
  <1>2. WholeBlocks(m \o (t \o u)) = Append(WholeBlocks(m), Leftover(m) \o t) \o WholeBlocks(u)
    BY <1>1, Zenon DEF EndsBlock
  <1>3. WholeBlocks(u) = <<u>>
    BY BlocksOfShort
  <1>4. /\ WholeBlocks(m) \in Seq(Seq(S)) /\ Leftover(m) \o t \in Seq(S)
    BY WholeBlocksFacts, LeftoverFacts, ConcatProperties
  <1>5. PICK w \in Seq(Seq(S)) : w = WholeBlocks(m)
    BY <1>4
  <1>6. PICK b \in Seq(S) : b = Leftover(m) \o t
    BY <1>4
  <1>7. Append(w, b) \o <<u>> = w \o <<b, u>>
    BY AppendTwo
  <1> QED
    BY <1>2, <1>3, <1>5, <1>6, <1>7, Zenon DEF TwoBlocks

\* A mark and zeros, and a message that ends in them and in its length.
Marked(mark, z) == <<mark>> \o Zeros(z)
WithEnd(m, mark, z, length) == m \o <<mark>> \o Zeros(z) \o length
EndIsMarked(m, mark, z, length) == WithEnd(m, mark, z, length) = m \o (Marked(mark, z) \o length)

\* The mark and the zeros are one byte and as many as asked.
LEMMA MarkedFacts ==
  ASSUME NEW S, 0 \in S, NEW mark \in S, NEW z \in Nat
  PROVE  Marked(mark, z) \in Seq(S) /\ Len(Marked(mark, z)) = z + 1
  <1>1. <<mark>> \in Seq(S) /\ Len(<<mark>>) = 1
    OBVIOUS
  <1>2. PICK e \in Seq(S), zeros \in Seq(S) :
          e = <<mark>> /\ Len(e) = 1 /\ zeros = Zeros(z) /\ Len(zeros) = z
    BY <1>1, ZerosFacts
  <1>3. e \o zeros \in Seq(S) /\ Len(e \o zeros) = z + 1
    BY <1>2, ConcatProperties
  <1> QED
    BY <1>2, <1>3, Zenon DEF Marked

\* The end of the message as one sequence behind it.
LEMMA EndIsMarkedAlways ==
  ASSUME NEW S, 0 \in S, NEW m \in Seq(S), NEW mark \in S, NEW z \in Nat,
         NEW length \in Seq(S)
  PROVE  EndIsMarked(m, mark, z, length)
  <1>1. <<mark>> \in Seq(S) /\ Zeros(z) \in Seq(S)
    BY ZerosFacts
  <1>2. PICK e \in Seq(S), zeros \in Seq(S) : e = <<mark>> /\ zeros = Zeros(z)
    BY <1>1
  <1>3. ((m \o e) \o zeros) \o length = m \o ((e \o zeros) \o length)
    OBVIOUS
  <1> QED
    BY <1>2, <1>3, Zenon DEF WithEnd, Marked, EndIsMarked

\* More zeros behind the mark, and the length behind them.
MoreZeros(mark, a, b, length) ==
  /\ Marked(mark, a + b) = Marked(mark, a) \o Zeros(b)
  /\ Marked(mark, a + b) \o length = Marked(mark, a) \o (Zeros(b) \o length)

\* They may be counted together.
LEMMA MarkedLonger ==
  ASSUME NEW S, 0 \in S, NEW mark \in S, NEW a \in Nat, NEW b \in Nat,
         NEW length \in Seq(S)
  PROVE  MoreZeros(mark, a, b, length)
  <1>1. <<mark>> \in Seq(S) /\ Zeros(a) \in Seq(S) /\ Zeros(b) \in Seq(S)
    BY ZerosFacts
  <1>2. PICK e, x, y :
          /\ e = <<mark>> /\ x = Zeros(a) /\ y = Zeros(b)
          /\ e \in Seq(S) /\ x \in Seq(S) /\ y \in Seq(S)
    BY <1>1
  <1>3. e \in Seq(S) /\ x \in Seq(S) /\ y \in Seq(S)
    BY <1>2, Zenon
  <1>4. x \o y = Zeros(a + b)
    BY <1>2, ZerosConcat
  <1>5. e \o (x \o y) = (e \o x) \o y
    BY <1>3
  <1>6. ((e \o x) \o y) \o length = (e \o x) \o (y \o length)
    BY <1>3
  <1> QED
    BY <1>2, <1>4, <1>5, <1>6, Zenon DEF Marked, MoreZeros

\* The end fits behind the message.
OneBlockEnds(m, mark, z, length) ==
  WholeBlocks(WithEnd(m, mark, z, length))
    = Append(WholeBlocks(m), Leftover(m) \o (Marked(mark, z) \o length))

\* It does when the leftover, the mark, the zeros and the length make one block.
LEMMA EndedInOne ==
  ASSUME NEW S, 0 \in S, NEW m \in Seq(S), NEW mark \in S, NEW z \in Nat,
         NEW length \in Seq(S), (Len(m) % Block) + (z + 1 + Len(length)) = Block
  PROVE  OneBlockEnds(m, mark, z, length)
  <1>1. /\ Marked(mark, z) \in Seq(S)
        /\ Len(Marked(mark, z)) = z + 1
    BY MarkedFacts
  <1>2. /\ Marked(mark, z) \o length \in Seq(S)
        /\ Len(Marked(mark, z) \o length) = Len(Marked(mark, z)) + Len(length)
    BY <1>1, ConcatProperties
  <1>3. PICK t : t = Marked(mark, z) \o length /\ t \in Seq(S) /\ Len(t) = z + 1 + Len(length)
    BY <1>1, <1>2, Zenon
  <1>4. t \in Seq(S) /\ (Len(m) % Block) + Len(t) = Block
    BY <1>3, Zenon
  <1>5. WholeBlocks(m \o t) = Append(WholeBlocks(m), Leftover(m) \o t)
    BY <1>4, OneMore
  <1>6. EndIsMarked(m, mark, z, length)
    BY EndIsMarkedAlways
  <1> QED
    BY <1>3, <1>5, <1>6, Zenon DEF EndIsMarked, OneBlockEnds

\* The end takes a block of its own.
TwoBlocksEnd(m, mark, x, y, length) ==
  WholeBlocks(WithEnd(m, mark, x + y, length))
    = WholeBlocks(m) \o <<Leftover(m) \o Marked(mark, x), Zeros(y) \o length>>

\* It does when x zeros fill the first block and y zeros and the length the second.
LEMMA EndedInTwo ==
  ASSUME NEW S, 0 \in S, NEW m \in Seq(S), NEW mark \in S, NEW x \in Nat, NEW y \in Nat,
         NEW length \in Seq(S), y + Len(length) = Block, (Len(m) % Block) + (x + 1) = Block
  PROVE  TwoBlocksEnd(m, mark, x, y, length)
  <1>1. Marked(mark, x) \in Seq(S) /\ Len(Marked(mark, x)) = x + 1
    BY MarkedFacts
  <1>2. Zeros(y) \in Seq(S) /\ Len(Zeros(y)) = y
    BY ZerosFacts
  <1>3. Zeros(y) \o length \in Seq(S) /\ Len(Zeros(y) \o length) = Len(Zeros(y)) + Len(length)
    BY <1>2, ConcatProperties
  <1>4. PICK p : p = Marked(mark, x) /\ p \in Seq(S) /\ (Len(m) % Block) + Len(p) = Block
    BY <1>1, Zenon
  <1>5. PICK u : u = Zeros(y) \o length /\ u \in Seq(S) /\ Len(u) = Block
    BY <1>2, <1>3, Zenon
  <1>6. /\ p \in Seq(S) /\ (Len(m) % Block) + Len(p) = Block
        /\ u \in Seq(S) /\ Len(u) = Block
    BY <1>4, <1>5, Zenon
  <1>7. TwoBlocks(m, p, u)
    BY <1>6, TwoMore
  <1>8. x + y \in Nat
    OBVIOUS
  <1>9. \A z \in Nat : EndIsMarked(m, mark, z, length)
    BY EndIsMarkedAlways
  <1>10. MoreZeros(mark, x, y, length)
    BY MarkedLonger
  <1> QED
    BY <1>4, <1>5, <1>7, <1>8, <1>9, <1>10, Zenon
    DEF EndIsMarked, TwoBlocks, MoreZeros, TwoBlocksEnd

\* What is copied behind the beginning of a buffer and fills it.
LEMMA BufferHolds ==
  ASSUME NEW S, NEW s \in Seq(S), NEW t \in Seq(S), NEW buf,
         Begins(buf, s), Len(s) + Len(t) = Block
  PROVE  Copied(buf, Len(s), t) = s \o t
  <1>1. Len(s) + Len(t) <= Block
    BY DEF Block
  <1>2. Begins(Copied(buf, Len(s), t), s \o t)
    BY <1>1, CopiedBegins
  <1>3. s \o t \in Seq(S) /\ Len(s \o t) = Block
    BY ConcatProperties
  <1> QED
    BY <1>2, <1>3, FullBuffer

\* Zeros and the length copied behind the beginning of a buffer.
HoldsEnd(buf, n, z, at, length, s) ==
  Copied(Copied(buf, n, Zeros(z)), at, length) = s \o (Zeros(z) \o length)

\* They fill the buffer with what it began with and the end.
LEMMA BufferEnd ==
  ASSUME NEW S, 0 \in S, NEW s \in Seq(S), NEW buf, NEW n \in Nat, NEW z \in Nat,
         NEW at \in Nat, NEW length \in Seq(S),
         Begins(buf, s), Len(s) = n, n + z = at, at + Len(length) = Block
  PROVE  HoldsEnd(buf, n, z, at, length, s)
  <1>1. Zeros(z) \in Seq(S) /\ Len(Zeros(z)) = z
    BY ZerosFacts
  <1>2. PICK e : e = Zeros(z) /\ e \in Seq(S) /\ Len(e) = z
    BY <1>1, Zenon
  <1>3. e \in Seq(S) /\ Len(e) = z
    BY <1>2, Zenon
  <1>4. Len(s) + Len(e) <= Block /\ Len(s) + Len(e) = at
    BY <1>3 DEF Block
  <1>5. Begins(Copied(buf, Len(s), e), s \o e)
    BY <1>3, <1>4, CopiedBegins
  <1>6. s \o e \in Seq(S) /\ Len(s \o e) = Len(s) + Len(e)
    BY <1>3, ConcatProperties
  <1>7. PICK w : w = s \o e /\ w \in Seq(S) /\ Len(w) = at
    BY <1>4, <1>6, Zenon
  <1>8. w \in Seq(S) /\ Len(w) = at
    BY <1>7, Zenon
  <1>9. Begins(Copied(buf, n, e), w)
    BY <1>5, <1>7, Zenon
  <1>10. Copied(Copied(buf, n, e), Len(w), length) = w \o length
    BY <1>8, <1>9, BufferHolds
  <1>11. (s \o e) \o length = s \o (e \o length)
    BY <1>3
  <1> QED
    BY <1>2, <1>7, <1>8, <1>10, <1>11, Zenon DEF HoldsEnd

\* The buffer of a context with the mark and zeros behind the leftover.
IsMarked(buf, index, mark, a, m, S) ==
  \E s : /\ s = Leftover(m) \o Marked(mark, a)
         /\ s \in Seq(S) /\ Len(s) = index + (a + 1)
         /\ Begins(Copied(buf, index, Marked(mark, a)), s)

\* A context that follows a message is marked so.
LEMMA MarkedBuffer ==
  ASSUME NEW S, 0 \in S, NEW m \in Seq(S), NEW mark \in S, NEW a \in Nat, NEW ctx,
         NEW index \in Nat, Follows(ctx, m), Len(m) % Block = index,
         index + (a + 1) <= Block
  PROVE  IsMarked(ctx.message, index, mark, a, m, S)
  <1>1. Marked(mark, a) \in Seq(S) /\ Len(Marked(mark, a)) = a + 1
    BY MarkedFacts
  <1>2. PICK p : p = Marked(mark, a) /\ p \in Seq(S) /\ Len(p) = a + 1
    BY <1>1, Zenon
  <1>3. Leftover(m) \in Seq(S) /\ Len(Leftover(m)) = index
    BY LeftoverFacts
  <1>4. PICK l : l = Leftover(m) /\ l \in Seq(S) /\ Len(l) = index
    BY <1>3, Zenon
  <1>5. p \in Seq(S) /\ Len(p) = a + 1 /\ l \in Seq(S) /\ Len(l) = index
    BY <1>2, <1>4, Zenon
  <1>6. Begins(ctx.message, l)
    BY <1>4 DEF Follows
  <1>7. Len(l) + Len(p) <= Block
    BY <1>5
  <1>8. Begins(Copied(ctx.message, Len(l), p), l \o p)
    BY <1>5, <1>6, <1>7, CopiedBegins
  <1>9. l \o p \in Seq(S) /\ Len(l \o p) = Len(l) + Len(p)
    BY <1>5, ConcatProperties
  <1> QED
    BY <1>2, <1>4, <1>5, <1>8, <1>9, Zenon DEF IsMarked

\* Four sequences in a row, grouped from either side.
Regrouped(a, b, c, d) == (a \o b) \o (c \o d) = a \o (b \o (c \o d))

\* The grouping of four does not matter.
LEMMA Regroup ==
  ASSUME NEW S, NEW a \in Seq(S), NEW b \in Seq(S), NEW c \in Seq(S), NEW d \in Seq(S)
  PROVE  Regrouped(a, b, c, d)
  <1>1. (a \o b) \o (c \o d) = a \o (b \o (c \o d))
    OBVIOUS
  <1> QED
    BY <1>1, Zenon DEF Regrouped

\* The last blocks are those of the message with its mark, z zeros and length.
EndsAs(ctx, mark, group, room, length, m, z) ==
  RhashFinal(ctx, mark, group, room, length) = WholeBlocks(WithEnd(m, mark, z, length))

\* The case in which the mark's group ends within the room: one block.
LEMMA RhashFinalInOne ==
  ASSUME NEW S, 0 \in S, NEW m \in Seq(S), NEW mark \in S, NEW length \in Seq(S), NEW ctx,
         NEW group, NEW room, NEW index \in Nat, NEW after \in Nat, NEW z \in Nat,
         Follows(ctx, m), Len(m) % Block = index,
         after = group * ((index + group) \div group), ~(after > room),
         index < after, after <= 56, index + z = 55, Len(length) = 8
  PROVE  EndsAs(ctx, mark, group, room, length, m, z)
  <1>1. PICK a \in Nat, b \in Nat :
          /\ a = (after - index) - 1 /\ b = 56 - after
          /\ a + b = z /\ index + (a + 1) = after /\ after + b = 56
    <2>1. (after - index) - 1 \in Nat /\ 56 - after \in Nat
      OBVIOUS
    <2> QED
      BY <2>1
  <1>2. PICK s : /\ s = Leftover(m) \o Marked(mark, a)
                 /\ s \in Seq(S) /\ Len(s) = after
                 /\ Begins(Copied(ctx.message, index, Marked(mark, a)), s)
    <2>1. index + (a + 1) <= Block
      BY <1>1 DEF Block
    <2>2. IsMarked(ctx.message, index, mark, a, m, S)
      BY <2>1, MarkedBuffer
    <2> QED
      BY <1>1, <2>2, Zenon DEF IsMarked
  <1>3. RhashFinal(ctx, mark, group, room, length)
          = Append(ctx.blocks,
                   Copied(Copied(Copied(ctx.message, index, Marked(mark, a)), after, Zeros(b)),
                          56, length))
    BY <1>1 DEF RhashFinal, Follows, Marked
  <1>4. HoldsEnd(Copied(ctx.message, index, Marked(mark, a)), after, b, 56, length, s)
    <2>1. PICK at \in Nat : at = 56 /\ after + b = at /\ at + Len(length) = Block
      BY <1>1 DEF Block
    <2>2. PICK buf : buf = Copied(ctx.message, index, Marked(mark, a)) /\ Begins(buf, s)
      BY <1>2, Zenon
    <2>3. /\ s \in Seq(S) /\ Len(s) = after /\ Begins(buf, s)
          /\ after + b = at /\ at + Len(length) = Block
      BY <1>2, <2>1, <2>2, Zenon
    <2>4. HoldsEnd(buf, after, b, at, length, s)
      BY <2>3, BufferEnd
    <2> QED
      BY <2>1, <2>2, <2>4, Zenon
  <1>5. MoreZeros(mark, a, b, length)
    BY MarkedLonger
  <1>6. s \o (Zeros(b) \o length) = Leftover(m) \o (Marked(mark, z) \o length)
    <2>1. Leftover(m) \in Seq(S) /\ Marked(mark, a) \in Seq(S) /\ Zeros(b) \in Seq(S)
      BY LeftoverFacts, MarkedFacts, ZerosFacts
    <2>2. Regrouped(Leftover(m), Marked(mark, a), Zeros(b), length)
      BY <2>1, Regroup
    <2> QED
      BY <1>1, <1>2, <1>5, <2>2, Zenon DEF MoreZeros, Regrouped
  <1>7. OneBlockEnds(m, mark, z, length)
    <2>1. (Len(m) % Block) + (z + 1 + Len(length)) = Block
      <3>1. index + (z + 1 + Len(length)) = Block
        BY DEF Block
      <3> QED
        BY <3>1, Zenon
    <2> QED
      BY <2>1, EndedInOne
  <1>8. ctx.blocks = WholeBlocks(m)
    BY DEF Follows
  <1> QED
    BY <1>3, <1>4, <1>6, <1>7, <1>8, Zenon DEF HoldsEnd, OneBlockEnds, EndsAs

\* A buffer of zeros and the length.
HoldsLength(buf, y, length) ==
  Copied(Copied(buf, 0, Zeros(y)), y, length) = Zeros(y) \o length

\* It is what its bytes are copied to.
LEMMA LengthBlock ==
  ASSUME NEW S, 0 \in S, NEW buf, NEW y \in Nat, NEW length \in Seq(S),
         y + Len(length) = Block
  PROVE  HoldsLength(buf, y, length)
  <1>1. Zeros(y) \in Seq(S) /\ Len(Zeros(y)) = y
    BY ZerosFacts
  <1>2. PICK e : e = Zeros(y) /\ e \in Seq(S) /\ Len(e) = y
    BY <1>1, Zenon
  <1>3. e \in Seq(S) /\ Len(e) = y
    BY <1>2, Zenon
  <1>4. Len(e) <= Block /\ Len(e) + Len(length) = Block
    BY <1>3 DEF Block
  <1>5. Begins(Copied(buf, 0, e), e)
    BY <1>3, <1>4, CopiedToFront
  <1>6. Copied(Copied(buf, 0, e), Len(e), length) = e \o length
    BY <1>3, <1>4, <1>5, BufferHolds
  <1> QED
    BY <1>2, <1>3, <1>6, Zenon DEF HoldsLength

\* Three sequences in a row.
Grouped(a, b, c) == (a \o b) \o c = a \o (b \o c)

\* Nor does that of three.
LEMMA Group ==
  ASSUME NEW S, NEW a \in Seq(S), NEW b \in Seq(S), NEW c \in Seq(S)
  PROVE  Grouped(a, b, c)
  <1>1. (a \o b) \o c = a \o (b \o c)
    OBVIOUS
  <1> QED
    BY <1>1, Zenon DEF Grouped

\* The numbers of bytes in the other case.
EndsInTwo(index, after, z, a, c, x, y) ==
  /\ a = (after - index) - 1 /\ c = Block - after /\ x = 63 - index /\ y = 56
  /\ a + c = x /\ x + y = z /\ index + (a + 1) = after /\ after + c = Block
  /\ index + (x + 1) = Block /\ y + 8 = Block

\* There are such numbers.
LEMMA NumbersInTwo ==
  ASSUME NEW index \in Nat, NEW after \in Nat, NEW z \in Nat,
         index < after, after <= Block, index + z = 119
  PROVE  \E a \in Nat, c \in Nat, x \in Nat, y \in Nat :
           EndsInTwo(index, after, z, a, c, x, y)
  <1>1. Block = 64
    BY DEF Block
  <1>2. PICK a \in Nat : a = (after - index) - 1
    OBVIOUS
  <1>3. PICK c \in Nat : c = Block - after
    BY <1>1
  <1>4. PICK x \in Nat : x = 63 - index
    BY <1>1
  <1>5. PICK y \in Nat : y = 56
    OBVIOUS
  <1>6. a + c = x
    BY <1>1, <1>2, <1>3, <1>4
  <1>7. x + y = z
    BY <1>4, <1>5
  <1>8. index + (a + 1) = after /\ after + c = Block
    BY <1>1, <1>2, <1>3
  <1>9. index + (x + 1) = Block /\ y + 8 = Block
    BY <1>1, <1>4, <1>5
  <1>10. EndsInTwo(index, after, z, a, c, x, y)
    BY <1>2, <1>3, <1>4, <1>5, <1>6, <1>7, <1>8, <1>9, Zenon DEF EndsInTwo
  <1> QED
    BY <1>10, Zenon

\* The other case: a block of its own for the length.
LEMMA RhashFinalInTwo ==
  ASSUME NEW S, 0 \in S, NEW m \in Seq(S), NEW mark \in S, NEW length \in Seq(S), NEW ctx,
         NEW group, NEW room, NEW index \in Nat, NEW after \in Nat, NEW z \in Nat,
         Follows(ctx, m), Len(m) % Block = index,
         after = group * ((index + group) \div group), after > room,
         index < after, after <= Block, index + z = 119, Len(length) = 8
  PROVE  EndsAs(ctx, mark, group, room, length, m, z)
  <1>1. Block = 64
    BY DEF Block
  <1>2. PICK a \in Nat, c \in Nat, x \in Nat, y \in Nat :
          EndsInTwo(index, after, z, a, c, x, y)
    BY NumbersInTwo, Zenon
  <1>3. /\ a + c = x /\ x + y = z /\ index + (a + 1) = after /\ after + c = Block
        /\ index + (x + 1) = Block /\ y + Len(length) = Block
    BY <1>2, Zenon DEF EndsInTwo
  <1>4. PICK s : /\ s = Leftover(m) \o Marked(mark, a)
                 /\ s \in Seq(S) /\ Len(s) = after
                 /\ Begins(Copied(ctx.message, index, Marked(mark, a)), s)
    <2>1. index + (a + 1) <= Block
      BY <1>3 DEF Block
    <2>2. IsMarked(ctx.message, index, mark, a, m, S)
      BY <2>1, MarkedBuffer
    <2> QED
      BY <1>3, <2>2, Zenon DEF IsMarked
  <1>5. RhashFinal(ctx, mark, group, room, length)
          = ctx.blocks
              \o <<Copied(Copied(ctx.message, index, Marked(mark, a)), after, Zeros(c)),
                   Copied(Copied(Copied(ctx.message, index, Marked(mark, a)), 0, Zeros(y)),
                          y, length)>>
    <2>1. RhashFinal(ctx, mark, group, room, length)
            = ctx.blocks
                \o <<Copied(Copied(ctx.message, index, Marked(mark, a)), after,
                            Zeros(Block - after)),
                     Copied(Copied(Copied(ctx.message, index, Marked(mark, a)), 0,
                                   Zeros(56 - 0)), 56, length)>>
      <3>1. a = (after - index) - 1
        BY <1>2, Zenon DEF EndsInTwo
      <3> QED
        BY <3>1 DEF RhashFinal, Follows, Marked
    <2>2. 56 - 0 = 56
      OBVIOUS
    <2>3. c = Block - after /\ y = 56
      BY <1>2, Zenon DEF EndsInTwo
    <2> QED
      BY <2>1, <2>2, <2>3, Zenon
  <1>6. Copied(Copied(ctx.message, index, Marked(mark, a)), after, Zeros(c))
          = Leftover(m) \o Marked(mark, x)
    <2>1. Zeros(c) \in Seq(S) /\ Len(Zeros(c)) = c
      BY ZerosFacts
    <2>2. PICK e, buf : /\ e = Zeros(c) /\ e \in Seq(S) /\ Len(e) = c
                        /\ buf = Copied(ctx.message, index, Marked(mark, a)) /\ Begins(buf, s)
      BY <1>4, <2>1, Zenon
    <2>3. e \in Seq(S) /\ s \in Seq(S) /\ Begins(buf, s) /\ Len(s) + Len(e) = Block
      BY <1>3, <1>4, <2>2, Zenon
    <2>4. Copied(buf, Len(s), e) = s \o e
      BY <2>3, BufferHolds
    <2>5. MoreZeros(mark, a, c, length)
      BY MarkedLonger
    <2>6. Leftover(m) \in Seq(S) /\ Marked(mark, a) \in Seq(S)
      BY LeftoverFacts, MarkedFacts
    <2>7. e \in Seq(S)
      BY <2>2, Zenon
    <2>8. Grouped(Leftover(m), Marked(mark, a), e)
      BY <2>6, <2>7, Group
    <2> QED
      BY <1>3, <1>4, <2>2, <2>4, <2>5, <2>8, Zenon DEF MoreZeros, Grouped
  <1>7. HoldsLength(Copied(ctx.message, index, Marked(mark, a)), y, length)
    <2>1. y + Len(length) = Block
      BY <1>3, Zenon
    <2> QED
      BY <2>1, LengthBlock
  <1>8. TwoBlocksEnd(m, mark, x, y, length)
    <2>1. (Len(m) % Block) + (x + 1) = Block /\ y + Len(length) = Block
      BY <1>3, Zenon
    <2> QED
      BY <2>1, EndedInTwo
  <1>9. ctx.blocks = WholeBlocks(m)
    BY DEF Follows
  <1> QED
    BY <1>3, <1>5, <1>6, <1>7, <1>8, <1>9, Zenon DEF TwoBlocksEnd, HoldsLength, EndsAs

\* The end of the group of bytes that holds the mark.
LEMMA AfterMark ==
  ASSUME NEW index \in 0..63, NEW group \in {1, 4}, NEW room \in {32, 56}
  PROVE  LET after == group * ((index + group) \div group)
         IN  /\ after \in Nat /\ index < after /\ after <= 64
             /\ (after > room) <=> (index >= room)
  <1>1. CASE group = 1
    <2>1. 1 * ((index + 1) \div 1) = index + 1
      OBVIOUS
    <2> QED
      BY <1>1, <2>1
  <1>2. CASE group = 4
    <2>1. PICK q \in Nat : q = (index + 4) \div 4
      OBVIOUS
    <2>2. 4 * q <= index + 4 /\ index + 4 < 4 * q + 4
      BY <2>1
    <2>3. /\ 4 * q \in Nat /\ index < 4 * q /\ 4 * q <= 64
          /\ (4 * q > room) <=> (index >= room)
      BY <2>2
    <2> QED
      BY <1>2, <2>1, <2>3
  <1> QED
    BY <1>1, <1>2

\* The zeros of the padding of n bytes with a field of r bytes for the length.
PadZeros(n, r) == Block * ((n + r + Block) \div Block) - n - 9

\* They fill a block, or a second one.
LEMMA ZerosOfPadding ==
  ASSUME NEW n \in Nat, NEW index \in 0..63, NEW r \in {8, 32}, n % Block = index
  PROVE  /\ PadZeros(n, r) \in Nat
         /\ index + r < 64 => index + PadZeros(n, r) = 55
         /\ ~(index + r < 64) => index + PadZeros(n, r) = 119
  <1>1. PICK q \in Nat : n = Block * q + index
    BY DivMod
  <1>2. CASE index + r < 64
    <2>1. PICK p \in Nat, s \in 0..(Block - 1) : p = q + 1 /\ s = index + r
      BY <1>2 DEF Block
    <2>2. n + r + Block = Block * p + s
      BY <1>1, <2>1 DEF Block
    <2>3. (n + r + Block) \div Block = p
      BY <2>2, DivIsUnique
    <2>4. /\ (Block * p - n) - 9 \in Nat
          /\ index + ((Block * p - n) - 9) = 55
      BY <1>1, <1>2, <2>1 DEF Block
    <2>5. PadZeros(n, r) = (Block * p - n) - 9
      BY <2>3 DEF PadZeros
    <2> QED
      BY <1>2, <2>4, <2>5
  <1>3. CASE ~(index + r < 64)
    <2>1. PICK p \in Nat, s \in 0..(Block - 1) : p = q + 2 /\ s = index + r - 64
      BY <1>3 DEF Block
    <2>2. n + r + Block = Block * p + s
      BY <1>1, <2>1 DEF Block
    <2>3. (n + r + Block) \div Block = p
      BY <2>2, DivIsUnique
    <2>4. /\ (Block * p - n) - 9 \in Nat
          /\ index + ((Block * p - n) - 9) = 119
      BY <1>1, <1>3, <2>1 DEF Block
    <2>5. PadZeros(n, r) = (Block * p - n) - 9
      BY <2>3 DEF PadZeros
    <2> QED
      BY <1>3, <2>4, <2>5
  <1> QED
    BY <1>2, <1>3

\* The message padded with a field of r bytes for its length.
Padded(m, mark, r, length) ==
  WholeBlocks(WithEnd(m, mark, PadZeros(Len(m), r), length))

\* Where the mark's group ends, and the zeros, for a message of n bytes.
EndNumbers(n, group, room, r, index, after, z) ==
  /\ n % Block = index
  /\ after = group * ((index + group) \div group)
  /\ z = PadZeros(n, r)
  /\ index < after
  /\ \/ ~(after > room) /\ after <= 56 /\ index + z = 55
     \/ after > room /\ after <= Block /\ index + z = 119

\* There are such numbers.
HasEndNumbers(n, group, room, r) ==
  \E index \in Nat, after \in Nat, z \in Nat :
     EndNumbers(n, group, room, r, index, after, z)

\* There are, for the rooms the functions leave.
LEMMA NumbersOfEnd ==
  ASSUME NEW n \in Nat, NEW group \in {1, 4}, NEW room \in {32, 56}, NEW r \in {8, 32},
         room + r = 64
  PROVE  HasEndNumbers(n, group, room, r)
  <1>1. PICK index \in 0..63 : n % Block = index
    <2>1. n % Block \in 0..(Block - 1) /\ Block - 1 = 63
      BY DivMod DEF Block
    <2> QED
      BY <2>1
  <1>2. PICK after \in Nat :
          /\ after = group * ((index + group) \div group)
          /\ index < after /\ after <= 64
          /\ (after > room) <=> (index >= room)
    BY AfterMark
  <1>3. PICK z \in Nat :
          /\ z = PadZeros(n, r)
          /\ index + r < 64 => index + z = 55
          /\ ~(index + r < 64) => index + z = 119
    <2>1. /\ PadZeros(n, r) \in Nat
          /\ index + r < 64 => index + PadZeros(n, r) = 55
          /\ ~(index + r < 64) => index + PadZeros(n, r) = 119
      BY <1>1, ZerosOfPadding
    <2> QED
      BY <2>1, Zenon
  <1>4. \/ ~(after > room) /\ after <= 56 /\ index + z = 55
        \/ after > room /\ after <= Block /\ index + z = 119
    BY <1>2, <1>3 DEF Block
  <1>5. EndNumbers(n, group, room, r, index, after, z)
    BY <1>1, <1>2, <1>3, <1>4, Zenon DEF EndNumbers
  <1>6. index \in Nat
    OBVIOUS
  <1> QED
    BY <1>5, <1>6, Zenon DEF HasEndNumbers

\* Both cases.
LEMMA RhashFinalEnds ==
  ASSUME NEW S, 0 \in S, NEW m \in Seq(S), NEW mark \in S, NEW length \in Seq(S), NEW ctx,
         NEW group, NEW room, NEW r, NEW index \in Nat, NEW after \in Nat, NEW z \in Nat,
         Follows(ctx, m), EndNumbers(Len(m), group, room, r, index, after, z), Len(length) = 8
  PROVE  EndsAs(ctx, mark, group, room, length, m, z)
  <1>1. /\ Len(m) % Block = index /\ index < after
        /\ after = group * ((index + group) \div group)
    BY Zenon DEF EndNumbers
  <1>2. CASE ~(after > room) /\ after <= 56 /\ index + z = 55
    BY <1>1, <1>2, RhashFinalInOne
  <1>3. CASE after > room /\ after <= Block /\ index + z = 119
    BY <1>1, <1>3, RhashFinalInTwo
  <1> QED
    BY <1>2, <1>3, Zenon DEF EndNumbers

\* The mark goes with a group of 1 or 4 bytes and a room that leaves r bytes.
LEMMA RhashFinalPads ==
  ASSUME NEW S, 0 \in S, NEW m \in Seq(S), NEW mark \in S, NEW length \in Seq(S), NEW ctx,
         NEW group \in {1, 4}, NEW room \in {32, 56}, NEW r \in {8, 32}, room + r = 64,
         Follows(ctx, m), Len(length) = 8
  PROVE  RhashFinal(ctx, mark, group, room, length) = Padded(m, mark, r, length)
  <1>1. Len(m) \in Nat
    BY LeftoverFacts
  <1>2. HasEndNumbers(Len(m), group, room, r)
    BY <1>1, NumbersOfEnd
  <1>3. PICK index \in Nat, after \in Nat, z \in Nat :
          EndNumbers(Len(m), group, room, r, index, after, z)
    BY <1>2, Zenon DEF HasEndNumbers
  <1>4. EndsAs(ctx, mark, group, room, length, m, z)
    BY <1>3, RhashFinalEnds
  <1> QED
    BY <1>3, <1>4, Zenon DEF Padded, EndsAs, EndNumbers

\* The length fields.
LEMMA LengthFields ==
  ASSUME NEW S, NEW bits, \A k \in 1..8 : LittleEndian(bits)[k] \in S
  PROVE  /\ LittleEndian(bits) \in Seq(S) /\ Len(LittleEndian(bits)) = 8
         /\ BigEndian(bits) \in Seq(S) /\ Len(BigEndian(bits)) = 8
  <1>1. /\ DOMAIN LittleEndian(bits) = 1..8
        /\ LittleEndian(bits) = [k \in 1..8 |-> LittleEndian(bits)[k]]
    BY DEF LittleEndian
  <1>2. LittleEndian(bits) \in [1..8 -> S]
    BY <1>1
  <1>3. \A k \in 1..8 : 9 - k \in 1..8
    OBVIOUS
  <1>4. BigEndian(bits) \in [1..8 -> S]
    BY <1>3 DEF BigEndian
  <1>5. \A n \in Nat : \A f \in [1..n -> S] : f \in Seq(S) /\ Len(f) = n
    OBVIOUS
  <1>6. 8 \in Nat
    OBVIOUS
  <1> QED
    BY <1>2, <1>4, <1>5, <1>6, Zenon

\* RIPEMD-128 clears the last block instead of filling it with zeros.
LEMMA ClearedBlock ==
  ASSUME NEW buf, NEW length, DOMAIN length = 1..8
  PROVE  Copied(Zeros(Block), 56, length) = Copied(Copied(buf, 0, Zeros(56)), 56, length)
  <1>1. DOMAIN Zeros(56) = 1..56 /\ \A k \in 1..56 : Zeros(56)[k] = 0
    BY DEF Zeros
  <1>2. \A k \in 1..64 : Zeros(Block)[k] = 0
    BY DEF Zeros, Block
  <1>3. ASSUME NEW k \in 1..64
        PROVE  Copied(Zeros(Block), 56, length)[k]
                 = Copied(Copied(buf, 0, Zeros(56)), 56, length)[k]
    <2>1. CASE k - 56 \in 1..8
      BY <2>1 DEF Copied, Block
    <2>2. CASE ~(k - 56 \in 1..8)
      <3>1. k - 0 \in 1..56 /\ k - 0 = k
        BY <2>2
      <3>2. Copied(buf, 0, Zeros(56))[k] = 0
        BY <1>1, <3>1 DEF Copied, Block
      <3> QED
        BY <1>2, <2>2, <3>2 DEF Copied, Block
    <2> QED
      BY <2>1, <2>2
  <1>4. \A a, b : /\ Copied(a, 56, length) = [k \in 1..64 |-> Copied(a, 56, length)[k]]
    BY DEF Copied, Block
  <1> QED
    BY <1>3, <1>4

\* It ends the message like the functions of RHash.
LEMMA RipemdIsRhash ==
  ASSUME NEW ctx, ctx.length \in Nat
  PROVE  ripemd128_finish(ctx) = RhashFinal(ctx, 128, 1, 56, LittleEndian(8 * ctx.length))
  <1> DEFINE length == LittleEndian(8 * ctx.length)
  <1>1. DOMAIN length = 1..8
    BY DEF LittleEndian
  <1>2. PICK n \in 0..63 : n = ctx.length % Block
    <2>1. ctx.length % Block \in 0..(Block - 1) /\ Block - 1 = 63
      BY DivMod DEF Block
    <2> QED
      BY <2>1
  <1>3. 1 * ((n + 1) \div 1) = n + 1 /\ (n + 1) - n - 1 = 0 /\ 56 - 0 = 56
    OBVIOUS
  <1>4. <<128>> \o Zeros(0) = <<128>>
    <2>1. Zeros(0) = << >>
      BY DEF Zeros
    <2>2. <<128>> \in Seq({128})
      OBVIOUS
    <2>3. <<128>> \o << >> = <<128>>
      BY <2>2, ConcatEmptySeq
    <2> QED
      BY <2>1, <2>3, Zenon
  <1>5. 56 - (n + 1) = 55 - n /\ Block - (n + 1) = 63 - n /\ ((n + 1 > 56) <=> ~(n < 56))
    BY DEF Block
  <1> DEFINE marked == Copied(ctx.message, n, <<128>>)
  <1>6. RhashFinal(ctx, 128, 1, 56, length)
          = IF n + 1 > 56
            THEN ctx.blocks \o <<Copied(marked, n + 1, Zeros(Block - (n + 1))),
                                 Copied(Copied(marked, 0, Zeros(56 - 0)), 56, length)>>
            ELSE Append(ctx.blocks,
                        Copied(Copied(marked, n + 1, Zeros(56 - (n + 1))), 56, length))
    BY <1>2, <1>3, <1>4, Zenon DEF RhashFinal
  <1>7. ripemd128_finish(ctx)
          = IF n < 56
            THEN Append(ctx.blocks, Copied(Copied(marked, n + 1, Zeros(55 - n)), 56, length))
            ELSE ctx.blocks \o <<Copied(marked, n + 1, Zeros(63 - n)),
                                 Copied(Zeros(Block), 56, length)>>
    BY <1>2, Zenon DEF ripemd128_finish
  <1>8. Copied(Zeros(Block), 56, length) = Copied(Copied(marked, 0, Zeros(56)), 56, length)
    BY <1>1, ClearedBlock
  <1> HIDE DEF marked, length
  <1>9. CASE n < 56
    <2>1. ~(n + 1 > 56)
      BY <1>5, <1>9, Zenon
    <2> QED
      BY <1>5, <1>6, <1>7, <1>9, <2>1, Zenon DEF length
  <1>10. CASE ~(n < 56)
    <2>1. n + 1 > 56
      BY <1>5, <1>10, Zenon
    <2> QED
      BY <1>3, <1>5, <1>6, <1>7, <1>8, <1>10, <2>1, Zenon DEF length
  <1> QED
    BY <1>9, <1>10

\* The bytes of PADDING that md5.c gives to update.
LEMMA PaddingBytes ==
  ASSUME NEW z \in 0..63
  PROVE  SubSeq(<<128>> \o Zeros(63), 1, z + 1) = Marked(128, z)
  <1>1. PICK a \in Nat, b \in Nat : a = z /\ b = 63 - z /\ a + b = 63
    OBVIOUS
  <1>2. PICK S : 0 \in S /\ 128 \in S
    <2>1. 0 \in {0, 128} /\ 128 \in {0, 128}
      OBVIOUS
    <2> QED
      BY <2>1, Zenon
  <1>3. PICK e : e \in Seq(S)
    BY EmptySeq
  <1>4. MoreZeros(128, a, b, e)
    BY <1>2, <1>3, MarkedLonger
  <1>5. PICK p : p = Marked(128, a) /\ p \in Seq(S) /\ Len(p) = a + 1
    <2>1. Marked(128, a) \in Seq(S) /\ Len(Marked(128, a)) = a + 1
      BY <1>2, MarkedFacts
    <2> QED
      BY <2>1, Zenon
  <1>6. PICK t : t = Zeros(b) /\ t \in Seq(S)
    <2>1. Zeros(b) \in Seq(S)
      BY <1>2, ZerosFacts
    <2> QED
      BY <2>1, Zenon
  <1>7. SubSeq(p \o t, 1, Len(p)) = p
    <2>1. p \in Seq(S) /\ Len(p) = a + 1 /\ t \in Seq(S)
      BY <1>5, <1>6, Zenon
    <2>2. 1 \in 1..Len(p) /\ Len(p) \in 1..Len(p)
      BY <2>1
    <2>3. SubSeq(p \o t, 1, Len(p)) = SubSeq(p, 1, Len(p))
      BY <2>1, <2>2, SubSeqOfConcat1
    <2>4. SubSeq(p, 1, Len(p)) = p
      BY <2>1, SubSeqFull
    <2> QED
      BY <2>3, <2>4, Zenon
  <1>8. <<128>> \o Zeros(63) = p \o t
    BY <1>1, <1>4, <1>5, <1>6, Zenon DEF MoreZeros, Marked
  <1>9. Len(p) = z + 1
    BY <1>1, <1>5, Zenon
  <1> QED
    BY <1>1, <1>5, <1>7, <1>8, <1>9, Zenon

\* MD5Final gives the padding and the length to update itself.
LEMMA MD5FinalPads ==
  ASSUME NEW S, 0 \in S, 128 \in S, NEW m \in Seq(S), NEW ctx, Follows(ctx, m),
         \A k \in 1..8 : LittleEndian(8 * Len(m))[k] \in S
  PROVE  MD5Final(ctx) = Padded(m, 128, 8, LittleEndian(8 * Len(m)))
  <1>1. PICK n \in Nat : n = Len(m)
    BY LeftoverFacts
  <1>2. PICK index \in 0..63 : n % Block = index
    <2>1. n % Block \in 0..(Block - 1) /\ Block - 1 = 63
      BY DivMod DEF Block
    <2> QED
      BY <2>1
  <1>3. ctx.length = n
    BY <1>1 DEF Follows
  <1>4. PICK z \in Nat :
          /\ z = PadZeros(n, 8)
          /\ index + 8 < 64 => index + z = 55
          /\ ~(index + 8 < 64) => index + z = 119
    <2>1. 8 \in {8, 32}
      OBVIOUS
    <2> QED
      BY <1>1, <1>2, <2>1, ZerosOfPadding, Zenon
  <1>5. /\ z \in 0..63
        /\ (IF index < 56 THEN 56 - index ELSE 120 - index) = z + 1
    <2>1. CASE index < 56
      <3>1. index + z = 55
        BY <1>4, <2>1
      <3> QED
        BY <2>1, <3>1
    <2>2. CASE ~(index < 56)
      <3>1. index + z = 119
        BY <1>4, <2>2
      <3> QED
        BY <2>2, <3>1
    <2> QED
      BY <2>1, <2>2
  <1>6. PICK length : /\ length = LittleEndian(8 * n) /\ length \in Seq(S)
    BY <1>1, LengthFields
  <1>7. PICK p : p = Marked(128, z) /\ p \in Seq(S)
    <2>1. Marked(128, z) \in Seq(S)
      BY MarkedFacts
    <2> QED
      BY <2>1, Zenon
  <1>8. MD5Final(ctx) = MD5Update(MD5Update(ctx, p), length).blocks
    <2>1. MD5Final(ctx)
            = MD5Update(MD5Update(ctx, SubSeq(<<128>> \o Zeros(63), 1,
                                              IF index < 56 THEN 56 - index ELSE 120 - index)),
                        LittleEndian(8 * n)).blocks
      BY <1>2, <1>3, Zenon DEF MD5Final
    <2>2. SubSeq(<<128>> \o Zeros(63), 1, z + 1) = Marked(128, z)
      BY <1>5, PaddingBytes
    <2> QED
      BY <1>5, <1>6, <1>7, <2>1, <2>2, Zenon
  <1>9. p \in Seq(S) /\ length \in Seq(S)
    BY <1>6, <1>7, Zenon
  <1>10. Follows(MD5Update(ctx, p), m \o p)
    BY <1>9, MD5UpdateFollows
  <1>11. Follows(MD5Update(MD5Update(ctx, p), length), (m \o p) \o length)
    <2>1. m \o p \in Seq(S)
      BY <1>9, ConcatProperties
    <2>2. PICK w, c : /\ w = m \o p /\ w \in Seq(S)
                      /\ c = MD5Update(ctx, p) /\ Follows(c, w)
      BY <1>10, <2>1, Zenon
    <2>3. w \in Seq(S) /\ Follows(c, w)
      BY <2>2, Zenon
    <2>4. Follows(MD5Update(c, length), w \o length)
      BY <1>9, <2>3, MD5UpdateFollows
    <2> QED
      BY <2>2, <2>4, Zenon
  <1>12. MD5Final(ctx) = WholeBlocks((m \o p) \o length)
    BY <1>8, <1>11, Zenon DEF Follows
  <1>13. Grouped(m, p, length)
    BY <1>9, Group
  <1>14. EndIsMarked(m, 128, z, length)
    BY <1>9, EndIsMarkedAlways
  <1> QED
    BY <1>1, <1>4, <1>6, <1>7, <1>12, <1>13, <1>14, Zenon DEF Padded, Grouped, EndIsMarked

----------------------------------------------------------------------------
(* The six functions, for messages in pieces. *)

\* What a message's blocks are made of: its bytes, the mark, zeros and its length.
Symbols(S, n) == S \cup {0, 1, 128} \cup {LittleEndian(8 * n)[k] : k \in 1..8}

\* The message is one of these symbols.
LEMMA SymbolsFacts ==
  ASSUME NEW T, NEW m \in Seq(T), NEW n
  PROVE  /\ m \in Seq(Symbols(T, n))
         /\ 0 \in Symbols(T, n) /\ 1 \in Symbols(T, n) /\ 128 \in Symbols(T, n)
         /\ \A k \in 1..8 : LittleEndian(8 * n)[k] \in Symbols(T, n)
  <1>1. T \subseteq Symbols(T, n)
    BY DEF Symbols
  <1>2. m \in [1..Len(m) -> Symbols(T, n)] /\ Len(m) \in Nat
    BY <1>1
  <1>3. m \in Seq(Symbols(T, n))
    BY <1>2
  <1> QED
    BY <1>3 DEF Symbols

\* What final gives to the block function is the rest of the padded message.
THEOREM FinalPads ==
  ASSUME NEW T, NEW m \in Seq(T), NEW ctx, Follows(ctx, m), NEW name \in HashNames
  PROVE  Final(name, ctx) = PaddedBlocks(name, m)
  <1>1. PICK S : S = Symbols(T, Len(m))
    OBVIOUS
  <1>2. /\ m \in Seq(S) /\ 0 \in S /\ 1 \in S /\ 128 \in S
        /\ \A k \in 1..8 : LittleEndian(8 * Len(m))[k] \in S
    BY <1>1, SymbolsFacts
  <1>3. ctx.length = Len(m)
    BY DEF Follows
  <1>4. PICK little, big :
          /\ little = LittleEndian(8 * Len(m)) /\ big = BigEndian(8 * Len(m))
          /\ little \in Seq(S) /\ Len(little) = 8 /\ big \in Seq(S) /\ Len(big) = 8
    BY <1>2, LengthFields
  <1>5. /\ 1 \in {1, 4} /\ 4 \in {1, 4} /\ 32 \in {32, 56} /\ 56 \in {32, 56}
        /\ 8 \in {8, 32} /\ 32 \in {8, 32} /\ 56 + 8 = 64 /\ 32 + 32 = 64
    OBVIOUS
  <1>6. PaddedBlocks(name, m)
          = Padded(m, IF name = "tiger" THEN 1 ELSE 128, IF name = "whirlpool" THEN 32 ELSE 8,
                   IF name \in {"sha1", "whirlpool"} THEN big ELSE little)
    BY <1>4, Zenon DEF PaddedBlocks, Padded, PadZeros, WithEnd
  <1>7. CASE name = "md5"
    <2>1. Final(name, ctx) = MD5Final(ctx)
      BY <1>7 DEF Final
    <2>2. MD5Final(ctx) = Padded(m, 128, 8, little)
      BY <1>2, <1>4, MD5FinalPads
    <2> QED
      BY <1>6, <1>7, <2>1, <2>2
  <1>8. CASE name = "ripemd128"
    <2>1. Final(name, ctx) = ripemd128_finish(ctx)
      BY <1>8 DEF Final
    <2>2. RhashFinal(ctx, 128, 1, 56, little) = Padded(m, 128, 8, little)
      BY <1>2, <1>4, <1>5, RhashFinalPads
    <2>3. ctx.length \in Nat
      BY <1>3, LenProperties
    <2> QED
      BY <1>3, <1>4, <1>6, <1>8, <2>1, <2>2, <2>3, RipemdIsRhash
  <1>9. CASE name = "rjmd5"
    <2>1. Final(name, ctx) = RhashFinal(ctx, 128, 4, 56, little)
      BY <1>3, <1>4, <1>9 DEF Final, rhash_md5_final
    <2>2. RhashFinal(ctx, 128, 4, 56, little) = Padded(m, 128, 8, little)
      BY <1>2, <1>4, <1>5, RhashFinalPads
    <2> QED
      BY <1>6, <1>9, <2>1, <2>2
  <1>10. CASE name = "sha1"
    <2>1. Final(name, ctx) = RhashFinal(ctx, 128, 4, 56, big)
      BY <1>3, <1>4, <1>10 DEF Final, rhash_sha1_final
    <2>2. RhashFinal(ctx, 128, 4, 56, big) = Padded(m, 128, 8, big)
      BY <1>2, <1>4, <1>5, RhashFinalPads
    <2> QED
      BY <1>6, <1>10, <2>1, <2>2
  <1>11. CASE name = "tiger"
    <2>1. Final(name, ctx) = RhashFinal(ctx, 1, 1, 56, little)
      BY <1>3, <1>4, <1>11 DEF Final, rhash_tiger_final
    <2>2. RhashFinal(ctx, 1, 1, 56, little) = Padded(m, 1, 8, little)
      BY <1>2, <1>4, <1>5, RhashFinalPads
    <2> QED
      BY <1>6, <1>11, <2>1, <2>2
  <1>12. CASE name = "whirlpool"
    <2>1. Final(name, ctx) = RhashFinal(ctx, 128, 1, 32, big)
      BY <1>3, <1>4, <1>12 DEF Final, rhash_whirlpool_final
    <2>2. RhashFinal(ctx, 128, 1, 32, big) = Padded(m, 128, 32, big)
      BY <1>2, <1>4, <1>5, RhashFinalPads
    <2> QED
      BY <1>6, <1>12, <2>1, <2>2
  <1> QED
    BY <1>7, <1>8, <1>9, <1>10, <1>11, <1>12 DEF HashNames

\* Every update keeps a context in step with the bytes it was given.
THEOREM UpdateFollows ==
  ASSUME NEW T, NEW m \in Seq(T), NEW chunk \in Seq(T), NEW aligned, NEW ctx,
         Follows(ctx, m), NEW name \in HashNames
  PROVE  Follows(Update(name, ctx, chunk, aligned), m \o chunk)
  <1>1. Follows(MD5Update(ctx, chunk), m \o chunk)
    BY MD5UpdateFollows
  <1>2. Follows(RhashUpdate(ctx, chunk, aligned), m \o chunk)
    BY RhashUpdateFollows
  <1>3. \/ Update(name, ctx, chunk, aligned) = MD5Update(ctx, chunk)
        \/ Update(name, ctx, chunk, aligned) = RhashUpdate(ctx, chunk, aligned)
    BY DEF HashNames, Update, ripemd128_update, rhash_md5_update, rhash_sha1_update,
           rhash_tiger_update, rhash_whirlpool_update
  <1> QED
    BY <1>1, <1>2, <1>3, Zenon

\* A new context follows the empty message.
LEMMA NewFollows ==
  ASSUME NEW garbage
  PROVE  Follows(NewContext(garbage), << >>)
  <1>1. << >> \in Seq({}) /\ Len(<< >>) = 0
    BY EmptySeq
  <1>2. PICK e : e = << >> /\ e \in Seq({}) /\ Len(e) = 0
    BY <1>1, Zenon
  <1>3. e \in Seq({}) /\ Len(e) = 0
    BY <1>2, Zenon
  <1>4. Len(e) < Block
    BY <1>3 DEF Block
  <1>5. WholeBlocks(e) = << >> /\ Leftover(e) = e
    BY <1>3, <1>4, BlocksOfShort
  <1>6. \A buf : Begins(buf, e)
    BY <1>3 DEF Begins, Block
  <1>7. NewContext(garbage) = [length |-> Len(e), message |-> [k \in 1..Block |-> garbage],
                               blocks |-> WholeBlocks(e)]
    BY <1>2, <1>5, Zenon DEF NewContext
  <1>8. Follows(NewContext(garbage), e)
    <2>1. \A x, y, z : [length |-> x, message |-> y, blocks |-> z].length = x
      OBVIOUS
    <2> QED
      BY <1>5, <1>6, <1>7 DEF Follows
  <1> QED
    BY <1>2, <1>8, Zenon

----------------------------------------------------------------------------
(* The whole computation. *)

\* A non-empty set of naturals has a least element.
LEMMA LeastNatural ==
  ASSUME NEW S, S \subseteq Nat, S # {}
  PROVE  \E x \in S : \A y \in S : x <= y
  <1> DEFINE R == OpToRel(<, Nat)
  <1>1. IsWellFoundedOn(R, Nat)
    BY NatLessThanWellFounded
  <1> HIDE DEF R
  <1>2. PICK x \in S : \A y \in S : ~ (<<y, x>> \in R)
    BY <1>1, WFMin
  <1>3. \A y \in S : y < x => <<y, x>> \in R
    BY DEF R, OpToRel
  <1>4. \A y \in S : x <= y
    <2> TAKE y \in S
    <2>1. x \in Nat /\ y \in Nat
      OBVIOUS
    <2>2. ~(y < x)
      BY <1>2, <1>3
    <2> QED
      BY <2>1, <2>2
  <1> QED
    BY <1>4

\* The contexts from the new one to the one after chunk k.
AreContexts(f, name, chunks, aligned, garbage, k) ==
  f = [j \in 0..k |-> IF j = 0 THEN NewContext(garbage)
                      ELSE Update(name, f[j - 1], chunks[j], aligned)]

\* There are such contexts for every number of chunks: take the least number
\* for which there were none.
LEMMA ContextsExist ==
  ASSUME NEW name, NEW chunks, NEW aligned, NEW garbage, NEW n \in Nat
  PROVE  \E f : AreContexts(f, name, chunks, aligned, garbage, n)
  <1> DEFINE Has(k) == \E f : AreContexts(f, name, chunks, aligned, garbage, k)
             Bad == {k \in Nat : ~Has(k)}
  <1>1. Has(0)
    <2> DEFINE f == [j \in 0..0 |-> NewContext(garbage)]
    <2>1. f = [j \in 0..0 |-> IF j = 0 THEN NewContext(garbage)
                              ELSE Update(name, f[j - 1], chunks[j], aligned)]
      OBVIOUS
    <2> HIDE DEF f
    <2> QED
      BY <2>1, Zenon DEF AreContexts
  <1>2. ASSUME NEW k \in Nat, Has(k)
        PROVE  Has(k + 1)
    <2>1. PICK f : AreContexts(f, name, chunks, aligned, garbage, k)
      BY <1>2
    <2> DEFINE g == [j \in 0..(k + 1) |->
                       IF j = k + 1 THEN Update(name, f[k], chunks[k + 1], aligned) ELSE f[j]]
    <2>2. ASSUME NEW j \in 0..(k + 1)
          PROVE  g[j] = IF j = 0 THEN NewContext(garbage)
                        ELSE Update(name, g[j - 1], chunks[j], aligned)
      <3>1. CASE j = k + 1
        <4>1. /\ j # 0 /\ j - 1 = k /\ k \in 0..(k + 1) /\ k # k + 1
              /\ j \in 0..(k + 1)
          BY <3>1
        <4>2. g[j] = Update(name, f[k], chunks[k + 1], aligned) /\ g[k] = f[k]
          BY <3>1, <4>1, Zenon
        <4> QED
          BY <3>1, <4>1, <4>2, Zenon
      <3>2. CASE j # k + 1
        <4>1. j \in 0..k
          BY <3>2
        <4>2. g[j] = f[j]
          BY <3>2
        <4>3. f[j] = IF j = 0 THEN NewContext(garbage)
                     ELSE Update(name, f[j - 1], chunks[j], aligned)
          BY <2>1, <4>1, Zenon DEF AreContexts
        <4>4. j # 0 => j - 1 \in 0..(k + 1) /\ j - 1 # k + 1
          BY <4>1
        <4>5. j # 0 => g[j - 1] = f[j - 1]
          BY <4>4, Zenon
        <4> QED
          BY <4>2, <4>3, <4>5, Zenon
      <3> QED
        BY <3>1, <3>2
    <2>3. g = [j \in 0..(k + 1) |-> g[j]]
      OBVIOUS
    <2> HIDE DEF g
    <2>4. AreContexts(g, name, chunks, aligned, garbage, k + 1)
      BY <2>2, <2>3, Zenon DEF AreContexts
    <2> QED
      BY <2>4
  <1> HIDE DEF Has
  <1>3. Bad = {}
    <2> SUFFICES ASSUME Bad # {}
                 PROVE  FALSE
      OBVIOUS
    <2>1. PICK k \in Bad : \A j \in Bad : k <= j
      <3>1. Bad \subseteq Nat
        OBVIOUS
      <3> HIDE DEF Bad
      <3> QED
        BY <3>1, LeastNatural
    <2>2. k \in Nat /\ ~Has(k) /\ k # 0
      BY <1>1
    <2>3. k - 1 \in Nat /\ ~(k <= k - 1) /\ (k - 1) + 1 = k
      BY <2>2
    <2>4. Has(k - 1)
      BY <2>1, <2>3
    <2> QED
      BY <1>2, <2>2, <2>3, <2>4
  <1> QED
    BY <1>3 DEF Has

\* The recursive function of HashStream is such a function.
LEMMA ContextsFacts ==
  ASSUME NEW name, NEW chunks, NEW aligned, NEW garbage, NEW n \in Nat, Len(chunks) = n
  PROVE  AreContexts(Contexts(name, chunks, aligned, garbage), name, chunks, aligned, garbage, n)
  <1>1. \E f : AreContexts(f, name, chunks, aligned, garbage, n)
    BY ContextsExist
  <1>2. Contexts(name, chunks, aligned, garbage)
          = CHOOSE f : AreContexts(f, name, chunks, aligned, garbage, n)
    BY Zenon DEF Contexts, AreContexts
  <1> QED
    BY <1>1, <1>2, Zenon

\* A message in n pieces, cut at any places.
Pieces(m, n, cut) == [k \in 1..n |-> SubSeq(m, cut[k - 1] + 1, cut[k])]

\* The blocks hashed are those of the padded message, whatever pieces it was
\* given in, whether they lie aligned or not, and whatever the buffer held.
THEOREM PiecesDoNotMatter ==
  ASSUME NEW T, NEW m \in Seq(T), NEW n \in Nat, NEW cut \in [0..n -> 0..Len(m)],
         cut[0] = 0, cut[n] = Len(m), \A k \in 1..n : cut[k - 1] <= cut[k],
         NEW name \in HashNames, NEW aligned, NEW garbage
  PROVE  HashedBlocks(name, Pieces(m, n, cut), aligned, garbage) = PaddedBlocks(name, m)
  <1> DEFINE chunks == Pieces(m, n, cut)
             f == Contexts(name, chunks, aligned, garbage)
             Upto(k) == SubSeq(m, 1, cut[k])
             Bad == {k \in 0..n : ~Follows(f[k], Upto(k))}
  <1>1. Len(m) \in Nat
    BY LenProperties
  <1>2. \A k \in 0..n : cut[k] \in Nat /\ cut[k] <= Len(m)
    BY <1>1
  <1>3. \A k \in 0..n : Upto(k) \in Seq(T)
    BY <1>2, SplitAt
  <1>4. \A k \in 1..n : SubSeq(m, cut[k - 1] + 1, cut[k]) \in Seq(T)
    <2> SUFFICES ASSUME NEW k \in 1..n
                 PROVE  SubSeq(m, cut[k - 1] + 1, cut[k]) \in Seq(T)
      OBVIOUS
    <2>1. PICK a \in Nat, b \in Nat : a = cut[k - 1] /\ b = cut[k] /\ a <= b /\ b <= Len(m)
      <3>1. k \in 0..n /\ k - 1 \in 0..n
        OBVIOUS
      <3>2. /\ cut[k] \in Nat /\ cut[k] <= Len(m) /\ cut[k - 1] \in Nat
            /\ cut[k - 1] <= cut[k]
        BY <1>2, <3>1
      <3> QED
        BY <3>2, Zenon
    <2>2. \A i \in a + 1..b : i \in 1..Len(m)
      BY <1>1, <2>1
    <2>3. SubSeq(m, a + 1, b) \in Seq(T)
      BY <2>2, ElementOfSeq, SubSeqProperties
    <2> QED
      BY <2>1, <2>3, Zenon
  <1>5. Len(chunks) = n
    <2>1. chunks \in [1..n -> Seq(T)]
      BY <1>4 DEF Pieces
    <2> HIDE DEF chunks
    <2> QED
      BY <2>1
  <1>6. AreContexts(f, name, chunks, aligned, garbage, n)
    <2> HIDE DEF chunks
    <2> QED
      BY <1>5, ContextsFacts
  <1>7. f[0] = NewContext(garbage)
    <2> HIDE DEF f, chunks
    <2> QED
      BY <1>6 DEF AreContexts
  <1>8. \A k \in 1..n : f[k] = Update(name, f[k - 1], chunks[k], aligned)
    <2> HIDE DEF f, chunks
    <2>1. \A k \in 1..n : k \in 0..n /\ k # 0
      OBVIOUS
    <2> QED
      BY <1>6, <2>1, Zenon DEF AreContexts
  <1>9. Follows(f[0], Upto(0))
    <2>1. SubSeq(m, 1, 0) = << >>
      BY SubSeqEmpty
    <2> HIDE DEF f
    <2> QED
      BY <1>7, <2>1, NewFollows, Zenon
  <1>10. ASSUME NEW k \in 1..n, Follows(f[k - 1], Upto(k - 1))
         PROVE  Follows(f[k], Upto(k))
    <2>1. PICK a \in Nat, b \in Nat : a = cut[k - 1] /\ b = cut[k] /\ a <= b /\ b <= Len(m)
      <3>1. k \in 0..n /\ k - 1 \in 0..n
        OBVIOUS
      <3>2. /\ cut[k] \in Nat /\ cut[k] <= Len(m) /\ cut[k - 1] \in Nat
            /\ cut[k - 1] <= cut[k]
        BY <1>2, <3>1
      <3> QED
        BY <3>2, Zenon
    <2>2. SubSeq(m, 1, a) \o SubSeq(m, a + 1, b) = SubSeq(m, 1, b)
      <3>1. 1 \in 1..Len(m) + 1 /\ a \in 1 - 1..Len(m) /\ b \in a..Len(m)
        BY <1>1, <2>1
      <3> QED
        BY <3>1, ConcatAdjacentSubSeq
    <2>3. chunks[k] = SubSeq(m, a + 1, b)
      BY <2>1, Zenon DEF Pieces
    <2> HIDE DEF f, chunks
    <2>4. PICK w, c, x : /\ w = Upto(k - 1) /\ c = chunks[k] /\ x = f[k - 1]
                         /\ w \in Seq(T) /\ c \in Seq(T) /\ Follows(x, w)
      <3>1. k - 1 \in 0..n
        OBVIOUS
      <3> QED
        BY <1>3, <1>4, <1>10, <2>1, <2>3, <3>1, Zenon
    <2>5. w \in Seq(T) /\ c \in Seq(T) /\ Follows(x, w)
      BY <2>4, Zenon
    <2>6. Follows(Update(name, x, c, aligned), w \o c)
      BY <2>5, UpdateFollows
    <2> QED
      BY <1>8, <2>1, <2>2, <2>3, <2>4, <2>6, Zenon
  <1>11. Bad = {}
    <2> SUFFICES ASSUME Bad # {}
                 PROVE  FALSE
      OBVIOUS
    <2>1. PICK k \in Bad : \A j \in Bad : k <= j
      <3>1. Bad \subseteq Nat
        OBVIOUS
      <3> HIDE DEF Bad
      <3> QED
        BY <3>1, LeastNatural
    <2> HIDE DEF f, Upto
    <2>2. k \in 1..n /\ ~Follows(f[k], Upto(k))
      BY <1>9
    <2>3. k - 1 \in 0..n /\ ~(k <= k - 1)
      BY <2>2
    <2>4. Follows(f[k - 1], Upto(k - 1))
      BY <2>1, <2>3
    <2> QED
      BY <1>10, <2>2, <2>4, Zenon
  <1>12. Follows(f[n], m)
    <2>1. Upto(n) = m
      BY SubSeqFull
    <2> HIDE DEF f, Upto
    <2>2. n \in 0..n
      OBVIOUS
    <2> QED
      BY <1>11, <2>1, <2>2, Zenon
  <1>13. Final(name, f[n]) = PaddedBlocks(name, m)
    <2> HIDE DEF f
    <2> QED
      BY <1>12, FinalPads
  <1> QED
    BY <1>5, <1>13, Zenon DEF HashedBlocks


\* One piece: ComputeHash hashes the padded input.
THEOREM ComputeHashPads ==
  ASSUME NEW T, NEW src \in Seq(T)
  PROVE  ComputeHash(src) = PaddedBlocks("md5", src)
  <1>1. PICK n \in Nat : n = Len(src)
    BY LenProperties
  <1>2. PICK cut : cut = [k \in 0..1 |-> IF k = 0 THEN 0 ELSE n]
    OBVIOUS
  <1>3. /\ cut \in [0..1 -> 0..Len(src)] /\ cut[0] = 0 /\ cut[1] = Len(src)
        /\ \A k \in 1..1 : cut[k - 1] <= cut[k]
    BY <1>1, <1>2
  <1>4. "md5" \in HashNames /\ 1 \in Nat
    BY DEF HashNames
  <1>5. HashedBlocks("md5", Pieces(src, 1, cut), TRUE, 255) = PaddedBlocks("md5", src)
    BY <1>3, <1>4, PiecesDoNotMatter
  <1>6. Pieces(src, 1, cut) = <<src>>
    <2>1. Pieces(src, 1, cut) = [k \in 1..1 |-> SubSeq(src, 1, Len(src))]
      <3>1. \A k \in 1..1 : cut[k - 1] + 1 = 1 /\ cut[k] = Len(src)
        BY <1>3
      <3> QED
        BY <3>1 DEF Pieces
    <2>2. SubSeq(src, 1, Len(src)) = src
      BY SubSeqFull
    <2>3. \A x : [k \in 1..1 |-> x] = <<x>>
      OBVIOUS
    <2> QED
      BY <2>1, <2>2, <2>3, Zenon
  <1> QED
    BY <1>5, <1>6, Zenon DEF ComputeHash

=============================================================================
