--------------------------- MODULE RjFrameProofs ---------------------------
(***************************************************************************)
(* What the fields of the RJv3 protocol are read as, for every list of     *)
(* them, what a frame is made of, and what becomes of a server's message.  *)
(*                                                                         *)
(* A field is carried by its bytes when the length it tells is right or,   *)
(* where none is told, when its content holds no mark.  The mark that      *)
(* begins a field overlaps no other one, so the first mark found behind    *)
(* such a content is that of the next field.  With the fields split into   *)
(* those that were read and those that are left, every step of the reader  *)
(* takes one field over.  Fields that are written tell the right lengths,  *)
(* so what the client puts into a frame is what a reader takes from it.    *)
(***************************************************************************)
EXTENDS RjFrame, GbConv, SequenceTheorems, WellFoundedInduction, TLAPS

\* What a byte holds.
Bytes == 0..255

----------------------------------------------------------------------------
(* Sequences. *)

\* What is behind, and what is in front of, the first of two sequences.
LEMMA Apart ==
  ASSUME NEW S, NEW a \in Seq(S), NEW b \in Seq(S)
  PROVE  After(a \o b, Len(a)) = b /\ CopyOf(a \o b, Len(a)) = a
  <1>1. /\ Len(a) \in Nat /\ Len(b) \in Nat
        /\ a \o b \in Seq(S) /\ Len(a \o b) = Len(a) + Len(b)
    BY LenProperties, ConcatProperties
  <1>2. After(a \o b, Len(a)) = b
    <2>1. CASE b = << >>
      <3>1. Len(b) = 0
        BY <2>1, EmptySeq
      <3>2. After(a \o b, Len(a)) = << >>
        BY <1>1, <3>1, SubSeqEmpty DEF After
      <3> QED
        BY <2>1, <3>2
    <2>2. CASE b # << >>
      <3>1. Len(b) \in Nat \ {0}
        BY <2>2, EmptySeq
      <3>2. /\ Len(a) + 1 \in Len(a) + 1..Len(a) + Len(b)
            /\ Len(a) + Len(b) \in Len(a) + 1..Len(a) + Len(b)
            /\ Len(a) + 1 - Len(a) = 1 /\ Len(a) + Len(b) - Len(a) = Len(b)
        BY <1>1, <3>1
      <3>3. SubSeq(a \o b, Len(a) + 1, Len(a) + Len(b)) = SubSeq(b, 1, Len(b))
        BY <3>2, SubSeqOfConcat2
      <3> QED
        BY <1>1, <3>3, SubSeqFull DEF After
    <2> QED
      BY <2>1, <2>2
  <1>3. CopyOf(a \o b, Len(a)) = a
    <2>1. Len(a) <= Len(a \o b) /\ \A i \in 1..Len(a) : i <= Len(a \o b)
      BY <1>1
    <2>2. \A i \in 1..Len(a) : (a \o b)[i] = a[i]
      BY ConcatProperties
    <2>3. CopyOf(a \o b, Len(a)) = [i \in 1..Len(a) |-> a[i]]
      BY <2>1, <2>2, Zenon DEF CopyOf
    <2> QED
      BY <2>3
  <1> QED
    BY <1>2, <1>3

\* The least of a set of naturals is its first position.
LEMMA FirstIs ==
  ASSUME NEW P, P \subseteq Nat, NEW n \in P, \A k \in P : n <= k
  PROVE  FirstOf(P) = n
  <1>1. \A i \in P : (\A j \in P : i <= j) => i = n
    OBVIOUS
  <1> QED
    BY <1>1, Zenon DEF FirstOf

----------------------------------------------------------------------------
(* Searching for the mark. *)

\* The mark at a place, byte by byte.
LEMMA MarkAt ==
  ASSUME NEW buf \in Seq(Bytes), NEW k \in Nat
  PROVE  IsAt(Magic, buf, k)
           <=> /\ k + 4 <= Len(buf)
               /\ buf[k + 1] = 0 /\ buf[k + 2] = 0 /\ buf[k + 3] = 19 /\ buf[k + 4] = 17
  <1>1. Len(Magic) = 4 /\ Magic \in Seq(Bytes)
    BY DEF Magic, Bytes
  <1>2. CASE k + 4 <= Len(buf)
    <2>1. \A i \in k + 1..k + 4 : buf[i] \in Bytes
      BY <1>2, LenProperties, ElementOfSeq
    <2> DEFINE part == SubSeq(buf, k + 1, k + 4)
    <2>2. /\ part \in Seq(Bytes) /\ Len(part) = 4
          /\ \A i \in 1..4 : part[i] = buf[k + i]
      <3>1. k + 1 \in Int /\ k + 4 \in Int /\ (k + 4) - (k + 1) + 1 = 4
        OBVIOUS
      <3>2. \A i \in 1..4 : (k + 1) + i - 1 = k + i
        OBVIOUS
      <3> QED
        BY <2>1, <3>1, <3>2, SubSeqProperties
    <2> HIDE DEF part
    <2>3. part = Magic <=> \A i \in 1..4 : part[i] = Magic[i]
      BY <1>1, <2>2, SeqEqual
    <2>4. Magic[1] = 0 /\ Magic[2] = 0 /\ Magic[3] = 19 /\ Magic[4] = 17
      BY DEF Magic
    <2>5. (\A i \in 1..4 : part[i] = Magic[i])
            <=> /\ buf[k + 1] = 0 /\ buf[k + 2] = 0 /\ buf[k + 3] = 19 /\ buf[k + 4] = 17
      <3>1. /\ part[1] = buf[k + 1] /\ part[2] = buf[k + 2]
            /\ part[3] = buf[k + 3] /\ part[4] = buf[k + 4]
        BY <2>2
      <3>2. \A i \in 1..4 : i = 1 \/ i = 2 \/ i = 3 \/ i = 4
        OBVIOUS
      <3>3. 1 \in 1..4 /\ 2 \in 1..4 /\ 3 \in 1..4 /\ 4 \in 1..4
        OBVIOUS
      <3> QED
        BY <2>4, <3>1, <3>2, <3>3, Zenon
    <2> QED
      BY <1>1, <1>2, <2>3, <2>5 DEF IsAt, part
  <1>3. CASE ~(k + 4 <= Len(buf))
    BY <1>1, <1>3 DEF IsAt
  <1> QED
    BY <1>2, <1>3

\* The mark is nowhere inside.
MarkFree(content) == \A k \in Nat : ~IsAt(Magic, content, k)

\* A content without a mark has none to be found.
LEMMA NothingFound ==
  ASSUME NEW content \in Seq(Bytes), MarkFree(content)
  PROVE  find_byte_pattern(Magic, content) = Len(content)
  <1>1. {k \in 0..(Len(content) - Len(Magic) - 1) : IsAt(Magic, content, k)} = {}
    BY DEF MarkFree
  <1> QED
    BY <1>1 DEF find_byte_pattern

\* What follows a content begins with a mark behind gap bytes, none or the two
\* of a first header that do not end a mark.  A mark overlaps no other one, so
\* the first one found is this.
FollowedByMark(buf, content, gap) ==
  /\ gap \in {0, 2}
  /\ Len(content) + gap + 6 <= Len(buf)
  /\ \A i \in 1..Len(content) : buf[i] = content[i]
  /\ gap = 2 => buf[Len(content) + 1] \notin {17, 19}
  /\ IsAt(Magic, buf, Len(content) + gap)

\* So it is found.
LEMMA NextMarkFound ==
  ASSUME NEW buf \in Seq(Bytes), NEW content \in Seq(Bytes), NEW gap \in {0, 2},
         MarkFree(content), FollowedByMark(buf, content, gap)
  PROVE  find_byte_pattern(Magic, buf) = Len(content) + gap
  <1> DEFINE found == {k \in 0..(Len(buf) - Len(Magic) - 1) : IsAt(Magic, buf, k)}
  <1>1. PICK n \in Nat, len \in Nat : n = Len(content) /\ len = Len(buf)
    BY LenProperties
  <1>2. n + gap \in Nat /\ n + gap + 6 <= len
    BY <1>1 DEF FollowedByMark
  <1>3. /\ buf[n + gap + 1] = 0 /\ buf[n + gap + 2] = 0
        /\ buf[n + gap + 3] = 19 /\ buf[n + gap + 4] = 17
    BY <1>1, <1>2, MarkAt DEF FollowedByMark
  <1>4. Len(Magic) = 4
    BY DEF Magic
  <1>5. n + gap \in found
    BY <1>1, <1>2, <1>4 DEF FollowedByMark
  <1>6. ASSUME NEW k \in found, k < n + gap
        PROVE  FALSE
    <2>1. /\ k \in Nat /\ k + 4 <= len
          /\ buf[k + 1] = 0 /\ buf[k + 2] = 0 /\ buf[k + 3] = 19 /\ buf[k + 4] = 17
      <3>1. k \in Nat /\ IsAt(Magic, buf, k)
        BY <1>1, <1>4, <1>6
      <3> QED
        BY <1>1, <3>1, MarkAt
    <2>2. CASE k + 4 <= n
      <3>1. /\ content[k + 1] = 0 /\ content[k + 2] = 0
            /\ content[k + 3] = 19 /\ content[k + 4] = 17
        <4>1. \A i \in 1..n : buf[i] = content[i]
          BY <1>1 DEF FollowedByMark
        <4>2. k + 1 \in 1..n /\ k + 2 \in 1..n /\ k + 3 \in 1..n /\ k + 4 \in 1..n
          BY <2>1, <2>2
        <4> QED
          BY <2>1, <4>1, <4>2
      <3>2. IsAt(Magic, content, k)
        BY <1>1, <2>1, <2>2, <3>1, MarkAt
      <3> QED
        BY <2>1, <3>2 DEF MarkFree
    <2>3. CASE k + 4 > n
      <3>1. CASE gap = 0
        <4>1. k = n - 1 \/ k = n - 2 \/ k = n - 3
          BY <1>6, <2>1, <2>3, <3>1
        <4>2. buf[n + 1] = 0 /\ buf[n + 2] = 0
          BY <1>3, <3>1
        <4>3. k = n - 1 => buf[k + 3] = buf[n + 2]
          BY <2>1
        <4>4. k = n - 2 => buf[k + 3] = buf[n + 1]
          BY <2>1
        <4>5. k = n - 3 => buf[k + 4] = buf[n + 1]
          BY <2>1
        <4> QED
          BY <2>1, <4>1, <4>2, <4>3, <4>4, <4>5
      <3>2. CASE gap = 2
        <4>1. k = n + 1 \/ k = n \/ k = n - 1 \/ k = n - 2 \/ k = n - 3
          BY <1>6, <2>1, <2>3, <3>2
        <4>2. buf[n + 3] = 0 /\ buf[n + 4] = 0 /\ buf[n + 1] # 17 /\ buf[n + 1] # 19
          BY <1>1, <1>3, <3>2, SMTT(30) DEF FollowedByMark
        <4>3. k = n + 1 => buf[k + 3] = buf[n + 4]
          BY <2>1
        <4>4. k = n => buf[k + 3] = buf[n + 3]
          BY <2>1
        <4>5. k = n - 1 => buf[k + 4] = buf[n + 3]
          BY <2>1
        <4>6. k = n - 2 => buf[k + 3] = buf[n + 1]
          BY <2>1
        <4>7. k = n - 3 => buf[k + 4] = buf[n + 1]
          BY <2>1
        <4> QED
          BY <2>1, <4>1, <4>2, <4>3, <4>4, <4>5, <4>6, <4>7
      <3> QED
        BY <3>1, <3>2
    <2> QED
      BY <1>1, <2>1, <2>2, <2>3
  <1>7. \A k \in found : n + gap <= k
    <2>1. found \subseteq Nat
      BY <1>1, <1>4
    <2> HIDE DEF found
    <2> QED
      BY <1>2, <1>6, <2>1
  <1>8. found \subseteq Nat
    BY <1>1, <1>4
  <1>9. find_byte_pattern(Magic, buf) = FirstOf(found)
    <2>1. found # {}
      BY <1>5
    <2> QED
      BY <2>1 DEF find_byte_pattern
  <1> HIDE DEF found
  <1> QED
    BY <1>1, <1>5, <1>7, <1>8, <1>9, FirstIs

----------------------------------------------------------------------------
(* One field. *)

Gap(bare) == IF bare THEN 0 ELSE Header1Size

\* The bytes before a content.
WireHead(bare, first, total, type, len) ==
  IF bare THEN Magic \o <<type, len>> ELSE <<first, total>> \o (Magic \o <<type, len>>)

\* Where the length is not read the content has no mark.
LengthServes(bare, first, type, len, content) ==
  IF bare THEN IF rjv3_prop_length_field_ok(type, len) THEN len = Len(content) + 2
               ELSE MarkFree(content)
  ELSE IF first = 26 THEN len = Len(content) + 2
       ELSE first \notin {17, 19} /\ MarkFree(content)

\* The bytes carry a field.
Carries(bytes, prop, bare) ==
  \E first \in Bytes, total \in Bytes, type \in Bytes, len \in Bytes, content \in Seq(Bytes) :
    /\ prop = Prop(type, content)
    /\ bytes = WireHead(bare, first, total, type, len) \o content
    /\ LengthServes(bare, first, type, len, content)

\* A field begins here.
Opens(buf, bare) ==
  /\ HeadSize(bare) <= Len(buf)
  /\ IsAt(Magic, buf, Gap(bare))
  /\ ~bare => buf[1] \notin {17, 19}

\* Two bytes.
LEMMA Pair ==
  ASSUME NEW a \in Bytes, NEW b \in Bytes
  PROVE  /\ <<a, b>> \in Seq(Bytes) /\ Len(<<a, b>>) = 2
         /\ <<a, b>>[1] = a /\ <<a, b>>[2] = b
  OBVIOUS

\* The second header.
IsHeader2(s, t, l) ==
  /\ s \in Seq(Bytes) /\ Len(s) = 6
  /\ s[1] = 0 /\ s[2] = 0 /\ s[3] = 19 /\ s[4] = 17 /\ s[5] = t /\ s[6] = l

\* It has its fields where the reader looks for them.
LEMMA Header2Facts ==
  ASSUME NEW t \in Bytes, NEW l \in Bytes
  PROVE  IsHeader2(Magic \o <<t, l>>, t, l)
  <1> DEFINE s == Magic \o <<t, l>>
  <1>1. /\ Magic \in Seq(Bytes) /\ Len(Magic) = 4
        /\ Magic[1] = 0 /\ Magic[2] = 0 /\ Magic[3] = 19 /\ Magic[4] = 17
    BY DEF Bytes, Magic
  <1>2. PICK u : u = <<t, l>> /\ u \in Seq(Bytes) /\ Len(u) = 2 /\ u[1] = t /\ u[2] = l
    <2>1. /\ <<t, l>> \in Seq(Bytes) /\ Len(<<t, l>>) = 2
          /\ <<t, l>>[1] = t /\ <<t, l>>[2] = l
      BY Pair
    <2> QED
      BY <2>1, Zenon
  <1>3. /\ s \in Seq(Bytes) /\ Len(s) = Len(Magic) + Len(u)
        /\ \A i \in 1..Len(Magic) + Len(u) :
             s[i] = IF i <= Len(Magic) THEN Magic[i] ELSE u[i - Len(Magic)]
    <2>1. Magic \in Seq(Bytes) /\ u \in Seq(Bytes) /\ s = Magic \o u
      BY <1>1, <1>2, Zenon
    <2>2. /\ Magic \o u \in Seq(Bytes) /\ Len(Magic \o u) = Len(Magic) + Len(u)
          /\ \A i \in 1..Len(Magic) + Len(u) :
               (Magic \o u)[i] = IF i <= Len(Magic) THEN Magic[i] ELSE u[i - Len(Magic)]
      <3>1. \A a, b \in Seq(Bytes) :
              /\ a \o b \in Seq(Bytes) /\ Len(a \o b) = Len(a) + Len(b)
              /\ \A i \in 1..Len(a) + Len(b) :
                   (a \o b)[i] = IF i <= Len(a) THEN a[i] ELSE b[i - Len(a)]
        BY ConcatProperties
      <3> QED
        BY <2>1, <3>1, Zenon
    <2> QED
      BY <2>1, <2>2, Zenon
  <1> HIDE DEF s
  <1>4. \A i \in 1..6 : s[i] = IF i <= 4 THEN Magic[i] ELSE u[i - 4]
    BY <1>1, <1>2, <1>3
  <1>5. IsHeader2(s, t, l)
    BY <1>1, <1>2, <1>3, <1>4 DEF IsHeader2
  <1> QED
    BY <1>5 DEF s

\* Two bytes and six.
IsFullHead(s, f, u) ==
  /\ s \in Seq(Bytes) /\ Len(s) = 8 /\ s[1] = f
  /\ \A i \in 1..6 : s[i + 2] = u[i]

\* The second header is behind the first.
LEMMA FullHeadFacts ==
  ASSUME NEW f \in Bytes, NEW n \in Bytes, NEW u \in Seq(Bytes), Len(u) = 6
  PROVE  IsFullHead(<<f, n>> \o u, f, u)
  <1> DEFINE s == <<f, n>> \o u
  <1>1. PICK v : v = <<f, n>> /\ v \in Seq(Bytes) /\ Len(v) = 2 /\ v[1] = f /\ v[2] = n
    <2>1. /\ <<f, n>> \in Seq(Bytes) /\ Len(<<f, n>>) = 2
          /\ <<f, n>>[1] = f /\ <<f, n>>[2] = n
      BY Pair
    <2> QED
      BY <2>1, Zenon
  <1>2. /\ s \in Seq(Bytes) /\ Len(s) = Len(v) + Len(u)
        /\ \A i \in 1..Len(v) + Len(u) : s[i] = IF i <= Len(v) THEN v[i] ELSE u[i - Len(v)]
    <2>1. v \in Seq(Bytes) /\ u \in Seq(Bytes) /\ s = v \o u
      BY <1>1, Zenon
    <2>2. /\ v \o u \in Seq(Bytes) /\ Len(v \o u) = Len(v) + Len(u)
          /\ \A i \in 1..Len(v) + Len(u) :
               (v \o u)[i] = IF i <= Len(v) THEN v[i] ELSE u[i - Len(v)]
      BY <2>1, ConcatProperties
    <2> QED
      BY <2>1, <2>2, Zenon
  <1> HIDE DEF s
  <1>3. \A i \in 1..8 : s[i] = IF i <= 2 THEN v[i] ELSE u[i - 2]
    BY <1>1, <1>2
  <1>4. IsFullHead(s, f, u)
    BY <1>1, <1>2, <1>3 DEF IsFullHead
  <1> QED
    BY <1>4 DEF s

\* The heads of both kinds.
HeadFacts(bare, first, type, len, head, g) ==
  /\ head \in Seq(Bytes) /\ Len(head) = g + 6 /\ HeadSize(bare) = g + 6
  /\ head[g + 1] = 0 /\ head[g + 2] = 0 /\ head[g + 3] = 19 /\ head[g + 4] = 17
  /\ head[g + 5] = type /\ head[g + 6] = len
  /\ ~bare => head[1] = first

\* Either head has its fields in these places.
LEMMA WireHeadFacts ==
  ASSUME NEW bare \in BOOLEAN, NEW first \in Bytes, NEW total \in Bytes,
         NEW type \in Bytes, NEW len \in Bytes, NEW g, g = Gap(bare),
         NEW head, head = WireHead(bare, first, total, type, len)
  PROVE  HeadFacts(bare, first, type, len, head, g)
  <1>1. PICK u : u = Magic \o <<type, len>>
    OBVIOUS
  <1>2. /\ u \in Seq(Bytes) /\ Len(u) = 6
        /\ u[1] = 0 /\ u[2] = 0 /\ u[3] = 19 /\ u[4] = 17 /\ u[5] = type /\ u[6] = len
    <2>1. IsHeader2(Magic \o <<type, len>>, type, len)
      BY Header2Facts
    <2>2. IsHeader2(u, type, len)
      BY <1>1, <2>1, Zenon
    <2> QED
      BY <2>2, Zenon DEF IsHeader2
  <1>3. CASE bare
    <2>1. head = u /\ g = 0 /\ HeadSize(bare) = 6
      BY <1>1, <1>3 DEF WireHead, Gap, HeadSize, Header2Size
    <2>2. g + 1 = 1 /\ g + 2 = 2 /\ g + 3 = 3 /\ g + 4 = 4 /\ g + 5 = 5 /\ g + 6 = 6
      BY <2>1
    <2> QED
      BY <1>2, <1>3, <2>1, <2>2, Zenon DEF HeadFacts
  <1>4. CASE ~bare
    <2>1. head = <<first, total>> \o u /\ g = 2 /\ HeadSize(bare) = 8
      BY <1>1, <1>4 DEF WireHead, Gap, HeadSize, Header1Size, Header2Size
    <2>2. /\ head \in Seq(Bytes) /\ Len(head) = 8 /\ head[1] = first
          /\ \A i \in 1..6 : head[i + 2] = u[i]
      <3>1. IsFullHead(<<first, total>> \o u, first, u)
        BY <1>2, FullHeadFacts
      <3>2. IsFullHead(head, first, u)
        BY <2>1, <3>1, Zenon
      <3> QED
        BY <3>2, Zenon DEF IsFullHead
    <2>3. /\ head[3] = u[1] /\ head[4] = u[2] /\ head[5] = u[3] /\ head[6] = u[4]
          /\ head[7] = u[5] /\ head[8] = u[6]
      BY <2>2
    <2> QED
      BY <1>2, <2>1, <2>2, <2>3 DEF HeadFacts
  <1> QED
    BY <1>3, <1>4

\* What the bytes of a field begin, with anything behind them.
LEMMA CarriedOpens ==
  ASSUME NEW bare \in BOOLEAN, NEW prop, NEW bytes, Carries(bytes, prop, bare),
         NEW more \in Seq(Bytes)
  PROVE  /\ bytes \in Seq(Bytes) /\ HeadSize(bare) <= Len(bytes)
         /\ Opens(bytes \o more, bare)
  <1>1. PICK first \in Bytes, total \in Bytes, type \in Bytes, len \in Bytes,
             content \in Seq(Bytes) :
          /\ bytes = WireHead(bare, first, total, type, len) \o content
          /\ LengthServes(bare, first, type, len, content)
    BY DEF Carries
  <1>2. PICK g : g = Gap(bare) /\ g \in {0, 2} /\ (~bare => g = 2)
    BY DEF Gap, Header1Size
  <1>3. PICK head : head = WireHead(bare, first, total, type, len)
    OBVIOUS
  <1>4. /\ head \in Seq(Bytes) /\ Len(head) = g + 6 /\ HeadSize(bare) = g + 6
        /\ head[g + 1] = 0 /\ head[g + 2] = 0 /\ head[g + 3] = 19 /\ head[g + 4] = 17
        /\ ~bare => head[1] = first
    <2>1. HeadFacts(bare, first, type, len, head, g)
      BY <1>2, <1>3, WireHeadFacts
    <2> QED
      BY <2>1, Zenon DEF HeadFacts
  <1>5. bytes \in Seq(Bytes) /\ Len(bytes) = g + 6 + Len(content) /\ Len(content) \in Nat
    BY <1>1, <1>3, <1>4, ConcatProperties, LenProperties
  <1>6. /\ bytes \o more \in Seq(Bytes) /\ Len(bytes \o more) = g + 6 + Len(content) + Len(more)
        /\ Len(more) \in Nat
    BY <1>4, <1>5, ConcatProperties, LenProperties
  <1>7. \A i \in 1..(g + 6) : (bytes \o more)[i] = head[i]
    <2> TAKE i \in 1..(g + 6)
    <2>1. PICK a \in Nat, b \in Nat, c \in Nat, d \in Nat :
            a = Len(head) /\ b = Len(content) /\ c = Len(bytes) /\ d = Len(more)
            /\ i \in 1..a /\ c = a + b
      BY <1>2, <1>4, <1>5, <1>6, SMTT(30)
    <2>2. i \in 1..(a + b) /\ i <= a /\ i \in 1..(c + d) /\ i <= c
      BY <2>1
    <2>3. bytes[i] = head[i]
      BY <1>1, <1>3, <1>4, <2>1, <2>2, ConcatProperties
    <2>4. (bytes \o more)[i] = bytes[i]
      BY <1>5, <2>1, <2>2, ConcatProperties
    <2> QED
      BY <2>3, <2>4
  <1>8. IsAt(Magic, bytes \o more, g)
    <2>1. g \in Nat /\ g + 4 <= Len(bytes \o more)
      BY <1>2, <1>5, <1>6
    <2>2. /\ (bytes \o more)[g + 1] = 0 /\ (bytes \o more)[g + 2] = 0
          /\ (bytes \o more)[g + 3] = 19 /\ (bytes \o more)[g + 4] = 17
      <3>1. /\ g + 1 \in 1..(g + 6) /\ g + 2 \in 1..(g + 6)
            /\ g + 3 \in 1..(g + 6) /\ g + 4 \in 1..(g + 6)
        BY <1>2
      <3> QED
        BY <1>4, <1>7, <3>1, Zenon
    <2> QED
      BY <1>6, <2>1, <2>2, MarkAt
  <1>9. ~bare => (bytes \o more)[1] \notin {17, 19}
    <2>1. ~bare => first \notin {17, 19}
      BY <1>1 DEF LengthServes
    <2> QED
      BY <1>2, <1>4, <1>7, <2>1
  <1>10. HeadSize(bare) <= Len(bytes) /\ HeadSize(bare) <= Len(bytes \o more)
    <2>1. PICK n \in Nat, m \in Nat : n = Len(content) /\ m = Len(more)
      BY <1>5, <1>6
    <2>2. g + 6 <= g + 6 + n /\ g + 6 <= g + 6 + n + m
      BY <1>2, <2>1
    <2> QED
      BY <1>4, <1>5, <1>6, <2>1, <2>2, Zenon
  <1> QED
    BY <1>2, <1>5, <1>8, <1>9, <1>10, Zenon DEF Opens

\* Where the content ends when its length is not read.
LEMMA SearchEnds ==
  ASSUME NEW bare \in BOOLEAN, NEW content \in Seq(Bytes), NEW more \in Seq(Bytes),
         MarkFree(content), more = << >> \/ Opens(more, bare)
  PROVE  find_byte_pattern(Magic, content \o more)
           = IF more = << >> THEN Len(content) ELSE Len(content) + Gap(bare)
  <1>1. CASE more = << >>
    BY <1>1, ConcatEmptySeq, NothingFound
  <1>2. CASE more # << >>
    <2>1. PICK g : g = Gap(bare) /\ g \in {0, 2} /\ (g = 2 => ~bare) /\ HeadSize(bare) = g + 6
      BY DEF Gap, HeadSize, Header1Size, Header2Size
    <2>2. PICK n \in Nat, l \in Nat : n = Len(content) /\ l = Len(more)
      BY LenProperties
    <2>3. g + 6 <= l /\ IsAt(Magic, more, g) /\ (g = 2 => more[1] \notin {17, 19})
      BY <1>2, <2>1, <2>2 DEF Opens
    <2>4. PICK buf : /\ buf = content \o more
                     /\ buf \in Seq(Bytes) /\ Len(buf) = n + l
                     /\ \A i \in 1..(n + l) : buf[i] = IF i <= n THEN content[i] ELSE more[i - n]
      <3>1. /\ content \o more \in Seq(Bytes) /\ Len(content \o more) = n + l
            /\ \A i \in 1..(n + l) :
                 (content \o more)[i] = IF i <= n THEN content[i] ELSE more[i - n]
        BY <2>2, ConcatProperties
      <3> QED
        BY <3>1, Zenon
    <2>5. \A i \in 1..l : buf[n + i] = more[i]
      <3> TAKE i \in 1..l
      <3>1. n + i \in 1..(n + l) /\ ~(n + i <= n) /\ n + i - n = i
        BY <2>2
      <3> QED
        BY <2>4, <3>1
    <2>6. IsAt(Magic, buf, n + g)
      <3>1. more[g + 1] = 0 /\ more[g + 2] = 0 /\ more[g + 3] = 19 /\ more[g + 4] = 17
        BY <2>1, <2>3, MarkAt
      <3>2. /\ g + 1 \in 1..l /\ g + 2 \in 1..l /\ g + 3 \in 1..l /\ g + 4 \in 1..l
            /\ n + (g + 1) = (n + g) + 1 /\ n + (g + 2) = (n + g) + 2
            /\ n + (g + 3) = (n + g) + 3 /\ n + (g + 4) = (n + g) + 4
        BY <2>1, <2>3, SMTT(30)
      <3>3. /\ buf[(n + g) + 1] = 0 /\ buf[(n + g) + 2] = 0
            /\ buf[(n + g) + 3] = 19 /\ buf[(n + g) + 4] = 17
        BY <2>5, <3>1, <3>2
      <3>4. n + g \in Nat /\ (n + g) + 4 <= Len(buf)
        BY <2>1, <2>3, <2>4, SMTT(30)
      <3> QED
        BY <2>4, <3>3, <3>4, MarkAt
    <2>7. FollowedByMark(buf, content, g)
      <3>1. \A i \in 1..Len(content) : buf[i] = content[i]
        BY <2>2, <2>4
      <3>2. g = 2 => buf[Len(content) + 1] \notin {17, 19}
        BY <2>2, <2>3, <2>5
      <3> QED
        BY <2>1, <2>2, <2>3, <2>4, <2>6, <3>1, <3>2 DEF FollowedByMark
    <2>8. find_byte_pattern(Magic, buf) = Len(content) + g
      BY <2>1, <2>4, <2>7, NextMarkFound
    <2> QED
      BY <1>2, <2>1, <2>4, <2>8
  <1> QED
    BY <1>1, <1>2

\* What the search of such a content gives.
SearchIs(content, more, tail, gap) ==
  find_byte_pattern(Magic, tail)
    = IF more = << >> THEN Len(content) ELSE Len(content) + gap

\* Reading the bytes of a field takes it and leaves what follows.
FieldIsRead(list, bytes, prop, more, bare) ==
  ReadField([list |-> list, rest |-> bytes \o more, result |-> "reading"], bare)
    = [list |-> Append(list, prop), rest |-> more, result |-> "reading"]

\* A length that is the content's own makes no difference.
LEMMA ReadPropIsProp ==
  ASSUME NEW type, NEW content
  PROVE  ReadProp(type, content, Len(content)) = Prop(type, content)
  <1> DEFINE p == Prop(type, content)
  <1>1. p = [headerType |-> 26, headerLen |-> Byte(Len(content) + Header1Size + Header2Size),
             type |-> type, len |-> Byte(Len(content) + 2), content |-> content]
    BY Zenon DEF Prop
  <1>2. /\ p.headerLen = Byte(Len(content) + Header1Size + Header2Size)
        /\ p.len = Byte(Len(content) + 2)
    BY <1>1
  <1>3. [p EXCEPT !.headerLen = p.headerLen, !.len = p.len] = p
    BY <1>1
  <1> QED
    BY <1>2, <1>3, Zenon DEF ReadProp

\* A field is read, whatever follows it.
LEMMA OneField ==
  ASSUME NEW bare \in BOOLEAN, NEW prop, NEW bytes, Carries(bytes, prop, bare),
         NEW more \in Seq(Bytes), more = << >> \/ Opens(more, bare), NEW list
  PROVE  FieldIsRead(list, bytes, prop, more, bare)
  <1>1. PICK first \in Bytes, total \in Bytes, type \in Bytes, len \in Bytes,
             content \in Seq(Bytes) :
          /\ prop = Prop(type, content)
          /\ bytes = WireHead(bare, first, total, type, len) \o content
          /\ LengthServes(bare, first, type, len, content)
    BY DEF Carries
  <1>2. PICK g : g = Gap(bare) /\ g \in {0, 2} /\ (bare => g = 0) /\ (~bare => g = 2)
    BY DEF Gap, Header1Size
  <1>3. PICK head : head = WireHead(bare, first, total, type, len)
    OBVIOUS
  <1>4. /\ head \in Seq(Bytes) /\ Len(head) = g + 6 /\ HeadSize(bare) = g + 6
        /\ head[g + 5] = type /\ head[g + 6] = len
        /\ ~bare => head[1] = first
    <2>1. HeadFacts(bare, first, type, len, head, g)
      BY <1>2, <1>3, WireHeadFacts
    <2> QED
      BY <2>1, Zenon DEF HeadFacts
  <1>5. PICK tail : tail = content \o more /\ tail \in Seq(Bytes)
    BY ConcatProperties
  <1>6. PICK buf : /\ buf = bytes \o more /\ buf = head \o tail
                   /\ buf = (head \o content) \o more /\ buf \in Seq(Bytes)
    <2>1. (head \o content) \o more = head \o (content \o more)
      BY <1>4, ConcatAssociative, SMTT(30)
    <2>2. head \o tail \in Seq(Bytes)
      BY <1>4, <1>5, ConcatProperties
    <2> QED
      BY <1>1, <1>3, <1>5, <2>1, <2>2
  <1>7. /\ After(buf, HeadSize(bare)) = tail
        /\ CopyOf(tail, Len(content)) = content
        /\ After(buf, HeadSize(bare) + Len(content)) = more
    <2>1. After(buf, Len(head)) = tail
      BY <1>4, <1>5, <1>6, Apart
    <2>2. CopyOf(tail, Len(content)) = content
      BY <1>5, Apart
    <2>3. PICK front : /\ front = head \o content
                       /\ front \in Seq(Bytes) /\ Len(front) = Len(head) + Len(content)
      <3>1. /\ head \o content \in Seq(Bytes)
            /\ Len(head \o content) = Len(head) + Len(content)
        BY <1>4, ConcatProperties
      <3> QED
        BY <3>1, Zenon
    <2>4. After(buf, Len(head) + Len(content)) = more
      <3>1. buf = front \o more
        BY <1>6, <2>3, Zenon
      <3>2. After(front \o more, Len(front)) = more
        BY <2>3, Apart
      <3> QED
        BY <2>3, <3>1, <3>2, Zenon
    <2> QED
      BY <1>4, <2>1, <2>2, <2>4
  <1>8. /\ buf[g + 5] = type /\ buf[g + 6] = len /\ (~bare => buf[1] = first)
    <2>1. \A i \in 1..(g + 6) : buf[i] = head[i]
      <3> TAKE i \in 1..(g + 6)
      <3>1. i \in 1..Len(head) + Len(tail) /\ i <= Len(head)
        BY <1>2, <1>4, <1>5, LenProperties
      <3> QED
        BY <1>4, <1>5, <1>6, <3>1, ConcatProperties
    <2>2. g + 5 \in 1..(g + 6) /\ g + 6 \in 1..(g + 6) /\ 1 \in 1..(g + 6)
      BY <1>2
    <2> QED
      BY <1>4, <2>1, <2>2
  <1>9. IF bare THEN rjv3_prop_length_field_ok(type, len) \/ SearchIs(content, more, tail, g)
        ELSE first = 26 \/ SearchIs(content, more, tail, g)
    BY <1>1, <1>2, <1>5, SearchEnds DEF LengthServes, SearchIs
  <1>10. PICK field : /\ field = IF bare THEN BareField(buf) ELSE FullField(buf)
                      /\ field.head = HeadSize(bare) /\ field.type = type
                      /\ field.size = Len(content)
    <2>1. Len(content) \in Nat
      BY LenProperties
    <2>2. CASE bare
      <3>1. /\ buf[5] = type /\ buf[6] = len /\ HeadSize(bare) = Header2Size
            /\ After(buf, Header2Size) = tail
        <4>0. g = 0
          BY <1>2, <2>2, Zenon
        <4>1. g + 5 = 5 /\ g + 6 = 6
          BY <4>0
        <4> QED
          BY <1>7, <1>8, <2>2, <4>1, Zenon DEF HeadSize
      <3>2. BareField(buf)
              = [head |-> HeadSize(bare), type |-> type,
                 size |-> IF rjv3_prop_length_field_ok(type, len) THEN len - 2
                          ELSE find_byte_pattern(Magic, tail)]
        BY <3>1, Zenon DEF BareField
      <3>3. rjv3_prop_length_field_ok(type, len) => len - 2 = Len(content)
        <4>1. rjv3_prop_length_field_ok(type, len) => len = Len(content) + 2
          BY <1>1, <2>2, Zenon DEF LengthServes
        <4>2. (Len(content) + 2) - 2 = Len(content)
          BY <2>1
        <4> QED
          BY <4>1, <4>2, Zenon
      <3>4. ~rjv3_prop_length_field_ok(type, len) => find_byte_pattern(Magic, tail) = Len(content)
        <4>0. g = 0
          BY <1>2, <2>2, Zenon
        <4>1. Len(content) + g = Len(content)
          BY <2>1, <4>0
        <4> SUFFICES ASSUME ~rjv3_prop_length_field_ok(type, len)
                     PROVE  find_byte_pattern(Magic, tail) = Len(content)
          OBVIOUS
        <4>2. find_byte_pattern(Magic, tail)
                = IF more = << >> THEN Len(content) ELSE Len(content) + g
          <5>1. SearchIs(content, more, tail, g)
            BY <1>9, <2>2, Zenon
          <5> QED
            BY <5>1, Zenon DEF SearchIs
        <4>3. CASE more = << >>
          BY <4>2, <4>3, Zenon
        <4>4. CASE more # << >>
          <5>1. find_byte_pattern(Magic, tail) = Len(content) + g
            BY <4>2, <4>4, Zenon
          <5> QED
            BY <4>1, <5>1, Zenon
        <4> QED
          BY <4>3, <4>4, Zenon
      <3>5. BareField(buf) = [head |-> HeadSize(bare), type |-> type, size |-> Len(content)]
        <4>1. CASE rjv3_prop_length_field_ok(type, len)
          <5>1. BareField(buf) = [head |-> HeadSize(bare), type |-> type, size |-> len - 2]
            BY <3>2, <4>1, Zenon
          <5> QED
            BY <3>3, <4>1, <5>1, Zenon
        <4>2. CASE ~rjv3_prop_length_field_ok(type, len)
          <5>1. BareField(buf) = [head |-> HeadSize(bare), type |-> type,
                                  size |-> find_byte_pattern(Magic, tail)]
            BY <3>2, <4>2, Zenon
          <5> QED
            BY <3>4, <4>2, <5>1, Zenon
        <4> QED
          BY <4>1, <4>2, Zenon
      <3>6. /\ BareField(buf).head = HeadSize(bare) /\ BareField(buf).type = type
            /\ BareField(buf).size = Len(content)
        BY <3>5
      <3>7. (IF bare THEN BareField(buf) ELSE FullField(buf)) = BareField(buf)
        BY <2>2, Zenon
      <3> QED
        BY <3>6, <3>7, Zenon
    <2>3. CASE ~bare
      <3>1. /\ buf[1] = first /\ buf[7] = type /\ buf[8] = len
            /\ HeadSize(bare) = Header1Size + Header2Size
            /\ After(buf, Header1Size + Header2Size) = tail
        <4>0. g = 2
          BY <1>2, <2>3, Zenon
        <4>1. g + 5 = 7 /\ g + 6 = 8
          BY <4>0
        <4> QED
          BY <1>7, <1>8, <2>3, <4>1, Zenon DEF HeadSize
      <3>2. FullField(buf)
              = [head |-> HeadSize(bare), type |-> type,
                 size |-> IF first = 26 THEN len - 2
                          ELSE IF find_byte_pattern(Magic, tail) = Len(tail)
                               THEN find_byte_pattern(Magic, tail)
                               ELSE find_byte_pattern(Magic, tail) - Header1Size]
        BY <3>1, Zenon DEF FullField
      <3>3. first = 26 => len - 2 = Len(content)
        BY <1>1, <2>1, <2>3 DEF LengthServes
      <3>4. Len(tail) = Len(content) + Len(more)
        BY <1>5, ConcatProperties
      <3>5. CASE more = << >>
        <4>1. Len(tail) = Len(content)
          BY <2>1, <3>4, <3>5, EmptySeq
        <4>2. first # 26 => find_byte_pattern(Magic, tail) = Len(content)
          BY <1>9, <2>3, <3>5 DEF SearchIs
        <4>3. FullField(buf) = [head |-> HeadSize(bare), type |-> type, size |-> Len(content)]
          BY <3>2, <3>3, <4>1, <4>2, Zenon
        <4> QED
          BY <2>3, <4>3
      <3>6. CASE more # << >>
        <4>1. Len(more) \in Nat /\ 8 <= Len(more)
          BY <1>2, <1>4, <2>3, <3>6, LenProperties DEF Opens
        <4>2. first # 26 => find_byte_pattern(Magic, tail) = Len(content) + 2
          BY <1>2, <1>9, <2>3, <3>6 DEF SearchIs
        <4>3. Len(content) + 2 # Len(tail) /\ (Len(content) + 2) - 2 = Len(content)
          BY <2>1, <3>4, <4>1
        <4>4. (Len(content) + 2) - Header1Size = Len(content)
          BY <2>1 DEF Header1Size
        <4>5. FullField(buf) = [head |-> HeadSize(bare), type |-> type, size |-> Len(content)]
          BY <3>2, <3>3, <4>2, <4>3, <4>4, Zenon
        <4> QED
          BY <2>3, <4>5
      <3> QED
        BY <3>5, <3>6
    <2> QED
      BY <2>2, <2>3
  <1>11. /\ buf # << >> /\ ~(Len(buf) < HeadSize(bare)) /\ IsAt(Magic, buf, Gap(bare))
    <2>1. Opens(buf, bare)
      BY <1>6, CarriedOpens
    <2>2. Len(buf) \in Nat /\ HeadSize(bare) <= Len(buf) /\ HeadSize(bare) \in Nat \ {0}
      BY <1>2, <1>4, <1>6, <2>1, LenProperties, SMTT(30) DEF Opens
    <2>3. buf # << >>
      BY <2>2, EmptySeq
    <2> QED
      BY <2>1, <2>2, <2>3 DEF Opens
  <1>12. ReadField([list |-> list, rest |-> buf, result |-> "reading"], bare)
           = [list |-> Append(list, ReadProp(field.type, CopyOf(After(buf, field.head), field.size),
                                             field.size)),
              rest |-> After(buf, field.head + field.size), result |-> "reading"]
    BY <1>10, <1>11 DEF ReadField, Gap
  <1>13. ReadProp(type, content, Len(content)) = prop
    BY <1>1, ReadPropIsProp
  <1> QED
    BY <1>6, <1>7, <1>10, <1>12, <1>13 DEF FieldIsRead

----------------------------------------------------------------------------
(* The bytes of several fields. *)

\* A non-empty set of naturals has a least element.
LEMMA LeastNatural ==
  ASSUME NEW S, S \subseteq Nat, S # {}
  PROVE  \E x \in S : \A y \in S : x <= y
  <1> DEFINE R == OpToRel(<, Nat)
  <1>1. IsWellFoundedOn(R, Nat)
    BY NatLessThanWellFounded
  <1> HIDE DEF R
  <1>2. PICK x \in S : \A y \in S : ~ (<<y, x>> \in R)
    BY <1>1, WFMin
  <1>3. \A y \in S : y < x => <<y, x>> \in R
    BY DEF R, OpToRel
  <1>4. \A y \in S : x <= y
    <2> TAKE y \in S
    <2>1. x \in Nat /\ y \in Nat
      OBVIOUS
    <2>2. ~(y < x)
      BY <1>2, <1>3
    <2> QED
      BY <2>1, <2>2
  <1> QED
    BY <1>4

\* Counting up to n.
LEMMA Counting ==
  ASSUME NEW n \in Nat, NEW Q, 0 \in Q, \A k \in 1..n : k - 1 \in Q => k \in Q
  PROVE  \A k \in 0..n : k \in Q
  <1> DEFINE Bad == {k \in 0..n : k \notin Q}
  <1>1. ASSUME Bad # {}
        PROVE  FALSE
    <2>1. PICK k \in Bad : \A j \in Bad : k <= j
      <3>1. Bad \subseteq Nat
        OBVIOUS
      <3> HIDE DEF Bad
      <3> QED
        BY <1>1, <3>1, LeastNatural
    <2>2. k \in 1..n /\ k \notin Q
      OBVIOUS
    <2>3. k - 1 \in 0..n /\ ~(k <= k - 1)
      BY <2>2
    <2>4. k - 1 \in Q
      BY <2>1, <2>3
    <2> QED
      BY <2>2, <2>4
  <1> QED
    BY <1>1

\* front[k] holds the first k of the pieces and back[k] the ones behind them.
Splits(sent, n, S, front, back) ==
  /\ front \in [0..n -> Seq(S)] /\ back \in [0..n -> Seq(S)]
  /\ front[0] = << >> /\ back[n] = << >>
  /\ \A k \in 0..n : front[k] \o back[k] = front[n]
  /\ \A k \in 1..n : front[k] = front[k - 1] \o sent[k] /\ back[k - 1] = sent[k] \o back[k]

\* One more piece.
LEMMA OneMorePiece ==
  ASSUME NEW S, NEW sent, NEW n \in Nat, \A k \in 1..(n + 1) : sent[k] \in Seq(S),
         NEW front, NEW back, Splits(sent, n, S, front, back)
  PROVE  \E f, b : Splits(sent, n + 1, S, f, b)
  <1> DEFINE last == sent[n + 1]
             f == [k \in 0..(n + 1) |-> IF k = n + 1 THEN front[n] \o last ELSE front[k]]
             b == [k \in 0..(n + 1) |-> IF k = n + 1 THEN << >> ELSE back[k] \o last]
  <1>1. \A k \in 0..n : front[k] \in Seq(S) /\ back[k] \in Seq(S)
    BY Zenon DEF Splits
  <1>2. \A s, t \in Seq(S) : s \o t \in Seq(S)
    BY ConcatProperties
  <1>3. << >> \in Seq(S)
    BY EmptySeq
  <1>4. n + 1 \in 0..(n + 1) /\ n \in 0..n /\ 0 \in 0..n /\ n \in 0..(n + 1) /\ 0 \in 0..(n + 1)
        /\ n # n + 1 /\ 0 # n + 1 /\ n + 1 \in 1..(n + 1) /\ (n + 1) - 1 = n
    OBVIOUS
  <1>5. \A k \in 0..(n + 1) : k # n + 1 => k \in 0..n
    OBVIOUS
  <1>6. \A k \in 1..(n + 1) : k # n + 1 =>
          /\ k \in 1..n /\ k \in 0..n /\ k - 1 \in 0..n /\ k - 1 # n + 1
          /\ k \in 0..(n + 1) /\ k - 1 \in 0..(n + 1)
    OBVIOUS
  <1>7. /\ f[n + 1] = front[n] \o last /\ b[n + 1] = << >>
        /\ \A k \in 0..n : f[k] = front[k] /\ b[k] = back[k] \o last
    <2>1. \A k \in 0..n : k \in 0..(n + 1) /\ k # n + 1
      OBVIOUS
    <2> QED
      BY <1>4, <2>1, Zenon
  <1>8. f \in [0..(n + 1) -> Seq(S)] /\ b \in [0..(n + 1) -> Seq(S)]
    <2>1. \A k \in 0..(n + 1) :
            /\ (IF k = n + 1 THEN front[n] \o last ELSE front[k]) \in Seq(S)
            /\ (IF k = n + 1 THEN << >> ELSE back[k] \o last) \in Seq(S)
      BY <1>1, <1>2, <1>3, <1>4, <1>5, Zenon
    <2> QED
      BY <2>1, Zenon
  <1> HIDE DEF f, b, last
  <1>9. f[0] = << >>
    BY <1>4, <1>7, Zenon DEF Splits
  <1>10. last \in Seq(S)
    BY DEF last
  <1>11. \A s, t, u \in Seq(S) : (s \o t) \o u = s \o (t \o u)
    BY ConcatAssociative
  <1>12. ASSUME NEW k \in 0..(n + 1)
         PROVE  f[k] \o b[k] = f[n + 1]
    <2>1. CASE k = n + 1
      <3>1. f[n + 1] \in Seq(S)
        BY <1>4, <1>8, Zenon
      <3> QED
        BY <1>7, <2>1, <3>1, ConcatEmptySeq
    <2>2. CASE k # n + 1
      <3>1. k \in 0..n
        BY <1>5, <2>2, Zenon
      <3>2. front[k] \o back[k] = front[n]
        BY <3>1, Zenon DEF Splits
      <3>3. f[k] \o b[k] = front[k] \o (back[k] \o last)
        BY <1>7, <3>1, Zenon
      <3>4. (front[k] \o back[k]) \o last = front[k] \o (back[k] \o last)
        BY <1>1, <1>10, <1>11, <3>1, Zenon
      <3> QED
        BY <1>7, <3>2, <3>3, <3>4, Zenon
    <2> QED
      BY <2>1, <2>2
  <1>13. ASSUME NEW k \in 1..(n + 1)
         PROVE  f[k] = f[k - 1] \o sent[k] /\ b[k - 1] = sent[k] \o b[k]
    <2>1. CASE k = n + 1
      <3>1. f[k - 1] = front[n] /\ b[k - 1] = back[n] \o last /\ back[n] = << >>
        BY <1>4, <1>7, <2>1, Zenon DEF Splits
      <3>2. << >> \o last = last /\ last \o << >> = last
        BY <1>10, ConcatEmptySeq
      <3> QED
        BY <1>7, <2>1, <3>1, <3>2, Zenon DEF last
    <2>2. CASE k # n + 1
      <3>1. k \in 1..n /\ k \in 0..n /\ k - 1 \in 0..n
        BY <1>6, <2>2, Zenon
      <3>2. front[k] = front[k - 1] \o sent[k] /\ back[k - 1] = sent[k] \o back[k]
        BY <3>1, Zenon DEF Splits
      <3>3. f[k] = front[k] /\ f[k - 1] = front[k - 1]
            /\ b[k] = back[k] \o last /\ b[k - 1] = back[k - 1] \o last
        BY <1>7, <3>1, Zenon
      <3>4. (sent[k] \o back[k]) \o last = sent[k] \o (back[k] \o last)
        BY <1>1, <1>10, <1>11, <3>1, ZenonT(30)
      <3> QED
        BY <3>2, <3>3, <3>4, Zenon
    <2> QED
      BY <2>1, <2>2
  <1>14. Splits(sent, n + 1, S, f, b)
    BY <1>7, <1>8, <1>9, <1>12, <1>13, Zenon DEF Splits
  <1> QED
    BY <1>14, Zenon

\* Any pieces can be split so.
LEMMA SplitsExist ==
  ASSUME NEW S, NEW sent, NEW n \in Nat, \A k \in 1..n : sent[k] \in Seq(S)
  PROVE  \E front, back : Splits(sent, n, S, front, back)
  <1> DEFINE Has(m) == \E front, back : Splits(sent, m, S, front, back)
             Q == {m \in 0..n : Has(m)}
  <1>1. Has(0)
    <2> DEFINE f == [k \in 0..0 |-> << >>]
    <2>1. << >> \in Seq(S) /\ << >> \o << >> = << >>
      BY EmptySeq, ConcatEmptySeq
    <2>2. \A k \in 0..0 : k = 0
      OBVIOUS
    <2>3. \A k \in 1..0 : FALSE
      OBVIOUS
    <2>4. 0 \in 0..0
      OBVIOUS
    <2>5. f \in [0..0 -> Seq(S)] /\ f[0] = << >>
      BY <2>1, <2>4, Zenon
    <2> HIDE DEF f
    <2>6. Splits(sent, 0, S, f, f)
      BY <2>1, <2>2, <2>3, <2>5, Zenon DEF Splits
    <2> QED
      BY <2>6, Zenon
  <1>2. ASSUME NEW k \in 1..n, Has(k - 1)
        PROVE  Has(k)
    <2>1. PICK front, back : Splits(sent, k - 1, S, front, back)
      BY <1>2, Zenon
    <2>2. k - 1 \in Nat /\ (k - 1) + 1 = k /\ 1..k \subseteq 1..n
      OBVIOUS
    <2>3. \A j \in 1..((k - 1) + 1) : sent[j] \in Seq(S)
      BY <2>2, Zenon
    <2>4. \E f, b : Splits(sent, (k - 1) + 1, S, f, b)
      BY <2>1, <2>2, <2>3, OneMorePiece
    <2> QED
      BY <2>2, <2>4, Zenon
  <1> HIDE DEF Has
  <1>3. 0 \in Q
    BY <1>1
  <1>4. \A k \in 1..n : k - 1 \in Q => k \in Q
    <2>1. \A k \in 1..n : k \in 0..n /\ k - 1 \in 0..n
      OBVIOUS
    <2> QED
      BY <1>2, <2>1, Zenon
  <1> HIDE DEF Q
  <1>5. \A k \in 0..n : k \in Q
    BY <1>3, <1>4, Counting
  <1>6. n \in Q
    BY <1>5
  <1> QED
    BY <1>6, Zenon DEF Q, Has

\* The pieces one after another are the front of all of them.
LEMMA FlattenIsFront ==
  ASSUME NEW S, NEW n \in Nat, NEW sent, Len(sent) = n,
         n = 0 => sent = << >>,
         \A k \in 1..n : sent[k] \in Seq(S),
         NEW front, NEW back, Splits(sent, n, S, front, back)
  PROVE  FlattenSeq(sent) = front[n]
  <1>1. CASE n = 0
    BY <1>1, Zenon DEF Splits, FlattenSeq
  <1>2. CASE n # 0
    <2> DEFINE IsFlat(f) == f = [i \in 1..n |-> IF i = 1 THEN sent[i] ELSE f[i - 1] \o sent[i]]
               h == [i \in 1..n |-> front[i]]
    <2>1. IsFlat(h)
      <3>1. ASSUME NEW i \in 1..n
            PROVE  front[i] = IF i = 1 THEN sent[i] ELSE h[i - 1] \o sent[i]
        <4>1. front[i] = front[i - 1] \o sent[i]
          BY Zenon DEF Splits
        <4>2. CASE i = 1
          <5>1. i - 1 = 0
            BY <4>2
          <5>3. front[i - 1] = << >>
            BY <5>1, Zenon DEF Splits
          <5>2. << >> \o sent[i] = sent[i]
            BY ConcatEmptySeq
          <5> QED
            BY <4>1, <4>2, <5>3, <5>2, Zenon
        <4>3. CASE i # 1
          <5>1. i - 1 \in 1..n
            BY <4>3
          <5> QED
            BY <4>1, <4>3, <5>1, Zenon
        <4> QED
          BY <4>2, <4>3
      <3> QED
        BY <3>1, Zenon
    <2>2. PICK f : IsFlat(f) /\ FlattenSeq(sent) = f[n]
      <3>1. IsFlat(CHOOSE f : IsFlat(f))
        BY <2>1, Zenon
      <3>2. FlattenSeq(sent) = (CHOOSE f : IsFlat(f))[n]
        BY <1>2, Zenon DEF FlattenSeq
      <3> QED
        BY <3>1, <3>2, Zenon
    <2> DEFINE Q == {k \in 0..n : k = 0 \/ f[k] = front[k]}
    <2>3. 0 \in Q
      OBVIOUS
    <2>4. ASSUME NEW k \in 1..n, k - 1 \in Q
          PROVE  k \in Q
      <3>1. f[k] = IF k = 1 THEN sent[k] ELSE f[k - 1] \o sent[k]
        BY <2>2, Zenon
      <3>2. h[k] = IF k = 1 THEN sent[k] ELSE h[k - 1] \o sent[k]
        BY <2>1, Zenon
      <3>3. h[k] = front[k]
        BY Zenon
      <3>4. k # 1 => k - 1 \in 1..n /\ k - 1 # 0
        OBVIOUS
      <3>5. k # 1 => h[k - 1] = front[k - 1]
        BY <3>4, Zenon
      <3>6. k # 1 => f[k - 1] = front[k - 1]
        BY <2>4, <3>4, Zenon
      <3>7. f[k] = front[k]
        BY <3>1, <3>2, <3>3, <3>5, <3>6, Zenon
      <3>8. k \in 0..n
        OBVIOUS
      <3> QED
        BY <3>7, <3>8, Zenon
    <2> HIDE DEF Q
    <2>5. \A k \in 0..n : k \in Q
      BY <2>3, <2>4, Counting
    <2>6. n \in Q
      BY <2>5
    <2>7. f[n] = front[n]
      BY <1>2, <2>6, Zenon DEF Q
    <2> QED
      BY <2>2, <2>7, Zenon
  <1> QED
    BY <1>1, <1>2

\* The pieces one after another are a sequence like each of them.
LEMMA FlattenIsSeq ==
  ASSUME NEW S, NEW sent \in Seq(Seq(S))
  PROVE  FlattenSeq(sent) \in Seq(S)
  <1>1. PICK n \in Nat : n = Len(sent) /\ (n = 0 => sent = << >>)
    BY LenProperties, EmptySeq
  <1>2. \A k \in 1..n : sent[k] \in Seq(S)
    BY <1>1, ElementOfSeq
  <1>3. PICK front, back : Splits(sent, n, S, front, back)
    BY <1>2, SplitsExist
  <1>4. FlattenSeq(sent) = front[n]
    BY <1>1, <1>2, <1>3, FlattenIsFront
  <1>5. n \in 0..n
    OBVIOUS
  <1>6. front[n] \in Seq(S)
    BY <1>3, <1>5, Zenon DEF Splits
  <1> QED
    BY <1>4, <1>6, Zenon

\* Three sequences may be joined in either order.
Grouped(a, b, c) == (a \o b) \o c = a \o (b \o c)

\* Joining is associative.
LEMMA Group ==
  ASSUME NEW S, NEW a \in Seq(S), NEW b \in Seq(S), NEW c \in Seq(S)
  PROVE  Grouped(a, b, c)
  <1>1. (a \o b) \o c = a \o (b \o c)
    BY ConcatAssociative
  <1> QED
    BY <1>1, Zenon DEF Grouped

\* The pieces of two lists, one after the other.
FlattenJoins(a, b) == FlattenSeq(a \o b) = FlattenSeq(a) \o FlattenSeq(b)

\* The bytes of two lists are those of the one and then those of the other.
LEMMA FlattenConcat ==
  ASSUME NEW S, NEW a \in Seq(Seq(S)), NEW b \in Seq(Seq(S))
  PROVE  FlattenJoins(a, b)
  <1>1. PICK n \in Nat, m \in Nat :
          n = Len(a) /\ m = Len(b) /\ (n = 0 => a = << >>) /\ (m = 0 => b = << >>)
    BY LenProperties, EmptySeq
  <1>2. PICK c : /\ c = a \o b /\ Len(c) = n + m /\ (n + m = 0 => c = << >>)
                 /\ \A k \in 1..(n + m) : c[k] \in Seq(S)
                 /\ \A k \in 1..n : c[k] = a[k]
                 /\ \A k \in 1..m : c[n + k] = b[k]
    <2>1. /\ a \o b \in Seq(Seq(S)) /\ Len(a \o b) = n + m
          /\ \A k \in 1..(n + m) : (a \o b)[k] = IF k <= n THEN a[k] ELSE b[k - n]
      BY <1>1, ConcatProperties
    <2>2. PICK c : c = a \o b
      OBVIOUS
    <2>3. c \in Seq(Seq(S)) /\ Len(c) = n + m
      BY <2>1, <2>2, Zenon
    <2>4. n + m = 0 => c = << >>
      BY <2>3, EmptySeq
    <2>5. \A k \in 1..(n + m) : c[k] \in Seq(S)
      BY <2>3, ElementOfSeq
    <2>6. ASSUME NEW k \in 1..n
          PROVE  c[k] = a[k]
      <3>1. k \in 1..(n + m) /\ k <= n
        OBVIOUS
      <3> QED
        BY <2>1, <2>2, <3>1, Zenon
    <2>7. ASSUME NEW k \in 1..m
          PROVE  c[n + k] = b[k]
      <3>1. n + k \in 1..(n + m) /\ ~(n + k <= n) /\ (n + k) - n = k
        OBVIOUS
      <3>2. c[n + k] = b[(n + k) - n]
        BY <2>1, <2>2, <3>1, Zenon
      <3> QED
        BY <3>1, <3>2, Zenon
    <2> QED
      BY <2>2, <2>3, <2>4, <2>5, <2>6, <2>7, Zenon
  <1>3. \A k \in 1..n : a[k] \in Seq(S)
    BY <1>1, ElementOfSeq
  <1>4. \A k \in 1..m : b[k] \in Seq(S)
    BY <1>1, ElementOfSeq
  <1>5. PICK fa, ba : Splits(a, n, S, fa, ba)
    BY <1>3, SplitsExist
  <1>6. PICK fb, bb : Splits(b, m, S, fb, bb)
    BY <1>4, SplitsExist
  <1>7. PICK l \in Nat : l = n + m
    OBVIOUS
  <1>8. PICK fc, bc : Splits(c, l, S, fc, bc)
    BY <1>2, <1>7, SplitsExist
  <1>9. FlattenSeq(a) = fa[n]
    BY <1>1, <1>3, <1>5, FlattenIsFront
  <1>10. FlattenSeq(b) = fb[m]
    BY <1>1, <1>4, <1>6, FlattenIsFront
  <1>11. FlattenSeq(c) = fc[l]
    <2>1. Len(c) = l /\ (l = 0 => c = << >>) /\ \A k \in 1..l : c[k] \in Seq(S)
      BY <1>2, <1>7, Zenon
    <2> HIDE <1>2
    <2> QED
      BY <1>8, <2>1, FlattenIsFront, SMTT(30)
  <1>12. fc[n] = fa[n]
    <2> DEFINE Q == {k \in 0..n : fc[k] = fa[k]}
    <2>1. 0 \in Q
      <3>1. 0 \in 0..n
        OBVIOUS
      <3>2. fc[0] = << >> /\ fa[0] = << >>
        BY <1>5, <1>8, Zenon DEF Splits
      <3> QED
        BY <3>1, <3>2, Zenon
    <2>2. ASSUME NEW k \in 1..n, k - 1 \in Q
          PROVE  k \in Q
      <3>1. k \in 0..n /\ k \in 1..l
        BY <1>7
      <3>2. fc[k] = fc[k - 1] \o c[k] /\ fa[k] = fa[k - 1] \o a[k]
        BY <1>5, <1>8, <3>1, Zenon DEF Splits
      <3>3. fc[k - 1] = fa[k - 1] /\ c[k] = a[k]
        BY <1>2, <2>2, Zenon
      <3> QED
        BY <3>1, <3>2, <3>3, Zenon
    <2> HIDE DEF Q
    <2>3. \A k \in 0..n : k \in Q
      BY <2>1, <2>2, Counting
    <2>4. n \in 0..n
      OBVIOUS
    <2> QED
      BY <2>3, <2>4, Zenon DEF Q
  <1>13. fc[n + m] = fa[n] \o fb[m]
    <2> DEFINE Q == {k \in 0..m : fc[n + k] = fa[n] \o fb[k]}
    <2>1. fa[n] \in Seq(S) /\ \A k \in 0..m : fb[k] \in Seq(S)
      <3>1. n \in 0..n
        OBVIOUS
      <3> QED
        BY <1>5, <1>6, <3>1, Zenon DEF Splits
    <2>2. 0 \in Q
      <3>1. 0 \in 0..m /\ n + 0 = n
        OBVIOUS
      <3>2. fb[0] = << >>
        BY <1>6, Zenon DEF Splits
      <3>3. fa[n] \o << >> = fa[n]
        BY <2>1, ConcatEmptySeq
      <3> QED
        BY <1>12, <3>1, <3>2, <3>3, Zenon
    <2>3. ASSUME NEW k \in 1..m, k - 1 \in Q
          PROVE  k \in Q
      <3>1. k \in 0..m /\ k - 1 \in 0..m /\ n + k \in 1..l /\ (n + k) - 1 = n + (k - 1)
        BY <1>7
      <3>2. fc[n + k] = fc[(n + k) - 1] \o c[n + k] /\ fb[k] = fb[k - 1] \o b[k]
        BY <1>6, <1>8, <3>1, Zenon DEF Splits
      <3>3. fc[(n + k) - 1] = fa[n] \o fb[k - 1] /\ c[n + k] = b[k]
        BY <1>2, <2>3, <3>1, Zenon
      <3>4. (fa[n] \o fb[k - 1]) \o b[k] = fa[n] \o (fb[k - 1] \o b[k])
        <4>1. fa[n] \in Seq(S) /\ fb[k - 1] \in Seq(S) /\ b[k] \in Seq(S)
          BY <1>4, <2>1, <3>1, Zenon
        <4>2. Grouped(fa[n], fb[k - 1], b[k])
          BY <4>1, Group
        <4> QED
          BY <4>2, Zenon DEF Grouped
      <3>5. fc[n + k] = fa[n] \o fb[k]
        BY <3>2, <3>3, <3>4, Zenon
      <3> QED
        BY <3>1, <3>5, Zenon
    <2> HIDE DEF Q
    <2>4. \A k \in 0..m : k \in Q
      BY <2>2, <2>3, Counting
    <2>5. m \in 0..m
      OBVIOUS
    <2> QED
      BY <2>4, <2>5, Zenon DEF Q
  <1> QED
    BY <1>2, <1>7, <1>9, <1>10, <1>11, <1>13, Zenon DEF FlattenJoins

----------------------------------------------------------------------------
(* Reading what was sent. *)

\* Every field is carried by its bytes.
AllCarried(sent, list, n, bare) ==
  /\ Len(list) = n /\ Len(sent) = n
  /\ \A k \in 1..n : Carries(sent[k], list[k], bare)

\* n fields take the room of their heads.
Room(size, n) == 6 * n <= size

\* With the bytes of one more field there is room for one more head.
LEMMA RoomForOneMore ==
  ASSUME NEW size \in Nat, NEW more \in Nat, NEW k \in Nat \ {0}, Room(size, k - 1), 6 <= more
  PROVE  Room(size + more, k)
  BY DEF Room

\* So the reader takes steps enough for all fields and the end.
LEMMA StepsSuffice ==
  ASSUME NEW size \in Nat, NEW n \in Nat, Room(size, n)
  PROVE  (size \div 6) + 2 \in Nat /\ n + 1 <= (size \div 6) + 2
  BY DEF Room

\* What is still to be read is empty or begins with a field, and there are
\* steps enough.
LEMMA CarriedSplits ==
  ASSUME NEW bare \in BOOLEAN, NEW n \in Nat, NEW sent, NEW list, AllCarried(sent, list, n, bare),
         NEW front, NEW back, Splits(sent, n, Bytes, front, back)
  PROVE  /\ \A k \in 0..n : back[k] \in Seq(Bytes) /\ (back[k] = << >> \/ Opens(back[k], bare))
         /\ Len(front[n]) \in Nat /\ Room(Len(front[n]), n)
  <1>1. \A k \in 0..n : front[k] \in Seq(Bytes) /\ back[k] \in Seq(Bytes)
    BY Zenon DEF Splits
  <1>2. \A k \in 1..n : sent[k] \in Seq(Bytes) /\ HeadSize(bare) <= Len(sent[k])
    <2> TAKE k \in 1..n
    <2>1. Carries(sent[k], list[k], bare)
      BY Zenon DEF AllCarried
    <2>2. << >> \in Seq(Bytes)
      BY EmptySeq
    <2> QED
      BY <2>1, <2>2, CarriedOpens
  <1>3. ASSUME NEW k \in 0..n
        PROVE  back[k] = << >> \/ Opens(back[k], bare)
    <2>1. CASE k = n
      BY <2>1, Zenon DEF Splits
    <2>2. CASE k # n
      <3>1. k + 1 \in 1..n /\ k + 1 \in 0..n /\ (k + 1) - 1 = k
        BY <2>2
      <3>2. back[k] = sent[k + 1] \o back[k + 1]
        <4>1. back[(k + 1) - 1] = sent[k + 1] \o back[k + 1]
          BY <3>1, Zenon DEF Splits
        <4> QED
          BY <3>1, <4>1, Zenon
      <3>3. Carries(sent[k + 1], list[k + 1], bare)
        BY <3>1, Zenon DEF AllCarried
      <3>4. back[k + 1] \in Seq(Bytes)
        BY <1>1, <3>1, Zenon
      <3>5. Opens(sent[k + 1] \o back[k + 1], bare)
        BY <3>3, <3>4, CarriedOpens
      <3> QED
        BY <3>2, <3>5, Zenon
    <2> QED
      BY <2>1, <2>2
  <1> DEFINE Q == {k \in 0..n : Room(Len(front[k]), k)}
  <1>4. 0 \in Q
    <2>1. front[0] = << >> /\ Len(<< >>) = 0
      BY EmptySeq DEF Splits
    <2>2. Room(0, 0)
      BY DEF Room
    <2>3. Room(Len(front[0]), 0)
      BY <2>1, <2>2, Zenon
    <2> QED
      BY <2>3
  <1>5. ASSUME NEW k \in 1..n, k - 1 \in Q
        PROVE  k \in Q
    <2>1. k - 1 \in 0..n /\ k \in 0..n /\ k \in Nat \ {0}
      OBVIOUS
    <2>2. Room(Len(front[k - 1]), k - 1)
      BY <1>5
    <2>3. front[k] = front[k - 1] \o sent[k]
      BY Zenon DEF Splits
    <2>4. front[k - 1] \in Seq(Bytes) /\ sent[k] \in Seq(Bytes)
      BY <1>1, <1>2, <2>1, Zenon
    <2>5. /\ Len(front[k - 1]) \in Nat /\ Len(sent[k]) \in Nat
          /\ Len(front[k]) = Len(front[k - 1]) + Len(sent[k])
      BY <2>3, <2>4, ConcatProperties, LenProperties
    <2>6. 6 <= Len(sent[k])
      <3>1. HeadSize(bare) \in {6, 8}
        BY DEF HeadSize, Header1Size, Header2Size
      <3>2. HeadSize(bare) <= Len(sent[k])
        BY <1>2, Zenon
      <3> QED
        BY <2>5, <3>1, <3>2
    <2>7. Room(Len(front[k - 1]) + Len(sent[k]), k)
      BY <2>1, <2>2, <2>5, <2>6, RoomForOneMore
    <2> QED
      BY <2>1, <2>5, <2>7
  <1> HIDE DEF Q
  <1>6. \A k \in 0..n : k \in Q
    BY <1>4, <1>5, Counting
  <1>7. n \in 0..n
    OBVIOUS
  <1>8. Room(Len(front[n]), n)
    BY <1>6, <1>7, Zenon DEF Q
  <1>9. Len(front[n]) \in Nat
    BY <1>1, <1>7, LenProperties
  <1> QED
    BY <1>1, <1>3, <1>8, <1>9, Zenon

\* Reading, step by step.
AreRead(read, buf, bare) ==
  read = [n \in 0..MostFields(buf) |->
            IF n = 0 THEN [list |-> << >>, rest |-> buf, result |-> "reading"]
            ELSE ReadField(read[n - 1], bare)]

Reading(list, rest) == [list |-> list, rest |-> rest, result |-> "reading"]

\* After the last field there is nothing more to read.
LEMMA ReadingEnds ==
  ASSUME NEW bare, NEW list
  PROVE  LET done == [list |-> list, rest |-> << >>, result |-> "SUCCESS"]
         IN  ReadField(Reading(list, << >>), bare) = done /\ ReadField(done, bare) = done
  <1>1. "SUCCESS" # "reading"
    OBVIOUS
  <1> QED
    BY <1>1 DEF ReadField, Reading

\* The first k elements, with one more.
LEMMA OneMoreElement ==
  ASSUME NEW S, NEW list \in Seq(S), NEW k \in 1..Len(list)
  PROVE  Append(SubSeq(list, 1, k - 1), list[k]) = SubSeq(list, 1, k)
  <1>1. 1 \in 1..Len(list) /\ k \in 1..Len(list) /\ k \in Int /\ k - 1 \in Int
    BY LenProperties
  <1>2. SubSeq(list, 1, k) = SubSeq(list, 1, k - 1) \o <<list[k]>>
    BY <1>1, SubSeqRecursiveSecond
  <1>3. SubSeq(list, 1, k - 1) \in Seq(S)
    <2>1. \A i \in 1..(k - 1) : list[i] \in S
      BY LenProperties, ElementOfSeq
    <2> QED
      BY <1>1, <2>1, SubSeqProperties
  <1>4. list[k] \in S
    BY ElementOfSeq
  <1>5. Append(SubSeq(list, 1, k - 1), list[k]) = SubSeq(list, 1, k - 1) \o <<list[k]>>
    BY <1>3, <1>4, AppendIsConcat
  <1> QED
    BY <1>2, <1>5, Zenon

\* Where the reading is after k steps.
Progress(list, n, back, k) ==
  IF k <= n THEN Reading(SubSeq(list, 1, k), back[k])
  ELSE [list |-> list, rest |-> << >>, result |-> "SUCCESS"]

\* Every step of the reader is one of this progress.
LEMMA OneStep ==
  ASSUME NEW bare \in BOOLEAN, NEW S, NEW list \in Seq(S), NEW n \in Nat, NEW sent,
         AllCarried(sent, list, n, bare),
         NEW front, NEW back, Splits(sent, n, Bytes, front, back), NEW k \in Nat \ {0}
  PROVE  ReadField(Progress(list, n, back, k - 1), bare) = Progress(list, n, back, k)
  <1>1. Len(list) = n
    BY Zenon DEF AllCarried
  <1>2. CASE k <= n
    <2>1. k \in 1..n /\ k - 1 <= n /\ k \in 0..n
      BY <1>2
    <2>2. k \in 1..Len(list)
      BY <1>1, <2>1, Zenon
    <2>3. /\ Carries(sent[k], list[k], bare)
          /\ back[k] \in Seq(Bytes) /\ (back[k] = << >> \/ Opens(back[k], bare))
      BY <2>1, CarriedSplits, Zenon DEF AllCarried
    <2>4. back[k - 1] = sent[k] \o back[k]
      BY <2>1, Zenon DEF Splits
    <2>5. ReadField([list |-> SubSeq(list, 1, k - 1), rest |-> sent[k] \o back[k],
                     result |-> "reading"], bare)
            = [list |-> Append(SubSeq(list, 1, k - 1), list[k]), rest |-> back[k],
               result |-> "reading"]
      <3>1. PICK part : part = SubSeq(list, 1, k - 1)
        OBVIOUS
      <3>2. PICK prop, bytes, more :
              prop = list[k] /\ bytes = sent[k] /\ more = back[k] /\ more \in Seq(Bytes)
        BY <2>3, Zenon
      <3>3. Carries(bytes, prop, bare) /\ (more = << >> \/ Opens(more, bare))
        BY <2>3, <3>2, Zenon
      <3>4. FieldIsRead(part, bytes, prop, more, bare)
        BY <3>2, <3>3, OneField
      <3> QED
        BY <3>1, <3>2, <3>4, Zenon DEF FieldIsRead
    <2>6. Append(SubSeq(list, 1, k - 1), list[k]) = SubSeq(list, 1, k)
      BY <2>2, OneMoreElement
    <2> QED
      BY <1>2, <2>1, <2>4, <2>5, <2>6, Zenon DEF Progress, Reading
  <1>3. CASE k = n + 1
    <2>1. ~(k <= n) /\ k - 1 = n /\ n <= n
      BY <1>3
    <2>2. back[n] = << >>
      BY Zenon DEF Splits
    <2>3. SubSeq(list, 1, n) = list
      <3>1. SubSeq(list, 1, Len(list)) = list
        BY SubSeqFull
      <3> QED
        BY <1>1, <3>1, Zenon
    <2>4. Progress(list, n, back, n) = Reading(list, << >>)
      BY <2>1, <2>2, <2>3, Zenon DEF Progress
    <2>5. Progress(list, n, back, k) = [list |-> list, rest |-> << >>, result |-> "SUCCESS"]
      BY <2>1, Zenon DEF Progress
    <2> QED
      BY <2>1, <2>4, <2>5, ReadingEnds, Zenon
  <1>4. CASE k > n + 1
    <2>1. ~(k <= n) /\ ~(k - 1 <= n)
      BY <1>4
    <2>2. /\ Progress(list, n, back, k) = [list |-> list, rest |-> << >>, result |-> "SUCCESS"]
          /\ Progress(list, n, back, k - 1) = [list |-> list, rest |-> << >>, result |-> "SUCCESS"]
      BY <2>1, Zenon DEF Progress
    <2> QED
      BY <2>2, ReadingEnds, Zenon
  <1>5. k <= n \/ k = n + 1 \/ k > n + 1
    OBVIOUS
  <1> QED
    BY <1>2, <1>3, <1>4, <1>5, Zenon

\* Fields that their bytes carry are read, all of them and nothing else, with
\* or without first headers, where the length of a field is told and where it
\* has to be found by searching for the next mark: parse_rjv3_buf_to_prop_list.
THEOREM FieldsAreRead ==
  ASSUME NEW bare \in BOOLEAN, NEW S, NEW list \in Seq(S), NEW sent \in Seq(Seq(Bytes)),
         AllCarried(sent, list, Len(list), bare)
  PROVE  parse_rjv3_buf_to_prop_list(FlattenSeq(sent), bare)
           = [list |-> list, result |-> "SUCCESS"]
  <1>1. PICK n \in Nat : n = Len(list) /\ n = Len(sent)
    BY LenProperties DEF AllCarried
  <1>2. AllCarried(sent, list, n, bare)
    BY <1>1, Zenon
  <1>3. \A k \in 1..n : sent[k] \in Seq(Bytes)
    BY <1>1, ElementOfSeq
  <1>4. n = 0 => sent = << >>
    BY <1>1, EmptySeq
  <1>5. PICK front, back : Splits(sent, n, Bytes, front, back)
    BY <1>3, SplitsExist
  <1>6. PICK buf : buf = FlattenSeq(sent)
    OBVIOUS
  <1>7. buf = front[n] /\ buf = back[0]
    <2>1. FlattenSeq(sent) = front[n]
      BY <1>1, <1>3, <1>4, <1>5, FlattenIsFront
    <2>2. 0 \in 0..n
      OBVIOUS
    <2>3. /\ front[0] \o back[0] = front[n] /\ front[0] = << >>
          /\ back[0] \in Seq(Bytes)
      BY <1>5, <2>2, Zenon DEF Splits
    <2>4. << >> \o back[0] = back[0]
      BY <2>3, ConcatEmptySeq
    <2> QED
      BY <1>6, <2>1, <2>3, <2>4, Zenon
  <1>8. PICK most \in Nat : most = MostFields(buf) /\ n + 1 <= most
    <2>1. Len(front[n]) \in Nat /\ Room(Len(front[n]), n)
      BY <1>2, <1>5, CarriedSplits
    <2>2. (Len(buf) \div 6) + 2 \in Nat /\ n + 1 <= (Len(buf) \div 6) + 2
      BY <1>7, <2>1, StepsSuffice
    <2>3. MostFields(buf) = (Len(buf) \div 6) + 2
      BY DEF MostFields, Header2Size
    <2> QED
      BY <2>2, <2>3, Zenon
  <1> DEFINE g == [k \in 0..most |-> Progress(list, n, back, k)]
  <1>9. \A k \in 1..most : k \in Nat \ {0} /\ k - 1 \in 0..most /\ k # 0 /\ k \in 0..most
    OBVIOUS
  <1>10. Progress(list, n, back, 0) = [list |-> << >>, rest |-> buf, result |-> "reading"]
    <2>1. 0 <= n
      OBVIOUS
    <2>2. SubSeq(list, 1, 0) = << >>
      BY SubSeqEmpty
    <2> QED
      BY <1>7, <2>1, <2>2, Zenon DEF Progress, Reading
  <1>11. \A k \in 1..most :
           Progress(list, n, back, k) = ReadField(Progress(list, n, back, k - 1), bare)
    BY <1>2, <1>5, <1>9, OneStep
  <1>12. AreRead(g, buf, bare)
    <2>1. ASSUME NEW k \in 0..most
          PROVE  Progress(list, n, back, k)
                   = IF k = 0 THEN [list |-> << >>, rest |-> buf, result |-> "reading"]
                     ELSE ReadField(g[k - 1], bare)
      <3>1. CASE k = 0
        BY <1>10, <3>1, Zenon
      <3>2. CASE k # 0
        <4>1. k \in 1..most
          BY <3>2
        <4>2. g[k - 1] = Progress(list, n, back, k - 1)
          BY <1>9, <4>1, Zenon
        <4> QED
          BY <1>11, <3>2, <4>1, <4>2, Zenon
      <3> QED
        BY <3>1, <3>2
    <2> QED
      BY <1>8, <2>1, Zenon DEF AreRead
  <1>13. PICK h : h[most] = [list |-> list, rest |-> << >>, result |-> "SUCCESS"]
                  /\ AreRead(h, buf, bare)
    <2>1. most \in 0..most /\ ~(most <= n)
      BY <1>8
    <2>2. g[most] = [list |-> list, rest |-> << >>, result |-> "SUCCESS"]
      BY <2>1, Zenon DEF Progress
    <2> HIDE DEF g
    <2> QED
      BY <1>12, <2>2, Zenon
  <1>14. PICK f : f = FieldsRead(buf, bare) /\ AreRead(f, buf, bare)
    <2>1. FieldsRead(buf, bare) = CHOOSE f : AreRead(f, buf, bare)
      BY Zenon DEF FieldsRead, AreRead
    <2> QED
      BY <1>12, <2>1, Zenon
  <1>15. \A k \in 0..most : f[k] = h[k]
    <2>1. 0 \in 0..most
      OBVIOUS
    <2>2. f[0] = h[0]
      <3>1. f[0] = [list |-> << >>, rest |-> buf, result |-> "reading"]
        BY <1>8, <1>14, <2>1, Zenon DEF AreRead
      <3>2. h[0] = [list |-> << >>, rest |-> buf, result |-> "reading"]
        BY <1>8, <1>13, <2>1, Zenon DEF AreRead
      <3> QED
        BY <3>1, <3>2, Zenon
    <2>3. ASSUME NEW k \in 1..most, f[k - 1] = h[k - 1]
          PROVE  f[k] = h[k]
      <3>1. k \in 0..MostFields(buf) /\ k # 0
        BY <1>8, <1>9, Zenon
      <3>2. f[k] = ReadField(f[k - 1], bare)
        BY <1>14, <3>1, Zenon DEF AreRead
      <3>3. h[k] = ReadField(h[k - 1], bare)
        BY <1>13, <3>1, Zenon DEF AreRead
      <3> QED
        BY <2>3, <3>2, <3>3, Zenon
    <2>4. \A k \in 1..most : f[k - 1] = h[k - 1] => f[k] = h[k]
      BY <2>3, Zenon
    <2> DEFINE Q == {k \in 0..most : f[k] = h[k]}
    <2>5. 0 \in Q
      BY <2>1, <2>2, Zenon
    <2>6. \A k \in 1..most : k - 1 \in Q => k \in Q
      BY <1>9, <2>4, Zenon
    <2> HIDE DEF Q
    <2>7. \A k \in 0..most : k \in Q
      BY <2>5, <2>6, Counting
    <2> QED
      BY <2>7, Zenon DEF Q
  <1>16. f[most] = [list |-> list, rest |-> << >>, result |-> "SUCCESS"]
    <2>1. most \in 0..most
      OBVIOUS
    <2> QED
      BY <1>13, <1>15, <2>1, Zenon
  <1>17. parse_rjv3_buf_to_prop_list(buf, bare) = [list |-> list, result |-> "SUCCESS"]
    <2>1. FieldsRead(buf, bare)[MostFields(buf)] = f[most]
      BY <1>8, <1>14, Zenon
    <2>2. f[most].list = list /\ f[most].result = "SUCCESS"
      BY <1>16
    <2> QED
      BY <2>1, <2>2, Zenon DEF parse_rjv3_buf_to_prop_list
  <1> QED
    BY <1>6, <1>17, Zenon

----------------------------------------------------------------------------
(* Writing. *)

\* The fields whose length fits the byte that tells it.
Fields == {Prop(type, content) : type \in Bytes, content \in {c \in Seq(Bytes) : Len(c) <= 253}}

\* The bytes of such a field carry it.
LEMMA FieldIsCarried ==
  ASSUME NEW prop \in Fields
  PROVE  FieldBytes(prop) \in Seq(Bytes) /\ Carries(FieldBytes(prop), prop, FALSE)
  <1>1. PICK type \in Bytes, content \in Seq(Bytes) :
          prop = Prop(type, content) /\ Len(content) <= 253
    BY DEF Fields
  <1>2. Len(content) \in Nat
    BY LenProperties
  <1>3. PICK total \in Bytes, len \in Bytes :
          /\ prop.headerType = 26 /\ prop.headerLen = total /\ prop.type = type
          /\ prop.len = len /\ prop.content = content /\ len = Len(content) + 2
    <2>1. \A k \in Nat : Byte(k) \in Bytes /\ (k <= 255 => Byte(k) = k)
      BY DEF Byte, Bytes
    <2>2. /\ Len(content) + 8 \in Nat /\ Len(content) + 2 \in Nat /\ Len(content) + 2 <= 255
          /\ Len(content) + Header1Size + Header2Size = Len(content) + 8
      BY <1>1, <1>2 DEF Header1Size, Header2Size
    <2>3. /\ Byte(Len(content) + Header1Size + Header2Size) \in Bytes
          /\ Byte(Len(content) + 2) \in Bytes
          /\ Byte(Len(content) + 2) = Len(content) + 2
      BY <2>1, <2>2, Zenon
    <2> QED
      BY <1>1, <2>3 DEF Prop
  <1>4. 26 \in Bytes
    BY DEF Bytes
  <1>5. FieldBytes(prop) = WireHead(FALSE, 26, total, type, len) \o content
    <2>1. WireHead(FALSE, 26, total, type, len) = <<26, total>> \o (Magic \o <<type, len>>)
      BY DEF WireHead
    <2> QED
      BY <1>3, <2>1, Zenon DEF FieldBytes, Header1Bytes, Header2Bytes
  <1>6. LengthServes(FALSE, 26, type, len, content)
    BY <1>3 DEF LengthServes
  <1>7. Carries(FieldBytes(prop), prop, FALSE)
    BY <1>1, <1>3, <1>4, <1>5, <1>6, Zenon DEF Carries
  <1>8. FieldBytes(prop) \in Seq(Bytes)
    <2>1. << >> \in Seq(Bytes)
      BY EmptySeq
    <2> QED
      BY <1>7, <2>1, CarriedOpens
  <1> QED
    BY <1>7, <1>8

\* The bytes of each field of a list.
Written(list) == [k \in 1..Len(list) |-> FieldBytes(list[k])]

\* They are sequences of bytes and carry the fields of the list.
LEMMA WrittenFacts ==
  ASSUME NEW list \in Seq(Fields)
  PROVE  /\ Written(list) \in Seq(Seq(Bytes)) /\ Len(Written(list)) = Len(list)
         /\ \A k \in 1..Len(list) :
              Written(list)[k] = FieldBytes(list[k]) /\ Written(list)[k] \in Seq(Bytes)
         /\ AllCarried(Written(list), list, Len(list), FALSE)
  <1>1. PICK n \in Nat : n = Len(list)
    BY LenProperties
  <1>2. \A k \in 1..n : list[k] \in Fields
    BY <1>1, ElementOfSeq
  <1>3. \A k \in 1..n : /\ FieldBytes(list[k]) \in Seq(Bytes)
                        /\ Carries(FieldBytes(list[k]), list[k], FALSE)
    BY <1>2, FieldIsCarried
  <1>4. PICK T : T = Seq(Bytes)
    OBVIOUS
  <1>5. PICK w : w = Written(list)
    OBVIOUS
  <1>6. w = [k \in 1..n |-> FieldBytes(list[k])]
    BY <1>1, <1>5, Zenon DEF Written
  <1>7. \A k \in 1..n : w[k] = FieldBytes(list[k])
    BY <1>6, Zenon
  <1>8. w \in [1..n -> T]
    BY <1>3, <1>4, <1>6, Zenon
  <1>9. w \in Seq(T) /\ Len(w) = n
    BY <1>8
  <1> QED
    BY <1>1, <1>3, <1>4, <1>5, <1>7, <1>9, Zenon DEF AllCarried

\* One more field, as append_rjv3_prop_list_to_buffer writes it.
AppendOne(before, prop, buf, room) ==
  LET single == append_rjv3_prop_to_buffer(prop, room - before.len)
  IN  [buf |-> SubSeq(before.buf, 1, Len(buf) + before.len + (IF single < 0 THEN -1 ELSE 0))
                 \o (IF single < 0 THEN << >> ELSE FieldBytes(prop)),
       len |-> before.len + single]

\* Writing, field by field.
AreAppended(upTo, list, buf, room) ==
  upTo = [k \in 0..Len(list) |-> IF k = 0 THEN [buf |-> buf, len |-> 0]
                                 ELSE AppendOne(upTo[k - 1], list[k], buf, room)]

\* The field is behind what was written.
IsAppended(buf, front, bytes, prop, room) ==
  AppendOne([buf |-> buf \o front, len |-> Len(front)], prop, buf, room)
    = [buf |-> buf \o (front \o bytes), len |-> Len(front \o bytes)]

\* A field with room enough is put behind what is there.
LEMMA OneFits ==
  ASSUME NEW prop, NEW bytes \in Seq(Bytes), bytes = FieldBytes(prop),
         NEW buf \in Seq(Bytes), NEW front \in Seq(Bytes), NEW room \in Int,
         Len(front) + Len(bytes) <= room
  PROVE  IsAppended(buf, front, bytes, prop, room)
  <1>1. PICK n \in Nat, m \in Nat, l \in Nat : n = Len(buf) /\ m = Len(front) /\ l = Len(bytes)
    BY LenProperties
  <1>2. append_rjv3_prop_to_buffer(prop, room - m) = l
    BY <1>1 DEF append_rjv3_prop_to_buffer
  <1>3. PICK all : /\ all = buf \o front
                   /\ all \in Seq(Bytes) /\ Len(all) = n + m
    <2>1. buf \o front \in Seq(Bytes) /\ Len(buf \o front) = n + m
      BY <1>1, ConcatProperties
    <2> QED
      BY <2>1, Zenon
  <1>4. SubSeq(all, 1, n + m) = all
    BY <1>3, SubSeqFull
  <1>5. ~(l < 0) /\ n + m + 0 = n + m
    BY <1>1
  <1>6. all \o bytes = buf \o (front \o bytes)
    BY <1>3, ConcatAssociative, SMTT(30)
  <1>7. Len(front \o bytes) = m + l
    BY <1>1, ConcatProperties
  <1>8. PICK before : before = [buf |-> all, len |-> m]
    OBVIOUS
  <1>9. before.buf = all /\ before.len = m
    BY <1>8
  <1>10. AppendOne(before, prop, buf, room)
           = [buf |-> SubSeq(all, 1, n + m + (IF l < 0 THEN -1 ELSE 0))
                        \o (IF l < 0 THEN << >> ELSE bytes), len |-> m + l]
    BY <1>1, <1>2, <1>9, Zenon DEF AppendOne
  <1>11. AppendOne(before, prop, buf, room) = [buf |-> all \o bytes, len |-> m + l]
    <2>1. (IF l < 0 THEN -1 ELSE 0) = 0 /\ (IF l < 0 THEN << >> ELSE bytes) = bytes
      BY <1>5, Zenon
    <2> QED
      BY <1>4, <1>5, <1>10, <2>1, Zenon
  <1> QED
    BY <1>1, <1>3, <1>6, <1>7, <1>8, <1>11, Zenon DEF IsAppended

\* The bytes of a list as far as they are written.
WrittenUpto(buf, front, k) == [buf |-> buf \o front[k], len |-> Len(front[k])]

NextIsAppended(list, buf, room, front, k) ==
  AppendOne(WrittenUpto(buf, front, k - 1), list[k], buf, room) = WrittenUpto(buf, front, k)

\* While all fit, each field brings the writing one further.
LEMMA NextFits ==
  ASSUME NEW list \in Seq(Fields), NEW n \in Nat, n = Len(list), NEW buf \in Seq(Bytes),
         NEW room \in Int, NEW front, NEW back,
         Splits(Written(list), n, Bytes, front, back), Len(front[n]) <= room, NEW k \in 1..n
  PROVE  NextIsAppended(list, buf, room, front, k)
  <1>1. k - 1 \in 0..n /\ k \in 0..n /\ n \in 0..n
    OBVIOUS
  <1>2. PICK before \in Seq(Bytes), here \in Seq(Bytes), after \in Seq(Bytes),
             whole \in Seq(Bytes), bytes \in Seq(Bytes) :
          /\ before = front[k - 1] /\ here = front[k] /\ after = back[k] /\ whole = front[n]
          /\ bytes = FieldBytes(list[k])
          /\ here = before \o bytes /\ here \o after = whole
    <2>1. /\ front[k - 1] \in Seq(Bytes) /\ front[k] \in Seq(Bytes)
          /\ back[k] \in Seq(Bytes) /\ front[n] \in Seq(Bytes)
      BY <1>1, Zenon DEF Splits
    <2>2. Written(list)[k] = FieldBytes(list[k]) /\ Written(list)[k] \in Seq(Bytes)
      BY WrittenFacts
    <2>3. front[k] = front[k - 1] \o Written(list)[k] /\ front[k] \o back[k] = front[n]
      BY <1>1, Zenon DEF Splits
    <2> QED
      BY <2>1, <2>2, <2>3, Zenon
  <1>3. Len(before) + Len(bytes) <= room
    <2>1. Len(here) = Len(before) + Len(bytes) /\ Len(whole) = Len(here) + Len(after)
      <3>1. /\ Len(before \o bytes) = Len(before) + Len(bytes)
            /\ Len(here \o after) = Len(here) + Len(after)
        BY ConcatProperties
      <3> QED
        BY <1>2, <3>1, Zenon
    <2>2. Len(after) \in Nat /\ Len(before) \in Nat /\ Len(bytes) \in Nat
      BY LenProperties
    <2>3. Len(whole) <= room
      BY <1>2, Zenon
    <2> HIDE <1>2
    <2> QED
      BY <2>1, <2>2, <2>3
  <1>4. IsAppended(buf, before, bytes, list[k], room)
    <2>1. bytes = FieldBytes(list[k])
      BY <1>2, Zenon
    <2> HIDE <1>2
    <2> QED
      BY <1>3, <2>1, OneFits
  <1> QED
    BY <1>2, <1>4, Zenon DEF WrittenUpto, IsAppended, NextIsAppended

\* A list that fits is written behind the buffer, one field after another:
\* append_rjv3_prop_list_to_buffer.
THEOREM FieldsAreWritten ==
  ASSUME NEW list \in Seq(Fields), NEW buf \in Seq(Bytes), NEW room \in Int,
         Len(FlattenSeq(Written(list))) <= room
  PROVE  append_rjv3_prop_list_to_buffer(list, buf, room)
           = [buf |-> buf \o FlattenSeq(Written(list)), len |-> Len(FlattenSeq(Written(list)))]
  <1>1. PICK n \in Nat : n = Len(list)
    BY LenProperties
  <1>2. PICK sent : /\ sent = Written(list)
                    /\ Len(sent) = n /\ (n = 0 => sent = << >>)
                    /\ \A k \in 1..n : sent[k] \in Seq(Bytes)
    <2>1. /\ Written(list) \in Seq(Seq(Bytes)) /\ Len(Written(list)) = Len(list)
          /\ \A k \in 1..Len(list) : Written(list)[k] \in Seq(Bytes)
      BY WrittenFacts
    <2>2. n = 0 => Written(list) = << >>
      BY <1>1, <2>1, EmptySeq
    <2> QED
      BY <1>1, <2>1, <2>2, Zenon
  <1>3. PICK front, back : Splits(sent, n, Bytes, front, back)
    BY <1>2, SplitsExist
  <1>4. FlattenSeq(sent) = front[n]
    BY <1>2, <1>3, FlattenIsFront
  <1>5. Len(front[n]) <= room
    BY <1>2, <1>4, Zenon
  <1> DEFINE h == [k \in 0..n |-> WrittenUpto(buf, front, k)]
  <1>6. \A k \in 1..n : k \in 0..n /\ k - 1 \in 0..n /\ k # 0
    OBVIOUS
  <1>7. \A k \in 1..n :
          AppendOne(WrittenUpto(buf, front, k - 1), list[k], buf, room) = WrittenUpto(buf, front, k)
    <2>1. Splits(Written(list), n, Bytes, front, back)
      BY <1>2, <1>3, Zenon
    <2>2. \A k \in 1..n : NextIsAppended(list, buf, room, front, k)
      BY <1>1, <1>5, <2>1, NextFits
    <2> QED
      BY <2>2, Zenon DEF NextIsAppended
  <1>8. WrittenUpto(buf, front, 0) = [buf |-> buf, len |-> 0]
    <2>1. front[0] = << >>
      BY <1>3, Zenon DEF Splits
    <2>2. buf \o << >> = buf /\ Len(<< >>) = 0
      BY ConcatEmptySeq, EmptySeq
    <2> QED
      BY <2>1, <2>2, Zenon DEF WrittenUpto
  <1>9. AreAppended(h, list, buf, room)
    <2>1. ASSUME NEW k \in 0..n
          PROVE  WrittenUpto(buf, front, k)
                   = IF k = 0 THEN [buf |-> buf, len |-> 0]
                     ELSE AppendOne(h[k - 1], list[k], buf, room)
      <3>1. CASE k = 0
        BY <1>8, <3>1, Zenon
      <3>2. CASE k # 0
        <4>1. k \in 1..n
          BY <3>2
        <4>2. h[k - 1] = WrittenUpto(buf, front, k - 1)
          BY <1>6, <4>1, Zenon
        <4> QED
          BY <1>7, <3>2, <4>1, <4>2, Zenon
      <3> QED
        BY <3>1, <3>2
    <2> QED
      BY <1>1, <2>1, Zenon DEF AreAppended, AppendOne
  <1>10. PICK g : AreAppended(g, list, buf, room)
                  /\ g[n] = [buf |-> buf \o front[n], len |-> Len(front[n])]
    <2>1. n \in 0..n
      OBVIOUS
    <2>2. h[n] = [buf |-> buf \o front[n], len |-> Len(front[n])]
      BY <2>1, Zenon DEF WrittenUpto
    <2> HIDE DEF h
    <2> QED
      BY <1>9, <2>2, Zenon
  <1> HIDE DEF h
  <1>11. PICK f : AreAppended(f, list, buf, room)
                  /\ append_rjv3_prop_list_to_buffer(list, buf, room) = f[n]
    <2>1. append_rjv3_prop_list_to_buffer(list, buf, room)
            = (CHOOSE f : AreAppended(f, list, buf, room))[n]
      BY <1>1, Zenon DEF append_rjv3_prop_list_to_buffer, AreAppended, AppendOne
    <2> QED
      BY <1>10, <2>1, Zenon
  <1>12. f[n] = g[n]
    <2> DEFINE Q == {k \in 0..n : f[k] = g[k]}
    <2>1. ASSUME NEW u, AreAppended(u, list, buf, room)
          PROVE  /\ u[0] = [buf |-> buf, len |-> 0]
                 /\ \A k \in 1..n : u[k] = AppendOne(u[k - 1], list[k], buf, room)
      <3>1. 0 \in 0..n
        OBVIOUS
      <3> QED
        BY <1>1, <1>6, <2>1, <3>1, Zenon DEF AreAppended, AppendOne
    <2>2. 0 \in Q
      <3>1. 0 \in 0..n
        OBVIOUS
      <3>2. f[0] = [buf |-> buf, len |-> 0]
        BY <1>11, <2>1, Zenon
      <3>3. g[0] = [buf |-> buf, len |-> 0]
        BY <1>10, <2>1, Zenon
      <3> QED
        BY <3>1, <3>2, <3>3, Zenon
    <2>3. ASSUME NEW k \in 1..n, k - 1 \in Q
          PROVE  k \in Q
      <3>1. f[k - 1] = g[k - 1]
        BY <2>3, Zenon
      <3>2. f[k] = AppendOne(f[k - 1], list[k], buf, room)
        BY <1>11, <2>1, Zenon
      <3>3. g[k] = AppendOne(g[k - 1], list[k], buf, room)
        BY <1>10, <2>1, Zenon
      <3> QED
        BY <1>6, <3>1, <3>2, <3>3, Zenon
    <2> HIDE DEF Q
    <2>4. \A k \in 0..n : k \in Q
      BY <2>2, <2>3, Counting
    <2>5. n \in 0..n
      OBVIOUS
    <2> QED
      BY <2>4, <2>5, Zenon DEF Q
  <1> QED
    BY <1>2, <1>4, <1>10, <1>11, <1>12, Zenon

\* What is written into an empty buffer is read back: the fields of a frame of
\* the client are those it put there, whatever their types and contents.
THEOREM WrittenIsRead ==
  ASSUME NEW list \in Seq(Fields), NEW room \in Int, Len(FlattenSeq(Written(list))) <= room
  PROVE  parse_rjv3_buf_to_prop_list(append_rjv3_prop_list_to_buffer(list, << >>, room).buf, FALSE)
           = [list |-> list, result |-> "SUCCESS"]
  <1>1. PICK sent : /\ sent = Written(list) /\ sent \in Seq(Seq(Bytes))
                    /\ AllCarried(sent, list, Len(list), FALSE)
    BY WrittenFacts, Zenon
  <1>2. parse_rjv3_buf_to_prop_list(FlattenSeq(sent), FALSE) = [list |-> list, result |-> "SUCCESS"]
    BY <1>1, FieldsAreRead
  <1>3. PICK bytes : bytes = FlattenSeq(Written(list)) /\ bytes \in Seq(Bytes)
    BY <1>1, FlattenIsSeq, Zenon
  <1>4. append_rjv3_prop_list_to_buffer(list, << >>, room)
          = [buf |-> << >> \o bytes, len |-> Len(bytes)]
    <2>1. << >> \in Seq(Bytes)
      BY EmptySeq
    <2> QED
      BY <1>3, <2>1, FieldsAreWritten
  <1>5. << >> \o bytes = bytes
    BY <1>3, ConcatEmptySeq
  <1>6. append_rjv3_prop_list_to_buffer(list, << >>, room).buf = bytes
    BY <1>4, <1>5
  <1> QED
    BY <1>1, <1>2, <1>3, <1>6, Zenon

\* Where there are fields there are bytes.
LEMMA FieldsTakeRoom ==
  ASSUME NEW list \in Seq(Fields), list # << >>
  PROVE  Len(FlattenSeq(Written(list))) # 0
  <1>1. PICK sent : /\ sent = Written(list) /\ sent \in Seq(Seq(Bytes))
                    /\ AllCarried(sent, list, Len(list), FALSE)
    BY WrittenFacts, Zenon
  <1>2. PICK n \in Nat \ {0} : n = Len(list) /\ n = Len(sent)
    BY <1>1, LenProperties, EmptySeq DEF AllCarried
  <1>3. \A k \in 1..n : sent[k] \in Seq(Bytes)
    BY <1>1, <1>2, ElementOfSeq
  <1>4. n \in Nat /\ n # 0 /\ AllCarried(sent, list, n, FALSE)
    BY <1>1, <1>2, Zenon
  <1>5. PICK front, back : Splits(sent, n, Bytes, front, back)
    BY <1>3, <1>4, SplitsExist
  <1>6. FlattenSeq(sent) = front[n]
    BY <1>2, <1>3, <1>4, <1>5, FlattenIsFront
  <1>7. Len(front[n]) \in Nat /\ Room(Len(front[n]), n)
    BY <1>4, <1>5, CarriedSplits
  <1>8. Len(front[n]) # 0
    BY <1>4, <1>7 DEF Room
  <1> QED
    BY <1>1, <1>6, <1>8, Zenon

----------------------------------------------------------------------------
(* The trailer of a frame. *)

\* The bytes of two lists, one after the other.
LEMMA WrittenConcat ==
  ASSUME NEW a \in Seq(Fields), NEW b \in Seq(Fields)
  PROVE  FlattenSeq(Written(a \o b)) = FlattenSeq(Written(a)) \o FlattenSeq(Written(b))
  <1>1. PICK n \in Nat, m \in Nat : n = Len(a) /\ m = Len(b)
    BY LenProperties
  <1>2. PICK c : /\ c = a \o b /\ c \in Seq(Fields) /\ Len(c) = n + m
                 /\ \A k \in 1..(n + m) : c[k] = IF k <= n THEN a[k] ELSE b[k - n]
    <2>1. /\ a \o b \in Seq(Fields) /\ Len(a \o b) = n + m
          /\ \A k \in 1..(n + m) : (a \o b)[k] = IF k <= n THEN a[k] ELSE b[k - n]
      BY <1>1, ConcatProperties
    <2> QED
      BY <2>1, Zenon
  <1>3. /\ Written(a) \in Seq(Seq(Bytes)) /\ Len(Written(a)) = n
        /\ \A k \in 1..n : Written(a)[k] = FieldBytes(a[k])
        /\ Written(b) \in Seq(Seq(Bytes)) /\ Len(Written(b)) = m
        /\ \A k \in 1..m : Written(b)[k] = FieldBytes(b[k])
        /\ Written(c) \in Seq(Seq(Bytes)) /\ Len(Written(c)) = n + m
        /\ \A k \in 1..(n + m) : Written(c)[k] = FieldBytes(c[k])
    <2>1. /\ Written(a) \in Seq(Seq(Bytes)) /\ Len(Written(a)) = Len(a)
          /\ \A k \in 1..Len(a) : Written(a)[k] = FieldBytes(a[k])
      BY WrittenFacts
    <2>2. /\ Written(b) \in Seq(Seq(Bytes)) /\ Len(Written(b)) = Len(b)
          /\ \A k \in 1..Len(b) : Written(b)[k] = FieldBytes(b[k])
      BY WrittenFacts
    <2>3. /\ Written(c) \in Seq(Seq(Bytes)) /\ Len(Written(c)) = Len(c)
          /\ \A k \in 1..Len(c) : Written(c)[k] = FieldBytes(c[k])
      BY <1>2, WrittenFacts
    <2>4. /\ Written(a) \in Seq(Seq(Bytes)) /\ Len(Written(a)) = n
          /\ \A k \in 1..n : Written(a)[k] = FieldBytes(a[k])
      BY <1>1, <2>1, Zenon
    <2>5. /\ Written(b) \in Seq(Seq(Bytes)) /\ Len(Written(b)) = m
          /\ \A k \in 1..m : Written(b)[k] = FieldBytes(b[k])
      BY <1>1, <2>2, Zenon
    <2>6. /\ Written(c) \in Seq(Seq(Bytes)) /\ Len(Written(c)) = n + m
          /\ \A k \in 1..(n + m) : Written(c)[k] = FieldBytes(c[k])
      BY <1>2, <2>3, Zenon
    <2> QED
      BY <2>4, <2>5, <2>6, Zenon
  <1>4. PICK T : T = Seq(Bytes)
    OBVIOUS
  <1>5. PICK wa : /\ wa = Written(a) /\ wa \in Seq(T) /\ Len(wa) = n
                  /\ \A k \in 1..n : wa[k] = FieldBytes(a[k])
    BY <1>3, <1>4, Zenon
  <1>6. PICK wb : /\ wb = Written(b) /\ wb \in Seq(T) /\ Len(wb) = m
                  /\ \A k \in 1..m : wb[k] = FieldBytes(b[k])
    BY <1>3, <1>4, Zenon
  <1>7. PICK wc : /\ wc = Written(c) /\ wc \in Seq(T) /\ Len(wc) = n + m
                  /\ \A k \in 1..(n + m) : wc[k] = FieldBytes(c[k])
    BY <1>3, <1>4, Zenon
  <1>8. wc = wa \o wb
    <2>1. wa \in Seq(T) /\ wb \in Seq(T) /\ Len(wa) = n /\ Len(wb) = m
      BY <1>4, <1>5, <1>6, <1>7, Zenon
    <2>2. PICK w : w = wa \o wb
      OBVIOUS
    <2>3. /\ w \in Seq(T) /\ Len(w) = n + m
          /\ \A k \in 1..(n + m) : w[k] = IF k <= n THEN wa[k] ELSE wb[k - n]
      BY <2>1, <2>2, ConcatProperties
    <2>4. ASSUME NEW k \in 1..(n + m)
          PROVE  wc[k] = w[k]
      <3>0. /\ w[k] = IF k <= n THEN wa[k] ELSE wb[k - n]
            /\ wc[k] = FieldBytes(c[k]) /\ c[k] = IF k <= n THEN a[k] ELSE b[k - n]
        BY <1>2, <1>4, <1>5, <1>6, <1>7, <2>3, Zenon
      <3>1. CASE k <= n
        <4>1. k \in 1..n
          BY <3>1
        <4>2. wa[k] = FieldBytes(a[k])
          BY <1>4, <1>5, <1>6, <1>7, <4>1, Zenon
        <4>3. w[k] = wa[k] /\ c[k] = a[k]
          BY <3>0, <3>1, Zenon
        <4> QED
          BY <3>0, <4>2, <4>3, Zenon
      <3>2. CASE ~(k <= n)
        <4>1. k - n \in 1..m
          BY <3>2
        <4>2. wb[k - n] = FieldBytes(b[k - n])
          BY <1>4, <1>5, <1>6, <1>7, <4>1, Zenon
        <4>3. w[k] = wb[k - n] /\ c[k] = b[k - n]
          BY <3>0, <3>2, Zenon
        <4> QED
          BY <3>0, <4>2, <4>3, Zenon
      <3> QED
        BY <3>1, <3>2
    <2>5. wc \in Seq(T) /\ Len(wc) = n + m
      BY <1>4, <1>5, <1>6, <1>7, Zenon
    <2>6. wc = w
      <3>1. w \in Seq(T) /\ wc \in Seq(T) /\ Len(wc) = Len(w)
            /\ \A k \in 1..Len(wc) : wc[k] = w[k]
        BY <2>3, <2>4, <2>5, Zenon
      <3> HIDE <1>4, <1>5, <1>6, <1>7, <2>1, <2>3, <2>5
      <3> QED
        BY <3>1, SeqEqual
    <2> QED
      BY <2>2, <2>6, Zenon
  <1>9. wa \in Seq(Seq(Bytes)) /\ wb \in Seq(Seq(Bytes))
    BY <1>4, <1>5, <1>6, <1>7, Zenon
  <1>10. FlattenJoins(wa, wb)
    BY <1>9, FlattenConcat
  <1> QED
    BY <1>2, <1>4, <1>5, <1>6, <1>7, <1>8, <1>10, Zenon DEF FlattenJoins

\* A replacement is a field like the one it replaces.
LEMMA OneReplaced ==
  ASSUME NEW list \in Seq(Fields), NEW mod \in Fields
  PROVE  /\ modify_rjv3_prop(list, mod.type, mod.content).list \in Seq(Fields)
         /\ modify_rjv3_prop(list, mod.type, mod.content).delta \in Int
  <1>1. PICK type \in Bytes, content \in Seq(Bytes) :
          mod = Prop(type, content) /\ Len(content) <= 253
    BY DEF Fields
  <1>2. mod.type = type /\ mod.content = content
    BY <1>1 DEF Prop
  <1>3. Prop(mod.type, mod.content) = mod
    BY <1>1, <1>2, Zenon
  <1>4. \A prop \in Fields : prop.len \in Int
    <2> TAKE prop \in Fields
    <2>1. PICK t \in Bytes, c \in Seq(Bytes) : prop = Prop(t, c)
      BY DEF Fields
    <2>2. prop.len = Byte(Len(c) + 2)
      BY <2>1 DEF Prop
    <2>3. Len(c) \in Nat
      BY LenProperties
    <2> QED
      BY <2>2, <2>3 DEF Byte
  <1> DEFINE found == PositionsOf(list, mod.type)
  <1>5. CASE found = {}
    <2>1. modify_rjv3_prop(list, mod.type, mod.content) = [list |-> list, delta |-> 0]
      BY <1>5, Zenon DEF modify_rjv3_prop
    <2> QED
      BY <2>1
  <1>6. CASE found # {}
    <2>1. found \subseteq 1..Len(list) /\ found \subseteq Nat
      BY LenProperties DEF PositionsOf
    <2> HIDE DEF found
    <2>2. PICK at \in found : at = FirstOf(found)
      <3>1. \E x \in found : \A y \in found : x <= y
        BY <1>6, <2>1, LeastNatural
      <3>2. FirstOf(found) \in found
        BY <3>1, Zenon DEF FirstOf
      <3> QED
        BY <3>2
    <2>3. at \in 1..Len(list)
      BY <2>1
    <2>4. modify_rjv3_prop(list, mod.type, mod.content)
            = [list |-> [list EXCEPT ![at] = mod], delta |-> mod.len - list[at].len]
      BY <1>3, <1>6, <2>2, Zenon DEF modify_rjv3_prop, found
    <2>5. [list EXCEPT ![at] = mod] \in Seq(Fields)
      BY <2>3, ExceptSeq
    <2>6. mod.len - list[at].len \in Int
      <3>1. list[at] \in Fields
        BY <2>3, ElementOfSeq
      <3>2. mod.len \in Int /\ list[at].len \in Int
        BY <1>4, <3>1, Zenon
      <3> QED
        BY <3>2
    <2>7. PICK changed : changed = [list EXCEPT ![at] = mod]
      OBVIOUS
    <2>8. PICK grown : grown = mod.len - list[at].len
      OBVIOUS
    <2>9. modify_rjv3_prop(list, mod.type, mod.content) = [list |-> changed, delta |-> grown]
      BY <2>4, <2>7, <2>8, Zenon
    <2>10. modify_rjv3_prop(list, mod.type, mod.content).list = changed
           /\ modify_rjv3_prop(list, mod.type, mod.content).delta = grown
      BY <2>9
    <2> QED
      BY <2>5, <2>6, <2>7, <2>8, <2>10, Zenon
  <1> QED
    BY <1>5, <1>6

\* Replacing, one after another.
ReplaceOne(before, mod) ==
  LET one == modify_rjv3_prop(before.list, mod.type, mod.content)
  IN  [list |-> one.list, delta |-> before.delta + one.delta]

AreReplaced(upTo, org, mods, m) ==
  upTo = [k \in 0..m |-> IF k = 0 THEN [list |-> org, delta |-> 0]
                         ELSE ReplaceOne(upTo[k - 1], mods[k])]

\* There is such a function.
LEMMA ReplacedExist ==
  ASSUME NEW org, NEW mods, NEW n \in Nat
  PROVE  \E f : AreReplaced(f, org, mods, n)
  <1> DEFINE Q == {m \in 0..n : \E f : AreReplaced(f, org, mods, m)}
  <1>1. 0 \in Q
    <2> DEFINE f == [k \in 0..0 |-> [list |-> org, delta |-> 0]]
    <2>1. \A k \in 0..0 : k = 0
      OBVIOUS
    <2>2. AreReplaced(f, org, mods, 0)
      BY <2>1, Zenon DEF AreReplaced
    <2>3. 0 \in 0..n
      OBVIOUS
    <2> HIDE DEF f
    <2> QED
      BY <2>2, <2>3, Zenon
  <1>2. ASSUME NEW m \in 1..n, m - 1 \in Q
        PROVE  m \in Q
    <2>1. PICK f : AreReplaced(f, org, mods, m - 1)
      BY <1>2, Zenon
    <2> DEFINE g == [k \in 0..m |-> IF k = m THEN ReplaceOne(f[m - 1], mods[m]) ELSE f[k]]
    <2>2. /\ m # 0 /\ m - 1 # m /\ m \in 0..n
          /\ \A k \in 0..m : k # m => k \in 0..(m - 1)
          /\ \A k \in 0..m : k # 0 => k - 1 \in 0..m /\ k - 1 # m
      OBVIOUS
    <2>3. ASSUME NEW k \in 0..m
          PROVE  g[k] = IF k = 0 THEN [list |-> org, delta |-> 0] ELSE ReplaceOne(g[k - 1], mods[k])
      <3>1. k # 0 => g[k - 1] = f[k - 1]
        BY <2>2, Zenon
      <3>2. CASE k = m
        BY <2>2, <3>1, <3>2, Zenon
      <3>3. CASE k # m
        <4>1. g[k] = f[k] /\ k \in 0..(m - 1)
          BY <2>2, <3>3, Zenon
        <4>2. f[k] = IF k = 0 THEN [list |-> org, delta |-> 0] ELSE ReplaceOne(f[k - 1], mods[k])
          BY <2>1, <4>1, Zenon DEF AreReplaced
        <4> QED
          BY <3>1, <4>1, <4>2, Zenon
      <3> QED
        BY <3>2, <3>3
    <2>4. g = [k \in 0..m |-> g[k]]
      BY Zenon
    <2> HIDE DEF g
    <2>5. AreReplaced(g, org, mods, m)
      BY <2>3, <2>4, Zenon DEF AreReplaced
    <2> QED
      BY <2>2, <2>5, Zenon
  <1> HIDE DEF Q
  <1>3. \A m \in 0..n : m \in Q
    BY <1>1, <1>2, Counting
  <1>4. n \in 0..n
    OBVIOUS
  <1> QED
    BY <1>3, <1>4, Zenon DEF Q

\* The replaced list is one of fields, however many are replaced.
LEMMA AllReplaced ==
  ASSUME NEW org \in Seq(Fields), NEW mods \in Seq(Fields)
  PROVE  /\ modify_rjv3_prop_list(org, mods).list \in Seq(Fields)
         /\ modify_rjv3_prop_list(org, mods).delta \in Int
  <1>1. PICK n \in Nat : n = Len(mods)
    BY LenProperties
  <1>2. \A k \in 1..n : mods[k] \in Fields
    BY <1>1, ElementOfSeq
  <1>3. PICK f : AreReplaced(f, org, mods, n) /\ modify_rjv3_prop_list(org, mods) = f[n]
    <2>1. \E f : AreReplaced(f, org, mods, n)
      BY ReplacedExist
    <2>2. modify_rjv3_prop_list(org, mods) = (CHOOSE f : AreReplaced(f, org, mods, n))[n]
      BY <1>1, Zenon DEF modify_rjv3_prop_list, AreReplaced, ReplaceOne
    <2> QED
      BY <2>1, <2>2, Zenon
  <1> DEFINE Q == {k \in 0..n : f[k].list \in Seq(Fields) /\ f[k].delta \in Int}
  <1>4. 0 \in Q
    <2>1. 0 \in 0..n
      OBVIOUS
    <2>2. f[0] = [list |-> org, delta |-> 0]
      BY <1>3, <2>1, Zenon DEF AreReplaced
    <2> QED
      BY <2>1, <2>2
  <1>5. ASSUME NEW k \in 1..n, k - 1 \in Q
        PROVE  k \in Q
    <2>1. k \in 0..n /\ k # 0
      OBVIOUS
    <2>2. f[k] = ReplaceOne(f[k - 1], mods[k])
      BY <1>3, <2>1, Zenon DEF AreReplaced
    <2>3. PICK list, mod, old : /\ list = f[k - 1].list /\ mod = mods[k] /\ old = f[k - 1].delta
                                /\ list \in Seq(Fields) /\ mod \in Fields /\ old \in Int
      BY <1>2, <1>5, Zenon
    <2>4. PICK one : /\ one = modify_rjv3_prop(list, mod.type, mod.content)
                     /\ one.list \in Seq(Fields) /\ one.delta \in Int
      BY <2>3, OneReplaced
    <2>5. f[k] = [list |-> one.list, delta |-> old + one.delta]
      BY <2>2, <2>3, <2>4, Zenon DEF ReplaceOne
    <2>6. f[k].list = one.list /\ f[k].delta = old + one.delta
      BY <2>5
    <2>7. old + one.delta \in Int
      BY <2>3, <2>4
    <2> QED
      BY <2>1, <2>4, <2>6, <2>7, Zenon
  <1> HIDE DEF Q
  <1>6. \A k \in 0..n : k \in Q
    BY <1>4, <1>5, Counting
  <1>7. n \in 0..n
    OBVIOUS
  <1> QED
    BY <1>3, <1>6, <1>7, Zenon DEF Q

\* A type and a size that a field can have.
IsSize(pair) == pair[1] \in Bytes /\ pair[2] \in 0..253

\* The fields of every frame are such fields.
LEMMA CommonAreFields ==
  ASSUME NEW isResponse \in BOOLEAN, NEW dnsLen \in 0..253, NEW verLen \in 0..252
  PROVE  rjv3_append_common_fields(isResponse, dnsLen, verLen) \in Seq(Fields)
  <1>1. PICK password \in 0..253 : password = IF isResponse THEN 16 ELSE 0
    OBVIOUS
  <1>2. PICK version \in 0..253 : version = verLen + 1
    OBVIOUS
  <1>3. PICK sizes : sizes = CommonSizes(isResponse, dnsLen, verLen)
    OBVIOUS
  <1>4. sizes = << <<24, 4>>, <<45, 6>>, <<47, password>>, <<118, dnsLen>>,
                   <<53, 1>>, <<54, 16>>, <<56, 16>>, <<78, 16>>, <<77, 128>>, <<57, 32>>,
                   <<84, 64>>, <<85, 0>>, <<98, 1>>, <<112, 1>>, <<111, version>> >>
    BY <1>1, <1>2, <1>3, ZenonT(30) DEF CommonSizes
  <1>5. DOMAIN sizes = 1..15
    BY <1>4
  <1>6. \A k \in 1..15 : sizes[k][1] \in Bytes /\ sizes[k][2] \in 0..253
    <2>1. /\ sizes[1] = <<24, 4>> /\ sizes[2] = <<45, 6>> /\ sizes[3] = <<47, password>>
          /\ sizes[4] = <<118, dnsLen>> /\ sizes[5] = <<53, 1>> /\ sizes[6] = <<54, 16>>
          /\ sizes[7] = <<56, 16>> /\ sizes[8] = <<78, 16>> /\ sizes[9] = <<77, 128>>
          /\ sizes[10] = <<57, 32>> /\ sizes[11] = <<84, 64>> /\ sizes[12] = <<85, 0>>
          /\ sizes[13] = <<98, 1>> /\ sizes[14] = <<112, 1>> /\ sizes[15] = <<111, version>>
      BY <1>4
    <2> HIDE <1>4
    <2>2. \A k \in 1..15 : k \in {1, 2, 3, 4, 5, 6, 7, 8, 9, 10, 11, 12, 13, 14, 15}
      OBVIOUS
    <2>3. /\ IsSize(<<24, 4>>) /\ IsSize(<<45, 6>>) /\ IsSize(<<47, password>>)
          /\ IsSize(<<118, dnsLen>>) /\ IsSize(<<53, 1>>)
      BY DEF IsSize, Bytes
    <2>4. /\ IsSize(<<54, 16>>) /\ IsSize(<<56, 16>>) /\ IsSize(<<78, 16>>)
          /\ IsSize(<<77, 128>>) /\ IsSize(<<57, 32>>)
      BY DEF IsSize, Bytes
    <2>5. /\ IsSize(<<84, 64>>) /\ IsSize(<<85, 0>>) /\ IsSize(<<98, 1>>)
          /\ IsSize(<<112, 1>>) /\ IsSize(<<111, version>>)
      BY DEF IsSize, Bytes
    <2>6. /\ IsSize(sizes[1]) /\ IsSize(sizes[2]) /\ IsSize(sizes[3]) /\ IsSize(sizes[4])
           /\ IsSize(sizes[5]) /\ IsSize(sizes[6]) /\ IsSize(sizes[7]) /\ IsSize(sizes[8])
           /\ IsSize(sizes[9]) /\ IsSize(sizes[10]) /\ IsSize(sizes[11]) /\ IsSize(sizes[12])
           /\ IsSize(sizes[13]) /\ IsSize(sizes[14]) /\ IsSize(sizes[15])
      BY <2>1, <2>3, <2>4, <2>5
    <2>7. \A k \in 1..15 : IsSize(sizes[k])
      BY <2>2, <2>6, Zenon
    <2> QED
      BY <2>7, Zenon DEF IsSize
  <1>7. \A k \in 1..15 : Prop(sizes[k][1], [i \in 1..sizes[k][2] |-> Byte(i + k)]) \in Fields
    <2> TAKE k \in 1..15
    <2>1. PICK type \in Bytes, size \in 0..253 : type = sizes[k][1] /\ size = sizes[k][2]
      BY <1>6, Zenon
    <2> DEFINE content == [i \in 1..size |-> Byte(i + k)]
    <2>2. content \in Seq(Bytes) /\ Len(content) <= 253
      <3>1. \A i \in 1..size : Byte(i + k) \in Bytes
        BY DEF Byte, Bytes
      <3>2. size \in Nat /\ size <= 253
        OBVIOUS
      <3>3. content \in [1..size -> Bytes]
        BY <3>1, Zenon
      <3>4. content \in Seq(Bytes) /\ Len(content) = size
        BY <3>2, <3>3
      <3> QED
        BY <3>2, <3>4
    <2> HIDE DEF content
    <2>3. Prop(type, content) \in Fields
      BY <2>2 DEF Fields
    <2> QED
      BY <2>1, <2>3, Zenon DEF content
  <1>8. rjv3_append_common_fields(isResponse, dnsLen, verLen)
          = [k \in 1..15 |-> Prop(sizes[k][1], [i \in 1..sizes[k][2] |-> Byte(i + k)])]
    BY <1>3, <1>5, Zenon DEF rjv3_append_common_fields
  <1>9. rjv3_append_common_fields(isResponse, dnsLen, verLen) \in [1..15 -> Fields]
    BY <1>7, <1>8, Zenon
  <1>10. PICK list, T : list = rjv3_append_common_fields(isResponse, dnsLen, verLen) /\ T = Fields
    OBVIOUS
  <1>13. PICK n \in Nat : n = 15
    OBVIOUS
  <1>11. list \in [1..n -> T]
    BY <1>9, <1>10, <1>13, Zenon
  <1>12. list \in Seq(T)
    BY <1>11
  <1> QED
    BY <1>10, <1>12, Zenon

\* The server reads the common fields as they were replaced and then those of
\* the command line, when there are common fields, the replaced ones keep their
\* sizes and all fit the frame: what TrailerFields puts behind the header of a
\* frame.
THEOREM TrailerIsRead ==
  ASSUME NEW common \in Seq(Fields), NEW mods \in Seq(Fields), NEW added \in Seq(Fields),
         modify_rjv3_prop_list(common, mods).list # << >>,
         modify_rjv3_prop_list(common, mods).delta = 0,
         Len(FlattenSeq(Written(modify_rjv3_prop_list(common, mods).list \o added))) <= FrameBufSize
  PROVE  /\ TrailerFields(common, mods, added).ok
         /\ parse_rjv3_buf_to_prop_list(TrailerFields(common, mods, added).bytes, FALSE)
              = [list |-> modify_rjv3_prop_list(common, mods).list \o added, result |-> "SUCCESS"]
  <1>1. PICK modified : /\ modified = modify_rjv3_prop_list(common, mods)
                        /\ modified.list \in Seq(Fields) /\ modified.delta = 0
    BY AllReplaced
  <1>2. PICK list \in Seq(Fields) : list = modified.list
    BY <1>1, Zenon
  <1>3. PICK all \in Seq(Fields) : all = list \o added
    BY ConcatProperties
  <1>4. PICK std \in Seq(Bytes) : std = FlattenSeq(Written(list))
    <2>1. Written(list) \in Seq(Seq(Bytes))
      BY WrittenFacts
    <2> QED
      BY <2>1, FlattenIsSeq
  <1>5. PICK more \in Seq(Bytes) : more = FlattenSeq(Written(added))
    <2>1. Written(added) \in Seq(Seq(Bytes))
      BY WrittenFacts
    <2> QED
      BY <2>1, FlattenIsSeq
  <1>6. std \o more = FlattenSeq(Written(all))
    <2>1. FlattenSeq(Written(list \o added))
            = FlattenSeq(Written(list)) \o FlattenSeq(Written(added))
      BY WrittenConcat
    <2> QED
      BY <1>3, <1>4, <1>5, <2>1, Zenon
  <1>7. PICK n \in Nat, m \in Nat : n = Len(std) /\ m = Len(more) /\ n + m <= FrameBufSize
    <2>1. Len(std) \in Nat /\ Len(more) \in Nat /\ Len(std \o more) = Len(std) + Len(more)
      BY LenProperties, ConcatProperties
    <2>2. Len(std \o more) <= FrameBufSize
      BY <1>1, <1>2, <1>3, <1>6, Zenon
    <2> QED
      BY <2>1, <2>2
  <1>8. n > 0
    <2>1. Len(FlattenSeq(Written(list))) # 0
      BY <1>1, <1>2, FieldsTakeRoom
    <2> QED
      BY <1>4, <1>7, <2>1
  <1>9. /\ append_rjv3_prop_list_to_buffer(list, << >>, FrameBufSize).buf = std
        /\ append_rjv3_prop_list_to_buffer(list, << >>, FrameBufSize).len = n
    <2>1. << >> \in Seq(Bytes) /\ FrameBufSize \in Int
      BY EmptySeq DEF FrameBufSize
    <2>2. Len(FlattenSeq(Written(list))) <= FrameBufSize
      BY <1>4, <1>7 DEF FrameBufSize
    <2>3. append_rjv3_prop_list_to_buffer(list, << >>, FrameBufSize)
            = [buf |-> << >> \o FlattenSeq(Written(list)), len |-> Len(FlattenSeq(Written(list)))]
      BY <2>1, <2>2, FieldsAreWritten
    <2>4. /\ append_rjv3_prop_list_to_buffer(list, << >>, FrameBufSize).buf
               = << >> \o FlattenSeq(Written(list))
          /\ append_rjv3_prop_list_to_buffer(list, << >>, FrameBufSize).len
               = Len(FlattenSeq(Written(list)))
      BY <2>3
    <2>5. << >> \o std = std
      BY ConcatEmptySeq
    <2>6. Len(FlattenSeq(Written(list))) = n
      BY <1>4, <1>7, Zenon
    <2> QED
      BY <1>4, <2>4, <2>5, <2>6, Zenon
  <1>10. append_rjv3_prop_list_to_buffer(added, std, FrameBufSize - n)
          = [buf |-> std \o more, len |-> m]
    <2>1. FrameBufSize - n \in Int /\ m <= FrameBufSize - n
      BY <1>7 DEF FrameBufSize
    <2>2. Len(FlattenSeq(Written(added))) <= FrameBufSize - n
      BY <1>5, <1>7, <2>1, Zenon
    <2>3. append_rjv3_prop_list_to_buffer(added, std, FrameBufSize - n)
            = [buf |-> std \o FlattenSeq(Written(added)), len |-> Len(FlattenSeq(Written(added)))]
      BY <2>1, <2>2, FieldsAreWritten
    <2> QED
      BY <1>5, <1>7, <2>3, Zenon
  <1>11. TrailerFields(common, mods, added) = [ok |-> n > 0 /\ m >= 0, bytes |-> std \o more]
    <2>1. n + 0 = n /\ ~(0 > 0) /\ SubSeq(std, 1, n) = std
      BY <1>7, SubSeqFull
    <2>2. TrailerFields(common, mods, added)
            = LET placed == IF 0 > 0 THEN std \o [i \in 1..0 |-> 0] ELSE SubSeq(std, 1, n + 0)
                  last == append_rjv3_prop_list_to_buffer(added, placed, FrameBufSize - (n + 0))
              IN  [ok |-> n > 0 /\ last.len >= 0, bytes |-> last.buf]
      BY <1>1, <1>2, <1>7, <1>9, Zenon DEF TrailerFields
    <2>3. TrailerFields(common, mods, added)
            = LET last == append_rjv3_prop_list_to_buffer(added, std, FrameBufSize - n)
              IN  [ok |-> n > 0 /\ last.len >= 0, bytes |-> last.buf]
      BY <2>1, <2>2, Zenon
    <2>4. PICK last : last = append_rjv3_prop_list_to_buffer(added, std, FrameBufSize - n)
      OBVIOUS
    <2>5. last.len = m /\ last.buf = std \o more
      <3>1. last = [buf |-> std \o more, len |-> m]
        BY <1>10, <2>4, Zenon
      <3> QED
        BY <3>1, Zenon
    <2>6. TrailerFields(common, mods, added) = [ok |-> n > 0 /\ last.len >= 0, bytes |-> last.buf]
      BY <2>3, <2>4, Zenon
    <2>7. (n > 0 /\ last.len >= 0) = (n > 0 /\ m >= 0)
      BY <2>5, Zenon
    <2> QED
      BY <2>5, <2>6, <2>7, Zenon
  <1>12. parse_rjv3_buf_to_prop_list(FlattenSeq(Written(all)), FALSE)
           = [list |-> all, result |-> "SUCCESS"]
    <2>1. PICK sent : /\ sent = Written(all) /\ sent \in Seq(Seq(Bytes))
                      /\ AllCarried(sent, all, Len(all), FALSE)
      BY WrittenFacts, Zenon
    <2>2. parse_rjv3_buf_to_prop_list(FlattenSeq(sent), FALSE)
            = [list |-> all, result |-> "SUCCESS"]
      BY <2>1, FieldsAreRead
    <2> QED
      BY <2>1, <2>2, Zenon
  <1>13. m >= 0
    OBVIOUS
  <1>14. /\ TrailerFields(common, mods, added).ok = (n > 0 /\ m >= 0)
         /\ TrailerFields(common, mods, added).bytes = std \o more
    BY <1>11
  <1> QED
    BY <1>1, <1>2, <1>3, <1>6, <1>8, <1>12, <1>13, <1>14, Zenon

----------------------------------------------------------------------------
(* The packet builder. *)

\* Any builder, whatever frames it has made.
BuilderOf(eth, ver, type, eapolLen, eap, seed, config) ==
  [eth |-> eth, ver |-> ver, type |-> type, eapolLen |-> eapolLen, eap |-> eap,
   seed |-> seed, config |-> config]

\* A frame as the state machine and the heartbeat have it made.
FrameBy(builder, eth, eapolType, code, eapType, id, config, seed) ==
  builder_build_packet(
    builder_set_eap_md5_seed(
      builder_set_eap_fields(builder_set_eth_field(builder, eth),
                             eapolType, code, eapType, id, config), seed))

\* The length its standard part has.
LengthFor(eapType, config) ==
  HighLow(EapHeaderSize + Len(config.username) + (IF eapType = 4 THEN DigestSize + 1 ELSE 0))

\* The frame that is asked for.
FrameFor(eth, eapolType, code, eapType, id, config, seed) ==
  LET len == LengthFor(eapType, config)
      digest == <<DigestSize>> \o hash_md5_pwd(id, seed, config.password)
  IN  IF eapolType # EapolTypes.packet THEN eth \o <<1, eapolType>> \o <<0, 0>>
      ELSE eth \o <<1, eapolType>> \o len \o (<<code, id>> \o len \o <<eapType>>)
             \o (IF eapType = 4 THEN digest ELSE << >>) \o config.username

\* The builder with its fields set: what else it keeps is of earlier frames.
WithFields(eth, eapolType, code, eapType, id, config, eap, seed, kept) ==
  LET len == LengthFor(eapType, config)
  IN  IF eapolType # EapolTypes.packet
      THEN BuilderOf(eth, 1, eapolType, <<0, 0>>, eap, seed, kept)
      ELSE BuilderOf(eth, 1, eapolType, len, <<code, id>> \o len \o <<eapType>>, seed, config)

\* Setting the fields makes it so.
LEMMA FieldsAreSet ==
  ASSUME NEW e, NEW v, NEW t, NEW l, NEW h, NEW s, NEW c,
         NEW eth, NEW eapolType, NEW code, NEW eapType, NEW id, NEW config
  PROVE  builder_set_eap_fields(builder_set_eth_field(BuilderOf(e, v, t, l, h, s, c), eth),
                                eapolType, code, eapType, id, config)
           = WithFields(eth, eapolType, code, eapType, id, config, h, s, c)
  <1>0. PICK len : len = LengthFor(eapType, config)
    OBVIOUS
  <1>1. builder_set_eth_field(BuilderOf(e, v, t, l, h, s, c), eth) = BuilderOf(eth, v, t, l, h, s, c)
    BY DEF builder_set_eth_field, BuilderOf
  <1>2. PICK b : b = BuilderOf(eth, v, t, l, h, s, c)
    OBVIOUS
  <1>3. PICK head : head = <<code, id>> \o len \o <<eapType>>
    OBVIOUS
  <1>4. builder_set_eap_fields(b, eapolType, code, eapType, id, config)
          = IF eapolType # EapolTypes.packet
            THEN [[b EXCEPT !.ver = 1, !.type = eapolType] EXCEPT !.eapolLen = <<0, 0>>]
            ELSE [[b EXCEPT !.ver = 1, !.type = eapolType]
                    EXCEPT !.eapolLen = len, !.eap = head, !.config = config]
    BY <1>0, <1>3, Zenon DEF builder_set_eap_fields, LengthFor
  <1>5. [BuilderOf(eth, v, t, l, h, s, c) EXCEPT !.ver = 1, !.type = eapolType]
          = BuilderOf(eth, 1, eapolType, l, h, s, c)
    <2>1. [b EXCEPT !.ver = 1, !.type = eapolType]
            = [[b EXCEPT !.ver = 1] EXCEPT !.type = eapolType]
      OBVIOUS
    <2>2. [BuilderOf(eth, v, t, l, h, s, c) EXCEPT !.ver = 1] = BuilderOf(eth, 1, t, l, h, s, c)
      BY DEF BuilderOf
    <2>3. [BuilderOf(eth, 1, t, l, h, s, c) EXCEPT !.type = eapolType]
            = BuilderOf(eth, 1, eapolType, l, h, s, c)
      BY DEF BuilderOf
    <2> QED
      BY <1>2, <2>1, <2>2, <2>3, Zenon
  <1>6. [BuilderOf(eth, 1, eapolType, l, h, s, c) EXCEPT !.eapolLen = <<0, 0>>]
          = BuilderOf(eth, 1, eapolType, <<0, 0>>, h, s, c)
    BY DEF BuilderOf
  <1>7. [BuilderOf(eth, 1, eapolType, l, h, s, c)
           EXCEPT !.eapolLen = len, !.eap = head, !.config = config]
          = BuilderOf(eth, 1, eapolType, len, head, s, config)
    <2>1. \A f : [f EXCEPT !.eapolLen = len, !.eap = head, !.config = config]
                   = [[[f EXCEPT !.eapolLen = len] EXCEPT !.eap = head] EXCEPT !.config = config]
      OBVIOUS
    <2>2. [BuilderOf(eth, 1, eapolType, l, h, s, c) EXCEPT !.eapolLen = len]
            = BuilderOf(eth, 1, eapolType, len, h, s, c)
      BY DEF BuilderOf
    <2>3. [BuilderOf(eth, 1, eapolType, len, h, s, c) EXCEPT !.eap = head]
            = BuilderOf(eth, 1, eapolType, len, head, s, c)
      BY DEF BuilderOf
    <2>4. [BuilderOf(eth, 1, eapolType, len, head, s, c) EXCEPT !.config = config]
            = BuilderOf(eth, 1, eapolType, len, head, s, config)
      BY DEF BuilderOf
    <2> QED
      BY <2>1, <2>2, <2>3, <2>4, Zenon
  <1> QED
    BY <1>0, <1>1, <1>2, <1>3, <1>4, <1>5, <1>6, <1>7, Zenon DEF WithFields

\* Where the id and the type of an EAP head are.
IsHead(head, code, id, n, eapType) == head = <<code, id>> \o HighLow(n) \o <<eapType>>
LEMMA HeadParts ==
  ASSUME NEW code, NEW id, NEW n, NEW eapType, NEW head,
         IsHead(head, code, id, n, eapType)
  PROVE  head[2] = id /\ head[5] = eapType
  <1>1. PICK a, b : HighLow(n) = <<a, b>>
    BY SMTT(20) DEF HighLow
  <1>2. (<<code, id>> \o <<a, b>> \o <<eapType>>)[2] = id
    BY SMTT(20)
  <1>3. (<<code, id>> \o <<a, b>> \o <<eapType>>)[5] = eapType
    BY SMTT(20)
  <1> QED
    BY <1>1, <1>2, <1>3, Zenon DEF IsHead

\* A frame has nothing of those before it: whatever the one builder has made,
\* the next frame is what its own fields say, unless a response is to be made
\* without a challenge, which would take that of an earlier one.
THEOREM BuilderForgets ==
  ASSUME NEW e, NEW v, NEW t, NEW l, NEW h, NEW s, NEW c,
         NEW eth, NEW eapolType, NEW code, NEW eapType \in Bytes, NEW id, NEW config, NEW seed,
         eapolType = EapolTypes.packet /\ eapType = 4 => seed # << >>
  PROVE  FrameBy(BuilderOf(e, v, t, l, h, s, c), eth, eapolType, code, eapType, id, config, seed)
           = FrameFor(eth, eapolType, code, eapType, id, config, seed)
  <1>1. PICK len : len = LengthFor(eapType, config)
    OBVIOUS
  <1>2. PICK set : /\ set = builder_set_eap_fields(
                              builder_set_eth_field(BuilderOf(e, v, t, l, h, s, c), eth),
                              eapolType, code, eapType, id, config)
                   /\ set = IF eapolType # EapolTypes.packet
                            THEN BuilderOf(eth, 1, eapolType, <<0, 0>>, h, s, c)
                            ELSE BuilderOf(eth, 1, eapolType, len,
                                           <<code, id>> \o len \o <<eapType>>, s, config)
    <2>1. builder_set_eap_fields(builder_set_eth_field(BuilderOf(e, v, t, l, h, s, c), eth),
                                 eapolType, code, eapType, id, config)
            = WithFields(eth, eapolType, code, eapType, id, config, h, s, c)
      BY FieldsAreSet
    <2> QED
      BY <1>1, <2>1, Zenon DEF WithFields
  <1>3. PICK built : /\ built = builder_set_eap_md5_seed(set, seed)
                     /\ FrameBy(BuilderOf(e, v, t, l, h, s, c), eth, eapolType, code, eapType,
                                id, config, seed) = builder_build_packet(built)
    BY <1>2, Zenon DEF FrameBy
  <1>4. CASE eapolType # EapolTypes.packet
    <2>1. \A q : [BuilderOf(eth, 1, eapolType, <<0, 0>>, h, s, c) EXCEPT !.seed = q]
                   = BuilderOf(eth, 1, eapolType, <<0, 0>>, h, q, c)
      BY DEF BuilderOf
    <2>2. PICK q : built = BuilderOf(eth, 1, eapolType, <<0, 0>>, h, q, c)
      BY <1>2, <1>3, <1>4, <2>1, Zenon DEF builder_set_eap_md5_seed
    <2>3. built.eth = eth /\ built.ver = 1 /\ built.type = eapolType /\ built.eapolLen = <<0, 0>>
      BY <2>2 DEF BuilderOf
    <2>4. builder_build_packet(built) = eth \o <<1, eapolType>> \o <<0, 0>>
      BY <1>4, <2>3, Zenon DEF builder_build_packet
    <2> QED
      BY <1>3, <1>4, <2>4, Zenon DEF FrameFor
  <1>5. CASE eapolType = EapolTypes.packet
    <2>1. PICK head : head = <<code, id>> \o len \o <<eapType>>
      OBVIOUS
    <2>2. head[2] = id /\ head[5] = eapType
      <3>1. PICK n : len = HighLow(n)
        BY <1>1, Zenon DEF LengthFor
      <3>2. IsHead(head, code, id, n, eapType)
        BY <2>1, <3>1, Zenon DEF IsHead
      <3> QED
        BY <3>2, HeadParts
    <2>3. [BuilderOf(eth, 1, eapolType, len, head, s, config) EXCEPT !.seed = seed]
            = BuilderOf(eth, 1, eapolType, len, head, seed, config)
      BY DEF BuilderOf
    <2>4. PICK q : built = BuilderOf(eth, 1, eapolType, len, head, q, config)
                   /\ (eapType = 4 => q = seed)
      <3>1. set = BuilderOf(eth, 1, eapolType, len, head, s, config)
        BY <1>2, <1>5, <2>1, Zenon
      <3>2. CASE seed = << >>
        BY <1>3, <1>5, <3>1, <3>2, Zenon DEF builder_set_eap_md5_seed
      <3>3. CASE seed # << >>
        BY <1>3, <2>3, <3>1, <3>3, Zenon DEF builder_set_eap_md5_seed
      <3> QED
        BY <3>2, <3>3
    <2>5. /\ built.eth = eth /\ built.ver = 1 /\ built.type = eapolType /\ built.eapolLen = len
          /\ built.eap = head /\ built.seed = q /\ built.config = config
      BY <2>4 DEF BuilderOf
    <2>6. PICK header : header = eth \o <<1, eapolType>> \o len
      OBVIOUS
    <2>7. CASE eapType = 4
      <3>1. builder_build_packet(built)
              = header \o head \o (<<DigestSize>> \o hash_md5_pwd(id, seed, config.password))
                  \o config.username
        BY <1>5, <2>2, <2>4, <2>5, <2>6, <2>7, Zenon DEF builder_build_packet
      <3> QED
        BY <1>1, <1>3, <1>5, <2>1, <2>6, <2>7, <3>1, Zenon DEF FrameFor
    <2>8. CASE eapType # 4
      <3>1. builder_build_packet(built) = header \o head \o << >> \o config.username
        BY <1>5, <2>2, <2>5, <2>6, <2>8, Zenon DEF builder_build_packet
      <3> QED
        BY <1>1, <1>3, <1>5, <2>1, <2>6, <2>8, <3>1, Zenon DEF FrameFor
    <2> QED
      BY <2>7, <2>8
  <1> QED
    BY <1>4, <1>5

\* Where the elements of two sequences are when they are joined.
Joined(all, s, t, S) ==
  /\ all = s \o t /\ all \in Seq(S) /\ Len(all) = Len(s) + Len(t)
  /\ \A k \in 1..Len(s) : all[k] = s[k]
  /\ \A k \in 1..Len(t) : all[Len(s) + k] = t[k]
LEMMA Joining ==
  ASSUME NEW S, NEW s \in Seq(S), NEW t \in Seq(S)
  PROVE  \E all : Joined(all, s, t, S)
  <1>1. Len(s) \in Nat /\ Len(t) \in Nat
    BY LenProperties
  <1>2. PICK all : /\ all = s \o t /\ all \in Seq(S) /\ Len(all) = Len(s) + Len(t)
                   /\ \A k \in 1..(Len(s) + Len(t)) :
                        all[k] = IF k <= Len(s) THEN s[k] ELSE t[k - Len(s)]
    <2>1. /\ s \o t \in Seq(S) /\ Len(s \o t) = Len(s) + Len(t)
          /\ \A k \in 1..(Len(s) + Len(t)) :
               (s \o t)[k] = IF k <= Len(s) THEN s[k] ELSE t[k - Len(s)]
      BY ConcatProperties
    <2> QED
      BY <2>1, Zenon
  <1>3. ASSUME NEW k \in 1..Len(s)
        PROVE  all[k] = s[k]
    BY <1>1, <1>2
  <1>4. ASSUME NEW k \in 1..Len(t)
        PROVE  all[Len(s) + k] = t[k]
    <2>1. /\ Len(s) + k \in 1..(Len(s) + Len(t)) /\ ~(Len(s) + k <= Len(s))
          /\ Len(s) + k - Len(s) = k
      BY <1>1
    <2> QED
      BY <1>2, <2>1
  <1>5. Joined(all, s, t, S)
    BY <1>2, <1>3, <1>4, Zenon DEF Joined
  <1> QED
    BY <1>5

\* Sequences of one and of two.
IsOne(s, a, S) == s = <<a>> /\ s \in Seq(S) /\ Len(s) = 1
IsTwo(s, a, b, S) == s = <<a, b>> /\ s \in Seq(S) /\ Len(s) = 2 /\ s[1] = a /\ s[2] = b
LEMMA OneAndTwo ==
  ASSUME NEW S, NEW a \in S, NEW b \in S
  PROVE  IsOne(<<a>>, a, S) /\ IsTwo(<<a, b>>, a, b, S)
  BY DEF IsOne, IsTwo

\* A number of two bytes is read back.
ReadAs(len, n, S) == \E high, low \in S : len = <<high, low>> /\ 256 * high + low = n
LEMMA HighLowIsRead ==
  ASSUME NEW n \in Nat, n <= FrameBufSize
  PROVE  ReadAs(HighLow(n), n, Bytes)
  <1>1. PICK high \in Nat : high = n \div 256 /\ high < 256 /\ 256 * high <= n /\ n < 256 * high + 256
    BY SMTT(20) DEF FrameBufSize
  <1>2. PICK low \in Nat : low = n % 256 /\ low < 256 /\ 256 * high + low = n
    BY <1>1, SMTT(20)
  <1>3. high % 256 = high
    BY <1>1, SMTT(20)
  <1>4. HighLow(n) = <<high, low>>
    BY <1>1, <1>2, <1>3, Zenon DEF HighLow
  <1>5. high \in Bytes /\ low \in Bytes
    BY <1>1, <1>2, SMTT(20) DEF Bytes
  <1> QED
    BY <1>2, <1>4, <1>5, Zenon DEF ReadAs

\* The EAP header has its length behind the code and the id.
HeldAt3(head, a, b, S) == head \in Seq(S) /\ Len(head) = 5 /\ head[3] = a /\ head[4] = b
LEMMA HeadInPlace ==
  ASSUME NEW S, NEW code \in S, NEW id \in S, NEW eapType \in S, NEW a \in S, NEW b \in S
  PROVE  HeldAt3(<<code, id>> \o <<a, b>> \o <<eapType>>, a, b, S)
  <1>1. PICK one, two, three : IsTwo(one, code, id, S) /\ IsTwo(two, a, b, S) /\ IsOne(three, eapType, S)
    <2>1. /\ IsTwo(<<code, id>>, code, id, S) /\ IsTwo(<<a, b>>, a, b, S)
          /\ IsOne(<<eapType>>, eapType, S)
      BY OneAndTwo, Zenon
    <2> QED
      BY <2>1, Zenon
  <1>2. PICK front : Joined(front, one, two, S)
    BY <1>1, Joining DEF IsTwo
  <1>3. front = one \o two /\ front \in Seq(S) /\ Len(front) = 4 /\ front[3] = a /\ front[4] = b
    <2>1. /\ front = one \o two /\ front \in Seq(S) /\ Len(front) = 2 + 2
          /\ \A k \in 1..2 : front[2 + k] = two[k]
      BY <1>1, <1>2, Zenon DEF Joined, IsTwo
    <2>2. 1 \in 1..2 /\ 2 \in 1..2 /\ 2 + 1 = 3 /\ 2 + 2 = 4
      OBVIOUS
    <2> QED
      BY <1>1, <2>1, <2>2, Zenon DEF IsTwo
  <1>4. PICK head : Joined(head, front, three, S)
    BY <1>1, <1>3, Joining DEF IsOne
  <1>5. head = front \o three /\ head \in Seq(S) /\ Len(head) = 5 /\ head[3] = a /\ head[4] = b
    <2>1. /\ head = front \o three /\ head \in Seq(S) /\ Len(head) = 4 + 1
          /\ \A k \in 1..4 : head[k] = front[k]
      BY <1>1, <1>3, <1>4, Zenon DEF Joined, IsOne
    <2>2. 3 \in 1..4 /\ 4 \in 1..4 /\ 4 + 1 = 5
      OBVIOUS
    <2> QED
      BY <1>3, <2>1, <2>2, Zenon
  <1>6. head = <<code, id>> \o <<a, b>> \o <<eapType>>
    BY <1>1, <1>3, <1>5, Zenon DEF IsOne, IsTwo
  <1> QED
    BY <1>5, <1>6, Zenon DEF HeldAt3

\* Where both lengths are in a frame, and how long it is.
PartsOf(S, eth, start, len, head, digest, name, a, b) ==
  /\ eth \in Seq(S) /\ Len(eth) = 14 /\ start \in Seq(S) /\ Len(start) = 2
  /\ len \in Seq(S) /\ Len(len) = 2 /\ len[1] = a /\ len[2] = b
  /\ head \in Seq(S) /\ Len(head) = 5 /\ head[3] = a /\ head[4] = b
  /\ digest \in Seq(S) /\ name \in Seq(S)
Measured(frame, digest, name, a, b) ==
  /\ Len(frame) = 23 + Len(digest) + Len(name)
  /\ frame[17] = a /\ frame[18] = b /\ frame[21] = a /\ frame[22] = b
LEMMA LengthsInPlace ==
  ASSUME NEW S, NEW eth, NEW start, NEW len, NEW head, NEW digest, NEW name, NEW a, NEW b,
         PartsOf(S, eth, start, len, head, digest, name, a, b)
  PROVE  Measured(eth \o start \o len \o head \o digest \o name, digest, name, a, b)
  <1> USE DEF PartsOf
  <1>0. Len(digest) \in Nat /\ Len(name) \in Nat
    BY LenProperties
  <1>1. PICK one : Joined(one, eth, start, S)
    BY Joining
  <1>2. one = eth \o start /\ one \in Seq(S) /\ Len(one) = 16
    <2>1. one = eth \o start /\ one \in Seq(S) /\ Len(one) = Len(eth) + Len(start)
      BY <1>1, Zenon DEF Joined
    <2> QED
      BY <2>1
  <1>3. PICK two : Joined(two, one, len, S)
    BY <1>2, Joining
  <1>4. two = one \o len /\ two \in Seq(S) /\ Len(two) = 18 /\ two[17] = a /\ two[18] = b
    <2>1. /\ two = one \o len /\ two \in Seq(S) /\ Len(two) = 16 + 2
          /\ \A k \in 1..2 : two[16 + k] = len[k]
      BY <1>2, <1>3, Zenon DEF Joined
    <2> QED
      BY <2>1
  <1>5. PICK three : Joined(three, two, head, S)
    BY <1>4, Joining
  <1>6. /\ three = two \o head /\ three \in Seq(S) /\ Len(three) = 23
        /\ three[17] = a /\ three[18] = b /\ three[21] = a /\ three[22] = b
    <2>1. /\ three = two \o head /\ three \in Seq(S) /\ Len(three) = 18 + 5
          /\ \A k \in 1..18 : three[k] = two[k]
          /\ \A k \in 1..5 : three[18 + k] = head[k]
      BY <1>4, <1>5, Zenon DEF Joined
    <2>2. /\ 17 \in 1..18 /\ 18 \in 1..18 /\ 3 \in 1..5 /\ 4 \in 1..5
          /\ 18 + 3 = 21 /\ 18 + 4 = 22 /\ 18 + 5 = 23
      OBVIOUS
    <2> QED
      BY <1>4, <2>1, <2>2, Zenon
  <1>7. PICK four : Joined(four, three, digest, S)
    BY <1>6, Joining
  <1>8. /\ four = three \o digest /\ four \in Seq(S) /\ Len(four) = 23 + Len(digest)
        /\ four[17] = a /\ four[18] = b /\ four[21] = a /\ four[22] = b
    <2>1. /\ four = three \o digest /\ four \in Seq(S) /\ Len(four) = 23 + Len(digest)
          /\ \A k \in 1..23 : four[k] = three[k]
      BY <1>6, <1>7, Zenon DEF Joined
    <2>2. 17 \in 1..23 /\ 18 \in 1..23 /\ 21 \in 1..23 /\ 22 \in 1..23
      OBVIOUS
    <2> QED
      BY <1>6, <2>1, <2>2, Zenon
  <1>9. PICK frame : Joined(frame, four, name, S)
    BY <1>8, Joining
  <1>10. /\ frame = four \o name /\ Len(frame) = 23 + Len(digest) + Len(name)
         /\ frame[17] = a /\ frame[18] = b /\ frame[21] = a /\ frame[22] = b
    <2>1. /\ frame = four \o name /\ Len(frame) = Len(four) + Len(name)
          /\ \A k \in 1..Len(four) : frame[k] = four[k]
      BY <1>9, Zenon DEF Joined
    <2>2. 17 \in 1..Len(four) /\ 18 \in 1..Len(four) /\ 21 \in 1..Len(four) /\ 22 \in 1..Len(four)
      BY <1>0, <1>8
    <2> QED
      BY <1>8, <2>1, <2>2, Zenon
  <1>11. frame = eth \o start \o len \o head \o digest \o name
    BY <1>2, <1>4, <1>6, <1>8, <1>10, Zenon
  <1> QED
    BY <1>10, <1>11, Zenon DEF Measured

\* The digest of a response stands behind its own length, which counts too.
DigestOf(eapType, id, seed, config) ==
  IF eapType = 4 THEN <<DigestSize>> \o hash_md5_pwd(id, seed, config.password) ELSE << >>
LEMMA DigestFacts ==
  ASSUME NEW eapType, NEW id, NEW seed, NEW config
  PROVE  \E S : /\ DigestOf(eapType, id, seed, config) \in Seq(S)
                /\ Len(DigestOf(eapType, id, seed, config))
                     = IF eapType = 4 THEN DigestSize + 1 ELSE 0
  <1>0. DigestSize \in Nat
    BY DEF DigestSize
  <1>1. PICK hash : hash = hash_md5_pwd(id, seed, config.password)
    OBVIOUS
  <1>2. hash = [k \in 1..DigestSize |-> hash[k]]
    BY <1>1, Zenon DEF hash_md5_pwd
  <1>3. PICK S : S = {DigestSize} \cup {hash[k] : k \in 1..DigestSize}
    OBVIOUS
  <1>4. hash \in [1..DigestSize -> S]
    BY <1>2, <1>3
  <1>5. hash \in Seq(S)
    BY <1>0, <1>4, SeqDef
  <1>6. Len(hash) = DigestSize
    BY <1>0, <1>2, <1>5, LenProperties
  <1>7. PICK one : one = <<DigestSize>> /\ IsOne(one, DigestSize, S)
    <2>1. DigestSize \in S
      BY <1>3
    <2> QED
      BY <2>1, OneAndTwo, Zenon
  <1>8. PICK all : Joined(all, one, hash, S)
    BY <1>5, <1>7, Joining DEF IsOne
  <1>9. all = one \o hash /\ all \in Seq(S) /\ Len(all) = DigestSize + 1
    <2>1. all = one \o hash /\ all \in Seq(S) /\ Len(all) = 1 + DigestSize
      BY <1>6, <1>7, <1>8, Zenon DEF Joined, IsOne
    <2> QED
      BY <1>0, <2>1
  <1>10. ASSUME eapType = 4
         PROVE  /\ DigestOf(eapType, id, seed, config) \in Seq(S)
                /\ Len(DigestOf(eapType, id, seed, config)) = DigestSize + 1
    <2>1. DigestOf(eapType, id, seed, config) = all
      BY <1>1, <1>7, <1>9, <1>10, Zenon DEF DigestOf
    <2> QED
      BY <1>9, <1>10, <2>1, Zenon
  <1>11. ASSUME eapType # 4
         PROVE  /\ DigestOf(eapType, id, seed, config) \in Seq(S)
                /\ Len(DigestOf(eapType, id, seed, config)) = 0
    <2>1. DigestOf(eapType, id, seed, config) = << >>
      BY <1>11, Zenon DEF DigestOf
    <2>2. << >> \in Seq(S) /\ Len(<< >>) = 0
      BY EmptySeq
    <2> QED
      BY <2>1, <2>2, Zenon
  <1> QED
    BY <1>10, <1>11, Zenon

\* The two lengths of a frame with an EAP part, of the EAPOL header and of the
\* EAP header, are that of what is behind the EAPOL header, for every account
\* with which the frame fits its buffer: builder_set_eap_fields counts what
\* builder_build_packet puts there, the digest of a response included.
THEOREM FrameTellsItsLength ==
  ASSUME NEW S, NEW eth \in Seq(S), Len(eth) = EthernetHeaderSize,
         NEW code, NEW id, NEW eapType, NEW seed, NEW config, config.username \in Seq(S),
         NEW frame, frame = FrameFor(eth, EapolTypes.packet, code, eapType, id, config, seed),
         Len(frame) <= FrameBufSize
  PROVE  LET body == EthernetHeaderSize + EapolHeaderSize
         IN  /\ 256 * frame[body - 1] + frame[body] = Len(frame) - body
             /\ 256 * frame[body + 3] + frame[body + 4] = Len(frame) - body
  <1>1. PICK name \in Seq(S), size \in Nat : name = config.username /\ size = Len(name)
    BY LenProperties
  <1>2. PICK digest, R : /\ digest = DigestOf(eapType, id, seed, config) /\ digest \in Seq(R)
                         /\ Len(digest) = IF eapType = 4 THEN DigestSize + 1 ELSE 0
    BY DigestFacts, Zenon
  <1>3. PICK extra \in Nat : extra = Len(digest)
    BY <1>2, LenProperties
  <1>4. PICK n \in Nat : n = EapHeaderSize + size + extra /\ n = 5 + size + extra
    BY DEF EapHeaderSize
  <1>5. LengthFor(eapType, config) = HighLow(n)
    BY <1>1, <1>2, <1>3, <1>4, Zenon DEF LengthFor
  <1>6. PICK a \in Bytes, b \in Bytes :
          HighLow(n) = <<a, b>> /\ (n <= FrameBufSize => 256 * a + b = n)
    <2>1. PICK a \in Bytes, b \in Bytes : HighLow(n) = <<a, b>>
      <3>1. (n \div 256) % 256 \in Bytes /\ n % 256 \in Bytes
        BY SMTT(20) DEF Bytes
      <3> QED
        BY <3>1, Zenon DEF HighLow
    <2>2. ASSUME n <= FrameBufSize
          PROVE  256 * a + b = n
      <3>1. PICK high \in Bytes, low \in Bytes : HighLow(n) = <<high, low>> /\ 256 * high + low = n
        BY <2>2, HighLowIsRead, Zenon DEF ReadAs
      <3>2. a = high /\ b = low
        BY <2>1, <3>1
      <3> QED
        BY <3>1, <3>2
    <2> QED
      BY <2>1, <2>2, Zenon
  <1>7. PICK T : /\ S \subseteq T /\ R \subseteq T /\ Bytes \subseteq T
                 /\ code \in T /\ id \in T /\ eapType \in T /\ EapolTypes.packet \in T
    <2> WITNESS S \cup R \cup Bytes \cup {code, id, eapType, EapolTypes.packet}
    <2> QED
      OBVIOUS
  <1>8. eth \in Seq(T) /\ name \in Seq(T) /\ digest \in Seq(T)
    <2>1. Seq(S) \subseteq Seq(T) /\ Seq(R) \subseteq Seq(T)
      BY <1>7, SeqMonotonic
    <2>2. name \in Seq(S) /\ digest \in Seq(R) /\ eth \in Seq(S)
      BY <1>1, <1>2
    <2> QED
      BY <2>1, <2>2, Zenon
  <1>9. a \in T /\ b \in T /\ 1 \in T
    <2>1. 1 \in Bytes
      BY DEF Bytes
    <2>2. a \in Bytes /\ b \in Bytes
      BY <1>6
    <2>3. Bytes \subseteq T
      BY <1>7
    <2> QED
      BY <2>1, <2>2, <2>3, Zenon
  <1>10. PICK start, len : IsTwo(start, 1, EapolTypes.packet, T) /\ IsTwo(len, a, b, T)
    <2>1. PICK packet \in T : packet = EapolTypes.packet
      BY <1>7, Zenon
    <2>2. IsTwo(<<1, packet>>, 1, packet, T) /\ IsTwo(<<a, b>>, a, b, T)
      BY <1>9, <2>1, OneAndTwo, Zenon
    <2> QED
      BY <2>1, <2>2, Zenon
  <1>11. PICK head \in Seq(T) : /\ head = <<code, id>> \o <<a, b>> \o <<eapType>>
                                /\ Len(head) = 5 /\ head[3] = a /\ head[4] = b
    <2>1. code \in T /\ id \in T /\ eapType \in T /\ a \in T /\ b \in T
      BY <1>7, <1>9, Zenon
    <2>2. HeldAt3(<<code, id>> \o <<a, b>> \o <<eapType>>, a, b, T)
      BY <2>1, HeadInPlace, Zenon
    <2>3. PICK head : /\ head = <<code, id>> \o <<a, b>> \o <<eapType>>
                      /\ HeldAt3(head, a, b, T)
      BY <2>2, Zenon
    <2> QED
      BY <2>3, Zenon DEF HeldAt3
  <1>12. frame = eth \o start \o len \o head \o digest \o name
    BY <1>1, <1>2, <1>5, <1>6, <1>10, <1>11, Zenon DEF FrameFor, DigestOf, IsTwo
  <1>13. /\ Len(frame) = 23 + extra + size
         /\ frame[17] = a /\ frame[18] = b /\ frame[21] = a /\ frame[22] = b
    <2>1. Len(eth) = 14
      BY DEF EthernetHeaderSize
    <2>2. PartsOf(T, eth, start, len, head, digest, name, a, b)
      BY <1>8, <1>10, <1>11, <2>1, Zenon DEF PartsOf, IsTwo
    <2>3. Measured(frame, digest, name, a, b)
      BY <1>12, <2>2, LengthsInPlace, Zenon
    <2> QED
      BY <1>1, <1>3, <2>3, Zenon DEF Measured
  <1>14. Len(frame) - 18 = n /\ n <= FrameBufSize
    BY <1>4, <1>13, SMTT(20) DEF FrameBufSize
  <1>15. 256 * a + b = Len(frame) - 18
    BY <1>6, <1>14
  <1> QED
    BY <1>13, <1>15, SMTT(20) DEF EthernetHeaderSize, EapolHeaderSize

----------------------------------------------------------------------------
(* The messages of the server. *)

\* What a string holds before its end, and the table of code points.
Letters == 1..255
Places == {place \in Nat : place < 24576}
CodePoints == {unicode \in Nat : unicode < 65536}
Tables == [Places -> CodePoints]

\* The bytes that a message may pair have a place in the table.
LEMMA IndexIsInTable ==
  ASSUME NEW byte1 \in 128..255, NEW byte2 \in 1..255
  PROVE  gbk_to_index(byte1, byte2) \in Places
  <1>1. 64 * (byte2 \div 64) # 16
    BY byte2 \div 64 \in Int, SMT
  <1>2. byte2 % 128 \in 0..127
    OBVIOUS
  <1> QED
    BY <1>1, <1>2, SMT DEF gbk_to_index, Places

\* One, two or three letters.
LEMMA FewLetters ==
  ASSUME NEW a \in Letters, NEW b \in Letters, NEW c \in Letters
  PROVE  /\ <<a>> \in Seq(Letters) /\ Len(<<a>>) <= 3
         /\ <<a, b>> \in Seq(Letters) /\ Len(<<a, b>>) <= 3
         /\ <<a, b, c>> \in Seq(Letters) /\ Len(<<a, b, c>>) <= 3
  OBVIOUS

\* The parts of a code point.
LEMMA CodeParts ==
  ASSUME NEW u \in CodePoints
  PROVE  /\ u \div 4096 \in 0..15 /\ (u \div 64) % 64 \in 0..63 /\ u % 64 \in 0..63
         /\ u <= 2047 => u \div 64 \in 0..31
  <1>1. u \div 4096 \in 0..15
    BY SMTT(20) DEF CodePoints
  <1>2. u \div 64 \in 0..1023 /\ u % 64 \in 0..63
    BY SMTT(20) DEF CodePoints
  <1>3. (u \div 64) % 64 \in 0..63
    BY <1>2
  <1>4. u <= 2047 => u \div 64 \in 0..31
    BY SMTT(20) DEF CodePoints
  <1> QED
    BY <1>1, <1>2, <1>3, <1>4

\* A code point takes three bytes at most, none of them zero.
LEMMA Utf8Facts ==
  ASSUME NEW unicode \in CodePoints
  PROVE  Utf8(unicode) \in Seq(Letters) /\ Len(Utf8(unicode)) <= 3
  <1>1. CASE unicode = 0
    <2>1. Utf8(unicode) = <<Question>>
      BY <1>1, SMTT(20) DEF Utf8, CodePoints
    <2>2. Question \in Letters
      BY DEF Question, Letters
    <2> QED
      BY <2>1, <2>2, FewLetters
  <1>2. CASE unicode > 0 /\ unicode < 128
    <2>1. Utf8(unicode) = <<unicode>>
      BY <1>2, SMTT(20) DEF Utf8, CodePoints
    <2>2. unicode \in Letters
      BY <1>2, SMTT(20) DEF Letters, CodePoints
    <2> QED
      BY <2>1, <2>2, FewLetters
  <1>3. CASE unicode >= 128 /\ unicode <= 2047
    <2>1. PICK high \in 0..31, low \in 0..63 : high = unicode \div 64 /\ low = unicode % 64
      BY <1>3, CodeParts
    <2>2. 192 + high \in Letters /\ 128 + low \in Letters
      BY SMTT(20) DEF Letters
    <2>3. Utf8(unicode) = <<192 + (unicode \div 64), 128 + (unicode % 64)>>
      BY <1>3, SMTT(20) DEF Utf8, CodePoints
    <2> QED
      BY <2>1, <2>2, <2>3, FewLetters
  <1>4. CASE unicode >= 2048
    <2>1. PICK high \in 0..15 : high = unicode \div 4096
      BY CodeParts
    <2>2. PICK middle \in 0..63 : middle = (unicode \div 64) % 64
      BY CodeParts
    <2>3. PICK low \in 0..63 : low = unicode % 64
      BY CodeParts
    <2>4. 224 + high \in Letters /\ 128 + middle \in Letters /\ 128 + low \in Letters
      BY SMTT(20) DEF Letters
    <2>5. Utf8(unicode) = <<224 + (unicode \div 4096), 128 + ((unicode \div 64) % 64),
                            128 + (unicode % 64)>>
      BY <1>4, SMTT(20) DEF Utf8, CodePoints
    <2> QED
      BY <2>1, <2>2, <2>3, <2>4, <2>5, FewLetters
  <1> QED
    BY <1>1, <1>2, <1>3, <1>4, SMT DEF CodePoints

\* So does whatever two bytes are replaced by.
LEMMA ConvertedFacts ==
  ASSUME NEW byte1 \in 128..255, NEW byte2 \in 1..255, NEW table \in Tables
  PROVE  Converted(byte1, byte2, table) \in Seq(Letters) /\ Len(Converted(byte1, byte2, table)) <= 3
  <1>1. CASE byte2 \in {127, 255}
    <2>1. Converted(byte1, byte2, table) = <<Question>>
      BY <1>1, Zenon DEF Converted
    <2>2. Question \in Letters
      BY DEF Question, Letters
    <2> QED
      BY <2>1, <2>2, FewLetters
  <1>2. CASE byte2 \notin {127, 255}
    <2>1. PICK index \in Places : index = gbk_to_index(byte1, byte2)
      BY IndexIsInTable
    <2>2. PICK unicode \in CodePoints : unicode = table[index]
      BY DEF Tables
    <2>3. Converted(byte1, byte2, table) = Utf8(unicode)
      BY <1>2, <2>1, <2>2, Zenon DEF Converted
    <2> QED
      BY <2>3, Utf8Facts
  <1> QED
    BY <1>1, <1>2

\* The text from byte k on, given that from the next two bytes on.
TextAt(src, beyond, table, n, k, next, afterNext) ==
  LET second == IF k = n THEN beyond ELSE src[k + 1]
  IN  IF k > n \/ (k <= n /\ src[k] = 0) THEN << >>
      ELSE IF src[k] < 128 THEN <<src[k]>> \o next
      ELSE IF second = 0 THEN <<Question>>
      ELSE Converted(src[k], second, table) \o afterNext
AreTexts(f, src, beyond, table, n, low) ==
  f = [k \in low..(n + 2) |-> TextAt(src, beyond, table, n, k, f[k + 1], f[k + 2])]

\* There is such a function, found from the end of the message.
LEMMA TextsExist ==
  ASSUME NEW src, NEW beyond, NEW table, NEW n \in Nat
  PROVE  \E f : AreTexts(f, src, beyond, table, n, 1)
  <1> DEFINE Has(d) == \E f : AreTexts(f, src, beyond, table, n, n + 2 - d)
             Q == {d \in 0..(n + 1) : Has(d)}
  <1>1. 0 \in Q
    <2> DEFINE f == [k \in (n + 2)..(n + 2) |-> << >>]
    <2>1. n + 2 - 0 = n + 2 /\ 0 \in 0..(n + 1)
      OBVIOUS
    <2>2. ASSUME NEW k \in (n + 2)..(n + 2)
          PROVE  TextAt(src, beyond, table, n, k, f[k + 1], f[k + 2]) = << >>
      <3>1. k > n
        OBVIOUS
      <3> QED
        BY <3>1, Zenon DEF TextAt
    <2>3. f = [k \in (n + 2)..(n + 2) |-> TextAt(src, beyond, table, n, k, f[k + 1], f[k + 2])]
      BY <2>2, Zenon
    <2>4. AreTexts(f, src, beyond, table, n, n + 2)
      BY <2>3, Zenon DEF AreTexts
    <2> QED
      BY <2>1, <2>4, Zenon
  <1>2. ASSUME NEW d \in 1..(n + 1), d - 1 \in Q
        PROVE  d \in Q
    <2>1. PICK low \in 1..(n + 1) : low = n + 2 - d
      OBVIOUS
    <2>2. n + 2 - (d - 1) = low + 1
      BY <2>1
    <2>3. PICK f : AreTexts(f, src, beyond, table, n, low + 1)
      BY <1>2, <2>2, Zenon
    <2> DEFINE g == [k \in low..(n + 2) |->
                       IF k = low THEN TextAt(src, beyond, table, n, low, f[low + 1], f[low + 2])
                       ELSE f[k]]
    <2>4. \A k \in low..(n + 2) :
            TextAt(src, beyond, table, n, k, g[k + 1], g[k + 2])
              = TextAt(src, beyond, table, n, k, f[k + 1], f[k + 2])
      <3> SUFFICES ASSUME NEW k \in low..(n + 2)
                   PROVE  TextAt(src, beyond, table, n, k, g[k + 1], g[k + 2])
                            = TextAt(src, beyond, table, n, k, f[k + 1], f[k + 2])
        OBVIOUS
      <3>1. CASE k > n
        BY <3>1, Zenon DEF TextAt
      <3>2. CASE k <= n
        <4>1. k + 1 \in low..(n + 2) /\ k + 1 # low /\ k + 2 \in low..(n + 2) /\ k + 2 # low
          BY <3>2
        <4>2. g[k + 1] = f[k + 1] /\ g[k + 2] = f[k + 2]
          BY <4>1, Zenon
        <4> QED
          BY <4>2, Zenon
      <3> QED
        BY <3>1, <3>2
    <2>5. ASSUME NEW k \in low..(n + 2)
          PROVE  g[k] = TextAt(src, beyond, table, n, k, f[k + 1], f[k + 2])
      <3>1. CASE k = low
        BY <3>1, Zenon
      <3>2. CASE k # low
        <4>1. k \in (low + 1)..(n + 2)
          BY <3>2
        <4>2. f[k] = TextAt(src, beyond, table, n, k, f[k + 1], f[k + 2])
          BY <2>3, <4>1, Zenon DEF AreTexts
        <4> QED
          BY <3>2, <4>2, Zenon
      <3> QED
        BY <3>1, <3>2
    <2>6. g = [k \in low..(n + 2) |-> g[k]]
      OBVIOUS
    <2> HIDE DEF g
    <2>7. AreTexts(g, src, beyond, table, n, low)
      BY <2>4, <2>5, <2>6, Zenon DEF AreTexts
    <2>8. low = n + 2 - d /\ d \in 0..(n + 1)
      BY <2>1
    <2> QED
      BY <2>7, <2>8, Zenon
  <1>3. n + 1 \in Nat /\ n + 1 \in 0..(n + 1) /\ n + 2 - (n + 1) = 1
    OBVIOUS
  <1> HIDE DEF Q
  <1>4. \A d \in 0..(n + 1) : d \in Q
    BY <1>1, <1>2, <1>3, Counting
  <1>5. n + 1 \in Q
    BY <1>3, <1>4
  <1> QED
    BY <1>3, <1>5, Zenon DEF Q

\* What one byte adds is a text again, and three bytes longer at most.
LEMMA TextAtFacts ==
  ASSUME NEW n \in Nat, NEW src \in Seq(Bytes), Len(src) = n, NEW beyond \in Bytes,
         NEW table \in Tables, NEW k \in 1..n, NEW room \in Nat, room >= 3,
         NEW next \in Seq(Letters), Len(next) + 3 <= room,
         NEW afterNext \in Seq(Letters), Len(afterNext) + 3 <= room
  PROVE  /\ TextAt(src, beyond, table, n, k, next, afterNext) \in Seq(Letters)
         /\ Len(TextAt(src, beyond, table, n, k, next, afterNext)) <= room
  <1>1. ~(k > n) /\ Len(next) \in Nat /\ Len(afterNext) \in Nat
    BY LenProperties
  <1>2. PICK byte \in 0..255 : byte = src[k]
    BY ElementOfSeq DEF Bytes
  <1>3. PICK second \in 0..255 : second = IF k = n THEN beyond ELSE src[k + 1]
    <2>1. CASE k = n
      BY <2>1 DEF Bytes
    <2>2. CASE k # n
      <3>1. k + 1 \in 1..Len(src)
        BY <2>2
      <3>2. src[k + 1] \in 0..255
        BY <3>1, ElementOfSeq DEF Bytes
      <3> QED
        BY <2>2, <3>2
    <2> QED
      BY <2>1, <2>2
  <1>4. TextAt(src, beyond, table, n, k, next, afterNext)
          = IF src[k] = 0 THEN << >>
            ELSE IF src[k] < 128 THEN <<src[k]>> \o next
            ELSE IF second = 0 THEN <<Question>>
            ELSE Converted(src[k], second, table) \o afterNext
    <2>1. CASE src[k] = 0
      <3>1. k <= n
        OBVIOUS
      <3> QED
        BY <2>1, <3>1, Zenon DEF TextAt
    <2>2. CASE src[k] # 0
      BY <1>1, <1>3, <2>2, Zenon DEF TextAt
    <2> QED
      BY <2>1, <2>2
  <1>5. CASE byte = 0
    <2>1. TextAt(src, beyond, table, n, k, next, afterNext) = << >>
      BY <1>2, <1>4, <1>5, Zenon
    <2> QED
      BY <2>1, EmptySeq
  <1>6. CASE byte \in 1..127
    <2>1. byte # 0 /\ byte < 128 /\ byte \in Letters
      BY <1>6 DEF Letters
    <2>2. PICK one \in Seq(Letters) : one = <<byte>> /\ Len(one) <= 3
      BY <2>1, FewLetters
    <2>3. one \o next \in Seq(Letters) /\ Len(one \o next) = Len(one) + Len(next)
      BY ConcatProperties
    <2>4. TextAt(src, beyond, table, n, k, next, afterNext) = one \o next
      BY <1>2, <1>4, <2>1, <2>2, Zenon
    <2>5. Len(one) \in Nat
      BY LenProperties
    <2> QED
      BY <1>1, <2>2, <2>3, <2>4, <2>5
  <1>7. CASE byte \in 128..255 /\ second = 0
    <2>1. byte # 0 /\ ~(byte < 128) /\ Question \in Letters
      BY <1>7 DEF Letters, Question
    <2>2. TextAt(src, beyond, table, n, k, next, afterNext) = <<Question>>
      BY <1>2, <1>4, <1>7, <2>1, Zenon
    <2>3. <<Question>> \in Seq(Letters) /\ Len(<<Question>>) <= 3
      BY <2>1, FewLetters
    <2> QED
      BY <2>2, <2>3
  <1>8. CASE byte \in 128..255 /\ second # 0
    <2>1. byte # 0 /\ ~(byte < 128) /\ byte \in 128..255 /\ second \in 1..255
      BY <1>8
    <2>2. PICK one \in Seq(Letters) : one = Converted(byte, second, table) /\ Len(one) <= 3
      BY <2>1, ConvertedFacts
    <2>3. one \o afterNext \in Seq(Letters) /\ Len(one \o afterNext) = Len(one) + Len(afterNext)
      BY ConcatProperties
    <2>4. TextAt(src, beyond, table, n, k, next, afterNext) = one \o afterNext
      BY <1>2, <1>4, <1>8, <2>1, <2>2, Zenon
    <2>5. Len(one) \in Nat
      BY LenProperties
    <2> QED
      BY <1>1, <2>2, <2>3, <2>4, <2>5
  <1> QED
    BY <1>5, <1>6, <1>7, <1>8

\* The text takes three bytes for each one at most, none of them zero.
LEMMA TextIsShort ==
  ASSUME NEW src \in Seq(Bytes), NEW beyond \in Bytes, NEW table \in Tables
  PROVE  /\ TextFrom(src, beyond, table)[1] \in Seq(Letters)
         /\ Len(TextFrom(src, beyond, table)[1]) <= 3 * Len(src)
  <1>1. PICK n \in Nat : n = Len(src)
    BY LenProperties
  <1>2. PICK f : f = TextFrom(src, beyond, table) /\ AreTexts(f, src, beyond, table, n, 1)
    <2>1. \E f : AreTexts(f, src, beyond, table, n, 1)
      BY TextsExist
    <2>2. TextFrom(src, beyond, table)
            = CHOOSE f : AreTexts(f, src, beyond, table, Len(src), 1)
      BY ZenonT(40) DEF TextFrom, AreTexts, TextAt
    <2> QED
      BY <1>1, <2>1, <2>2, Zenon
  <1>3. \A k \in 1..(n + 2) : f[k] = TextAt(src, beyond, table, n, k, f[k + 1], f[k + 2])
    BY <1>2, Zenon DEF AreTexts
  <1> DEFINE Good(k) == /\ f[k] \in Seq(Letters)
                        /\ Len(f[k]) <= IF k > n THEN 0 ELSE 3 * (n + 1 - k)
             Q == {d \in 0..n : Good(n + 1 - d) /\ Good(n + 2 - d)}
  <1>4. \A k \in {n + 1, n + 2} : Good(k)
    <2> SUFFICES ASSUME NEW k \in {n + 1, n + 2}
                 PROVE  Good(k)
      OBVIOUS
    <2>1. k > n /\ k \in 1..(n + 2)
      OBVIOUS
    <2>2. f[k] = << >>
      BY <1>3, <2>1, Zenon DEF TextAt
    <2>3. << >> \in Seq(Letters) /\ Len(<< >>) <= 0
      BY EmptySeq
    <2> QED
      BY <2>1, <2>2, <2>3, Zenon
  <1>5. 0 \in Q
    <2>1. n + 1 - 0 = n + 1 /\ n + 2 - 0 = n + 2 /\ 0 \in 0..n
      OBVIOUS
    <2> QED
      BY <1>4, <2>1, Zenon
  <1>6. ASSUME NEW d \in 1..n, d - 1 \in Q
        PROVE  d \in Q
    <2>1. PICK k \in 1..n : k = n + 1 - d
      OBVIOUS
    <2>2. n + 1 - (d - 1) = k + 1 /\ n + 2 - (d - 1) = k + 2 /\ n + 2 - d = k + 1
      BY <2>1
    <2>3. Good(k + 1) /\ Good(k + 2)
      BY <1>6, <2>2, Zenon
    <2>4. PICK next \in Seq(Letters), afterNext \in Seq(Letters) :
              next = f[k + 1] /\ afterNext = f[k + 2]
      BY <2>3, Zenon
    <2>5. PICK room \in Nat : room = 3 * (n + 1 - k) /\ room >= 3
      OBVIOUS
    <2>6. Len(next) + 3 <= room
      <3>1. Len(next) \in Nat /\ Len(next) <= IF k + 1 > n THEN 0 ELSE 3 * (n + 1 - (k + 1))
        BY <2>3, <2>4, LenProperties
      <3> QED
        BY <2>5, <3>1
    <2>7. Len(afterNext) + 3 <= room
      <3>1. Len(afterNext) \in Nat /\ Len(afterNext) <= IF k + 2 > n THEN 0 ELSE 3 * (n + 1 - (k + 2))
        BY <2>3, <2>4, LenProperties
      <3> QED
        BY <2>5, <3>1
    <2>8. /\ TextAt(src, beyond, table, n, k, next, afterNext) \in Seq(Letters)
          /\ Len(TextAt(src, beyond, table, n, k, next, afterNext)) <= room
      BY <1>1, <2>5, <2>6, <2>7, TextAtFacts
    <2>9. k \in 1..(n + 2) /\ ~(k > n)
      OBVIOUS
    <2>10. Good(k)
      BY <1>3, <2>4, <2>5, <2>8, <2>9, Zenon
    <2>11. d \in 0..n
      OBVIOUS
    <2> QED
      BY <2>1, <2>2, <2>3, <2>10, <2>11, Zenon
  <1> HIDE DEF Q
  <1>7. \A d \in 0..n : d \in Q
    BY <1>5, <1>6, Counting
  <1>8. n \in Q /\ n + 1 - n = 1
    BY <1>7
  <1>9. Good(1)
    BY <1>8, Zenon DEF Q
  <1>10. (IF 1 > n THEN 0 ELSE 3 * (n + 1 - 1)) <= 3 * n /\ Len(f[1]) \in Nat
    BY <1>9, LenProperties
  <1> QED
    BY <1>1, <1>2, <1>9, <1>10

\* What pr_info_gbk prints of a message, of whatever bytes and whatever lies
\* behind it, is a string in the buffer of four bytes for each one: the whole
\* text is there, with an end that is within the buffer.  Every pair of bytes
\* has its place in the table.
THEOREM MessageIsString ==
  ASSUME NEW in \in Seq(Bytes), in # << >>, NEW beyond \in Bytes, NEW table \in Tables
  PROVE  \E text \in Seq(Letters), unused \in Nat :
           /\ gbconv8(in, beyond, 4 * Len(in), table)
                = [len |-> Len(text) + 1, dst |-> text \o <<0>>]
           /\ Len(text) + 1 + unused = 4 * Len(in)
           /\ pr_info_gbk(in, beyond, table) = text \o <<0>> \o [k \in 1..unused |-> 0]
  <1>1. PICK n \in Nat : n = Len(in) /\ n >= 1
    BY LenProperties, EmptySeq
  <1>2. PICK text \in Seq(Letters) : text = TextFrom(in, beyond, table)[1] /\ Len(text) <= 3 * n
    BY <1>1, TextIsShort
  <1>3. PICK unused \in Nat : Len(text) + 1 + unused = 4 * n /\ unused = 4 * n - (Len(text) + 1)
    <2>1. Len(text) \in Nat
      BY LenProperties
    <2>2. PICK length \in Nat : length = Len(text) /\ length <= 3 * n
      BY <1>2, <2>1
    <2>3. length + 1 + (4 * n - (length + 1)) = 4 * n /\ 4 * n - (length + 1) \in Nat
      BY <1>1, <2>2, SMTT(20)
    <2> QED
      BY <2>2, <2>3, Zenon
  <1>4. Len(text \o <<0>>) = Len(text) + 1 /\ ~(Len(text) + 1 > 4 * n)
    <2>1. text \in Seq(Bytes) /\ <<0>> \in Seq(Bytes) /\ Len(<<0>>) = 1
      BY SeqMonotonic DEF Letters, Bytes
    <2> QED
      BY <1>1, <1>2, <2>1, ConcatProperties, LenProperties
  <1>5. gbconv8(in, beyond, 4 * n, table) = [len |-> Len(text) + 1, dst |-> text \o <<0>>]
    BY <1>2, <1>4, Zenon DEF gbconv8
  <1>6. gbconv8(in, beyond, 4 * n, table).dst = text \o <<0>>
    BY <1>5
  <1>7. pr_info_gbk(in, beyond, table) = text \o <<0>> \o [k \in 1..unused |-> 0]
    BY <1>1, <1>3, <1>4, <1>6, Zenon DEF pr_info_gbk
  <1> QED
    BY <1>1, <1>3, <1>5, <1>7, Zenon

=============================================================================
