------------------------------ MODULE RjProps ------------------------------
(***************************************************************************)
(* The fields the RJv3 client and its server exchange,                     *)
(* packet_plugin_rjv3_prop.c: lists of typed values, written to and read   *)
(* from bytes.  A field is two headers and its content; the server leaves  *)
(* the first header out, and the length in the second one is not to be     *)
(* trusted for every type.                                                 *)
(*                                                                         *)
(* A byte is a number below 256 and a list a sequence.  Allocation         *)
(* succeeds.                                                               *)
(***************************************************************************)
EXTENDS Integers, Sequences, SequencesExt

Magic == <<0, 0, 19, 17>>
Header1Size == 2
Header2Size == 6
Byte(n) == n % 256

\* new_rjv3_prop and append_rjv3_prop: the lengths are bytes.
Prop(type, content) ==
  [headerType |-> 26, headerLen |-> Byte(Len(content) + Header1Size + Header2Size),
   type |-> type, len |-> Byte(Len(content) + 2), content |-> content]
append_rjv3_prop(list, type, content) == Append(list, Prop(type, content))

ContentSize(prop) == prop.len - 2

\* lookup_data with rjv3_type_prop_compare: the first of the type, or none.
PositionsOf(list, type) == {i \in DOMAIN list : list[i].type = type}
FirstOf(positions) == CHOOSE i \in positions : \A j \in positions : i <= j

\* The changed list, and by how much the field has grown.
modify_rjv3_prop(list, type, content) ==
  LET found == PositionsOf(list, type)
      at == FirstOf(found)
      new == Prop(type, content)
  IN  IF found = {} THEN [list |-> list, delta |-> 0]
      ELSE [list |-> [list EXCEPT ![at] = new], delta |-> new.len - list[at].len]

modify_rjv3_prop_list(org, mods) ==
  LET upTo[k \in 0..Len(mods)] ==
        IF k = 0 THEN [list |-> org, delta |-> 0]
        ELSE LET before == upTo[k - 1]
                 one == modify_rjv3_prop(before.list, mods[k].type, mods[k].content)
             IN  [list |-> one.list, delta |-> before.delta + one.delta]
  IN  upTo[Len(mods)]

----------------------------------------------------------------------------
(* Writing. *)

Header1Bytes(prop) == <<prop.headerType, prop.headerLen>>
Header2Bytes(prop) == Magic \o <<prop.type, prop.len>>

FieldBytes(prop) == Header1Bytes(prop) \o Header2Bytes(prop) \o prop.content

\* How much append_rjv3_prop_to_buffer writes: -1 when the field does not fit.
append_rjv3_prop_to_buffer(prop, room) ==
  IF room < Len(FieldBytes(prop)) THEN -1 ELSE Len(FieldBytes(prop))

\* The list is written after the bytes of a buffer.  The length of one field
\* is kept in a size_t, where -1 is greater than zero: a field that does not
\* fit takes one byte back, and the next one that fits overwrites it.
append_rjv3_prop_list_to_buffer(list, buf, room) ==
  LET upTo[k \in 0..Len(list)] ==
        IF k = 0 THEN [buf |-> buf, len |-> 0]
        ELSE LET before == upTo[k - 1]
                 single == append_rjv3_prop_to_buffer(list[k], room - before.len)
             IN  [buf |-> SubSeq(before.buf, 1, Len(buf) + before.len + (IF single < 0 THEN -1 ELSE 0))
                            \o (IF single < 0 THEN << >> ELSE FieldBytes(list[k])),
                  len |-> before.len + single]
  IN  upTo[Len(list)]

----------------------------------------------------------------------------
(* Reading. *)

IsAt(pattern, buf, k) ==
  k + Len(pattern) <= Len(buf) /\ SubSeq(buf, k + 1, k + Len(pattern)) = pattern

\* The distance to the first occurrence, or Len(buf).  The last place where
\* the pattern would fit is not looked at.
find_byte_pattern(pattern, buf) ==
  LET found == {k \in 0..(Len(buf) - Len(pattern) - 1) : IsAt(pattern, buf, k)}
  IN  IF found = {} THEN Len(buf) ELSE FirstOf(found)

\* Types 0 and 1 carry no length worth reading, nor does a length that does
\* not cover its own header.
rjv3_prop_length_field_ok(type, len) == type \notin {0, 1} /\ len >= 2

After(buf, n) == SubSeq(buf, n + 1, Len(buf))

\* The content is copied whether or not the buffer has so much of it: what lies
\* behind the buffer, which is no byte of it, comes along.
Behind == -1
CopyOf(buf, n) == [i \in 1..n |-> IF i <= Len(buf) THEN buf[i] ELSE Behind]

\* append_rjv3_prop with the length that was read, which may be negative.
ReadProp(type, content, size) ==
  [Prop(type, content) EXCEPT !.headerLen = Byte(size + Header1Size + Header2Size),
                              !.len = Byte(size + 2)]

\* One field at the front of the buffer: how many bytes precede its content,
\* its type, and how long the content is.
BareField(buf) ==
  LET type == buf[5]  len == buf[6]
  IN  [head |-> Header2Size, type |-> type,
       size |-> IF rjv3_prop_length_field_ok(type, len) THEN len - 2
                ELSE find_byte_pattern(Magic, After(buf, Header2Size))]

\* Mutant: the first header of the next field is taken for content.
FullFieldToTheMagic(buf) ==
  LET head == Header1Size + Header2Size
  IN  [head |-> head, type |-> buf[7],
       size |-> IF buf[1] = 26 THEN buf[8]
                ELSE find_byte_pattern(Magic, After(buf, head))]

\* With the first header, another field may begin two bytes before the magic;
\* where none does, the content runs to the end.
FullField(buf) ==
  LET head == Header1Size + Header2Size
      rest == After(buf, head)
      next == find_byte_pattern(Magic, rest)
  IN  [head |-> head, type |-> buf[7],
       size |-> IF buf[1] = 26 THEN buf[8] - 2
                ELSE IF next = Len(rest) THEN next ELSE next - Header1Size]

\* One more field of the rest, which ends where a length leads beyond it.  The
\* list read so far is kept when the rest cannot be read.
HeadSize(bare) == IF bare THEN Header2Size ELSE Header1Size + Header2Size
ReadField(from, bare) ==
  LET field == IF bare THEN BareField(from.rest) ELSE FullField(from.rest)
  IN  IF from.result # "reading" THEN from
      ELSE IF from.rest = << >> THEN [from EXCEPT !.result = "SUCCESS"]
      ELSE IF \/ Len(from.rest) < HeadSize(bare)
              \/ ~IsAt(Magic, from.rest, IF bare THEN 0 ELSE Header1Size)
      THEN [from EXCEPT !.result = "FAILURE"]
      ELSE [from EXCEPT
              !.list = Append(@, ReadProp(field.type,
                         CopyOf(After(from.rest, field.head), field.size), field.size)),
              !.rest = After(@, field.head + field.size)]

\* A field takes at least the room of the second header, also one whose length
\* is below that of its header.
MostFields(buf) == (Len(buf) \div Header2Size) + 2
FieldsRead(buf, bare) ==
  LET read[n \in 0..MostFields(buf)] ==
        IF n = 0 THEN [list |-> << >>, rest |-> buf, result |-> "reading"]
        ELSE ReadField(read[n - 1], bare)
  IN  read
parse_rjv3_buf_to_prop_list(buf, bare) ==
  LET last == FieldsRead(buf, bare)[MostFields(buf)]
  IN  [list |-> last.list, result |-> last.result]

=============================================================================
