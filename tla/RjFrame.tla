------------------------------ MODULE RjFrame ------------------------------
(***************************************************************************)
(* The frames the client sends: the packet builder, what the RJv3 plugin   *)
(* appends to a frame, and its heartbeat.                                  *)
(*                                                                         *)
(* A frame is a sequence of bytes with the room left in its buffer.  What  *)
(* a field contains, beyond its length, is given by a parameter.           *)
(***************************************************************************)
EXTENDS RjProps, Words

EthernetHeaderSize == 14
EapolHeaderSize == 4
EapHeaderSize == 5
FrameBufSize == 1512
DigestSize == 16

EapolTypes == [packet |-> 0, start |-> 1, logoff |-> 2, keepalive |-> 191]
HighLow(n) == <<(n \div 256) % 256, n % 256>>

----------------------------------------------------------------------------
(* The packet builder.  One builder makes every frame, so what one frame   *)
(* sets is still there for the next.                                       *)

NewBuilder ==
  [eth |-> << >>, ver |-> 0, type |-> 0, eapolLen |-> <<0, 0>>,
   eap |-> <<0, 0, 0, 0, 0>>, seed |-> << >>, config |-> << >>]

\* Destination, source and protocol together.
builder_set_eth_field(builder, header) == [builder EXCEPT !.eth = header]

\* The length covers the EAP part and not what plugins append; the EAP header
\* of an earlier frame stays when the frame has none.
builder_set_eap_fields(builder, eapolType, code, eapType, id, config) ==
  LET len == HighLow(EapHeaderSize + Len(config.username)
                       + (IF eapType = 4 THEN DigestSize + 1 ELSE 0))
      based == [builder EXCEPT !.ver = 1, !.type = eapolType]
  IN  IF eapolType # EapolTypes.packet THEN [based EXCEPT !.eapolLen = <<0, 0>>]
      ELSE [based EXCEPT !.eapolLen = len, !.eap = <<code, id>> \o len \o <<eapType>>,
                         !.config = config]

builder_set_eap_md5_seed(builder, seed) ==
  IF seed = << >> THEN builder ELSE [builder EXCEPT !.seed = seed]

\* hash_md5_pwd hashes the identifier, the password and the challenge.
\* A byte of the digest is a tuple that names it.
hash_md5_pwd(id, seed, password) ==
  [k \in 1..DigestSize |-> <<"md5", <<id>> \o password \o seed, k>>]

\* The bytes of the frame, none when a response has no challenge to answer.
builder_build_packet(builder) ==
  LET header == builder.eth \o <<builder.ver, builder.type>> \o builder.eapolLen
      isResponse == builder.eap[5] = 4
      digest == <<DigestSize>> \o hash_md5_pwd(builder.eap[2], builder.seed,
                                               builder.config.password)
  IN  IF builder.type # EapolTypes.packet THEN header
      ELSE IF isResponse /\ builder.seed = << >> THEN << >>
      ELSE header \o builder.eap \o (IF isResponse THEN digest ELSE << >>)
             \o builder.config.username

\* append_to_frame: all of the data or, with no one told, nothing.
append_to_frame(frame, data) ==
  IF Len(frame) + Len(data) > FrameBufSize THEN frame ELSE frame \o data

\* frame_duplicate: the effective bytes.
frame_duplicate(frame) == frame

----------------------------------------------------------------------------
(* The encodings of the plugin. *)

\* rj_encode reverses and complements the bits of a byte; rj_decode the same.
rj_encode(b) == ByteValue({7 - i : i \in Positions(8) \ WordOf(b)})
rj_decode(b) == ByteValue({7 - i : i \in Not(8, WordOf(b))})
bit_reverse(b) == ByteValue({7 - i : i \in WordOf(b)})

\* crc16 with the polynomial its table is made from.
Crc16Table(byte) ==
  LET polynomial == {0, 5, 12}
      after[k \in 0..8] ==
        IF k = 0 THEN ShiftL(16, byte, 8)
        ELSE LET before == after[k - 1]
                 shifted == ShiftL(16, before, 1)
             IN  IF 15 \in before THEN Xor(shifted, polynomial) ELSE shifted
  IN  after[8]
crc16(bytes) ==
  LET upTo[k \in 0..Len(bytes)] ==
        IF k = 0 THEN {}
        ELSE LET crc == upTo[k - 1]
             IN  Xor(ShiftL(16, crc, 8), Crc16Table(Xor(ShiftR(crc, 8), WordOf(bytes[k]))))
  IN  upTo[Len(bytes)]

----------------------------------------------------------------------------
(* What rjv3_append_priv puts after the standard part of a frame. *)

\* The lease is sent before authentication, or once two have succeeded.
rjv3_should_fill_dhcp_prop(dhcpType, succCount) ==
  dhcpType = "before" \/ (dhcpType = "double" /\ succCount >= 2)

\* magic, whether DHCP is used, sixteen bytes of lease and the checksum of
\* these, encoded; then the magic, the program's name and a version.
rjv3_append_priv_header(dhcpType, succCount, lease, name) ==
  LET filled == IF rjv3_should_fill_dhcp_prop(dhcpType, succCount) THEN lease
                ELSE [i \in 1..16 |-> 0]
      info == Magic \o <<IF dhcpType = "none" THEN 0 ELSE 1>> \o filled
      sum == Reverse(BytesOf(16, crc16(info)))
      coded == [i \in 1..(Len(info) + 2) |-> rj_encode((info \o sum)[i])]
  IN  coded \o Magic \o name \o <<1, 31, 1, 2>>

\* The fields of every frame, by type and size; the password's is empty but
\* in the answer to a challenge.
CommonSizes(isResponse, dnsLen, verLen) ==
  << <<24, 4>>, <<45, 6>>, <<47, IF isResponse THEN 16 ELSE 0>>, <<118, dnsLen>>,
     <<53, 1>>, <<54, 16>>, <<56, 16>>, <<78, 16>>, <<77, 128>>, <<57, 32>>,
     <<84, 64>>, <<85, 0>>, <<98, 1>>, <<112, 1>>, <<111, verLen + 1>> >>
rjv3_append_common_fields(isResponse, dnsLen, verLen) ==
  LET sizes == CommonSizes(isResponse, dnsLen, verLen)
  IN  [k \in DOMAIN sizes |-> Prop(sizes[k][1], [i \in 1..sizes[k][2] |-> Byte(i + k)])]

\* The length of the fields: what the replacements add is counted again, and
\* leaves that many zeros before the fields of the command line, or takes as
\* many bytes from the last of the others.  It fails when the common fields, or
\* those of the command line, come to less than nothing, the first also when
\* they come to nothing.
TrailerFields(common, mods, added) ==
  LET modified == modify_rjv3_prop_list(common, mods)
      std == append_rjv3_prop_list_to_buffer(modified.list, << >>, FrameBufSize)
      len == Len(std.buf) + modified.delta
      placed == IF modified.delta > 0 THEN std.buf \o [i \in 1..modified.delta |-> 0]
                ELSE SubSeq(std.buf, 1, len)
      all == append_rjv3_prop_list_to_buffer(added, placed, FrameBufSize - len)
  IN  [ok |-> std.len > 0 /\ all.len >= 0, bytes |-> all.buf]

\* Either nothing but the header, with the error reported, or the fields
\* behind a magic and their length.
rjv3_append_priv(frame, header, common, mods, added) ==
  LET headed == append_to_frame(frame, header)
      fields == TrailerFields(common, mods, added)
      length == <<0>> \o Magic \o HighLow(Len(fields.bytes))
  IN  IF ~fields.ok THEN [ok |-> FALSE, frame |-> headed]
      ELSE [ok |-> TRUE,
            frame |-> append_to_frame(append_to_frame(headed, length), fields.bytes)]

\* Only EAPOL-Start may be given the private group address.
rjv3_apply_bcast_addr(frame, private, isRuijie) ==
  IF isRuijie /\ frame[EthernetHeaderSize + 2] = EapolTypes.start
  THEN private \o SubSeq(frame, 7, Len(frame)) ELSE frame

----------------------------------------------------------------------------
(* The heartbeat. *)

\* rjv3_is_echokey_prop: the first field of type 1 that is not empty.
EchoKeyFields(list) ==
  {i \in DOMAIN list : list[i].type = 1 /\ ContentSize(list[i]) # 0}

\* The key in the seventh to tenth byte of that field, high byte first.
EchoKey(content) ==
  FromBytes(Reverse([i \in 1..4 |-> bit_reverse(255 - content[6 + i])]))

\* The result of a success frame: the fields after the EAP header without its
\* type.
rjv3_process_result_prop(rest) ==
  LET list == parse_rjv3_buf_to_prop_list(rest, TRUE).list
      keys == EchoKeyFields(list)
  IN  IF keys = {} THEN [ok |-> FALSE, key |-> {}]
      ELSE [ok |-> TRUE, key |-> EchoKey(list[FirstOf(keys)].content)]

\* The two numbers of a heartbeat in the bytes of its template.
CodedNumber(n) == [i \in 1..4 |-> 255 - bit_reverse(Reverse(BytesOf(32, n))[i])]
rjv3_send_new_keepalive_frame(key, number) ==
  <<255, 255, 55, 119, 127, 159>> \o CodedNumber(Add(32, key, number))
    \o <<255, 255, 55, 119, 127, 159>> \o CodedNumber(number)
    \o <<255, 255, 55, 119, 127, 63, 255>>

\* send_echo_frame: the length is written as 30 over 27 bytes of content.
send_echo_frame(builder, eth, content) ==
  LET set == builder_set_eap_fields(builder_set_eth_field(builder, eth),
               EapolTypes.keepalive, 0, 0, 0, [username |-> << >>, password |-> << >>])
      header == builder_build_packet(set)
  IN  SubSeq(header, 1, EthernetHeaderSize + 2) \o <<0, 30>> \o content

=============================================================================
