------------------------------ MODULE MCLibrary ------------------------------
(***************************************************************************)
(* The parts of the program that compute and keep no state of their own,   *)
(* checked against what they are for.  A state is a job: the inputs of one *)
(* computation, chosen by the action of its kind, and each property is     *)
(* what the results of such a step must satisfy.                           *)
(***************************************************************************)
EXTENDS HashStream, RjHashes, RjFrame, HttpProbe, GbConv

VARIABLE
  job   \* [kind, ...]: the inputs, or kind "none"

Init == job = [kind |-> "none"]
Idle == job.kind = "none"
Give(inputs) == job' = inputs

----------------------------------------------------------------------------
(* Hashing. *)

\* Lengths around the places where padding needs another block, and cuts
\* around the ends of blocks.
Lengths == {0, 1, 31, 32, 55, 56, 57, 63, 64, 65, 120, 128, 129}
Cuts == {0, 1, 55, 56, 63, 64, 65, 128}

Stream ==
  /\ Idle
  /\ \E name \in HashNames, n \in Lengths, a, b \in Cuts, aligned \in BOOLEAN :
       a <= b /\ b <= n /\ Give([kind |-> "stream", name |-> name, n |-> n, a |-> a, b |-> b,
                                 aligned |-> aligned])

Message(n) == [i \in 1..n |-> (7 * i) % 251]
MessageChunks(m, a, b) == <<SubSeq(m, 1, a), SubSeq(m, a + 1, b), SubSeq(m, b + 1, Len(m))>>

\* The message "abc" in one block, and the digests the compiled functions give
\* for it; that of md5.c is the one of RFC 1321.
Abc(name) == PaddedBlocks(name, <<97, 98, 99>>)[1]
Digest(name) ==
  CASE name = "md5" -> Encode(MD5Transform(Md5Init, Abc(name)))
    [] name = "rjmd5" -> Encode(RjMd5Transform(RjMd5Init, Abc(name)))
    [] name = "ripemd128" -> Encode(RipemdBlock(RipemdInit, Abc(name)))
    [] name = "sha1" -> LET state == Sha1Block(Sha1Init, Abc(name)) IN
         [j \in 1..20 |-> Reversed(BytesOf(32, state[((j - 1) \div 4) + 1]))[((j - 1) % 4) + 1]]
Recorded(name) ==
  CASE name = "md5" -> <<144, 1, 80, 152, 60, 210, 79, 176, 214, 150, 63, 125, 40, 225, 127, 114>>
    [] name = "rjmd5" -> <<210, 1, 145, 17, 225, 240, 137, 18, 185, 1, 51, 14, 116, 208, 172, 214>>
    [] name = "ripemd128" ->
         <<140, 132, 37, 68, 13, 237, 60, 88, 132, 84, 191, 162, 8, 17, 232, 149>>
    [] name = "sha1" -> <<19, 29, 213, 223, 166, 87, 238, 232, 151, 54, 243, 99, 194, 76, 97, 162,
                          164, 190, 137, 105>>

\* Any function serves as the substitution boxes.
ToyBox(t, byte) ==
  LET n == ByteValue(byte)
  IN  Quarters((n * 257 * t + n) % 65536, (n * n * 7 + t) % 65536,
               (n * 31 + 7 * t) % 65536, (t * n * n + n * 113) % 65536)
ToyWords(n) == [i \in 1..n |-> ToyBox(i, {0, 3, i - 1})]

\* Whirlpool's rounds without the pairs of arrays the code alternates between.
WhirlpoolRounds(hash, block) ==
  LET first == EightWords([i \in 1..8 |-> Xor(block[i], hash[i])])
      at[r \in 0..10] ==
        IF r = 0 THEN [key |-> hash, state |-> first]
        ELSE LET from == at[r - 1]
                 key == EightWords([w \in 1..8 |-> Xor(WhirlpoolOp(from.key, w - 1),
                                                        IF w = 1 THEN RoundConstants[r] ELSE {})])
             IN  [key |-> key,
                  state |-> EightWords([w \in 1..8 |->
                    Add(64, Xor(WhirlpoolOp(from.state, w - 1), key[w]),
                            IF w \in {3, 6, 7} THEN {0} ELSE {})])]
      last == at[10].state
  IN  EightWords([i \in 1..8 |-> Xor(first[i], last[i])])

DigestJob ==
  /\ Idle
  /\ \E name \in {"md5", "rjmd5", "ripemd128", "sha1", "tiger", "whirlpool"} :
       Give([kind |-> "digest", name |-> name])

\* Seeds of sixteen bytes of each of the five types, with bytes that are
\* negative as characters.
SeedJob ==
  /\ Idle
  /\ \E first, fourth \in {0, 1, 2, 3, 127, 128, 254, 255}, rest \in {5, 200} :
       Give([kind |-> "seed",
             seed |-> [i \in 1..16 |-> IF i = 1 THEN first ELSE IF i = 4 THEN fourth ELSE rest]])

\* The blocks hashed are those of the message, whatever pieces it came in and
\* wherever the pieces lie; the block functions give the digests on record;
\* both builds of Tiger agree and Whirlpool's arrays do not mix; and the text
\* computeV4 hashes holds every byte of the challenge that the server sent.
DigestsAgree == [][\A done \in {job'} :
  /\ done.kind = "stream" =>
       HashedBlocks(done.name, MessageChunks(Message(done.n), done.a, done.b), done.aligned, 255)
         = PaddedBlocks(done.name, Message(done.n))
  /\ done.kind = "digest" =>
       CASE done.name = "tiger" ->
              TigerBlockX64(ToyWords(3), ToyWords(8)) = TigerBlockIA32(ToyWords(3), ToyWords(8))
         [] done.name = "whirlpool" ->
              WhirlpoolBlock(WhirlpoolInit, ToyWords(8)) = WhirlpoolRounds(WhirlpoolInit, ToyWords(8))
         [] OTHER -> Digest(done.name) = Recorded(done.name)
  /\ done.kind = "seed" =>
       LET input == V4Input(done.seed)
           Holds(piece) == \E k \in DOMAIN input : input[k] = piece
       IN  \A i \in 1..16 :
             IF V4CheckType(done.seed) # 0 THEN Holds(<<"seed", i>>)
             ELSE (\A j \in 1..16 : done.seed[j] < 128)
                    => \A digit \in 1..2 : Holds(<< <<"seed", i>>, digit>>)
  ]_job

----------------------------------------------------------------------------
(* Fields and frames. *)

\* Contents that begin like the mark of the next field.
Contents == {<< >>, <<7>>, <<0, 0, 19>>, <<0, 0>>, <<9, 0, 0, 19, 18>>}
SampleFields == {Prop(type, content) : type \in {0, 1, 47, 119}, content \in Contents}
FieldsJob ==
  /\ Idle
  /\ \E list \in SeqOf(SampleFields, 2), tail \in {<< >>, <<Prop(119, <<3, 4>>)>>},
        bare, told \in BOOLEAN :
       Give([kind |-> "fields", list |-> list \o tail, bare |-> bare, told |-> told])

\* What a server may send: without the first header and with a wrong length
\* where lengths are not to be trusted, or with a first header of another kind.
AsSent(prop, bare, told) ==
  LET loose == prop.type \in {0, 1}
      head == Magic \o <<prop.type, IF loose /\ ~told THEN 250 ELSE prop.len>>
  IN  IF bare THEN head \o prop.content
      ELSE <<IF told THEN 26 ELSE 27, prop.headerLen>> \o Header2Bytes(prop) \o prop.content

FrameTypes == {<<1, 0>>, <<2, 0>>, <<0, 1>>, <<0, 4>>}
Account(name) == [username |-> name, password |-> <<1, 2>>]
Sent(builder, type, id, name) ==
  LET set == builder_set_eap_fields(builder_set_eth_field(builder, [k \in 1..14 |-> k]),
               type[1], 2, type[2], id, Account(name))
      seeded == IF type[2] = 4 THEN builder_set_eap_md5_seed(set, <<id, id>>) ELSE set
  IN  [builder |-> seeded, bytes |-> builder_build_packet(seeded)]

\* A replacement is as long as what it replaces or finds nothing: TrailerFields
\* says what another length does.
FrameJob ==
  /\ Idle
  /\ \E before, type \in FrameTypes, id \in {0, 9}, name \in {<< >>, <<5>>, [k \in 1..60 |-> 6]},
        mods \in {<< >>, <<Prop(45, <<1, 2, 3, 4, 5, 6>>)>>, <<Prop(119, <<1>>)>>},
        added \in {<< >>, <<Prop(10, <<8>>), Prop(11, << >>)>>}, dns \in {0, 7} :
       Give([kind |-> "frame", before |-> before, type |-> type, id |-> id, name |-> name,
             mods |-> mods, added |-> added, dns |-> dns])
ByteJob ==
  /\ Idle
  /\ \E byte \in 0..255, key \in {{}, {0, 31}, WordOf(305419896), {30, 31} \union (1..8)} :
       Give([kind |-> "byte", byte |-> byte, key |-> key])

\* A message of the server as characters: ASCII, or two bytes the second of
\* which is not; it may be cut inside the last one, before some other byte.
Characters == {<<65>>} \union ({129, 254} \X {128, 161, 254})
TextJob ==
  /\ Idle
  /\ \E message \in SeqOf(Characters, 3), cut \in BOOLEAN, beyond \in {0, 127, 200} :
       message # << >> /\ Give([kind |-> "text", message |-> message, cut |-> cut, beyond |-> beyond])

\* Any table serves; this one has code points of every length.
ToyTable == [index \in 0..32767 |-> IF index % 3 = 0 THEN 0 ELSE (index * 7919) % 65536]
\* The table as it is laid out, the characters with a trailing byte below 80
\* in front of the others.
CodePoint(character) ==
  IF Len(character) = 1 THEN character[1]
  ELSE LET point == ToyTable[8192 + 128 * (character[1] - 128) + (character[2] - 128)]
       IN  IF point = 0 THEN Question ELSE point
RECURSIVE FromUtf8(_)
FromUtf8(bytes) ==
  LET Rest(k) == bytes[k] - 128
  IN  IF bytes = << >> THEN << >>
      ELSE IF bytes[1] < 128 THEN <<bytes[1]>> \o FromUtf8(Drop(bytes, 1))
      ELSE IF bytes[1] < 224
      THEN <<64 * (bytes[1] - 192) + Rest(2)>> \o FromUtf8(Drop(bytes, 2))
      ELSE <<4096 * (bytes[1] - 224) + 64 * Rest(2) + Rest(3)>> \o FromUtf8(Drop(bytes, 3))

\* What is written is read back, by the other side or here: fields from their
\* bytes, even where lengths are not to be trusted; the length of a frame is
\* that of its standard part and the builder keeps nothing of an earlier
\* frame; the trailer's length is that of the fields behind it, which are the
\* common ones as replaced and those added; the bytes of the checksum leave no
\* remainder; the heartbeat carries the key the server sent; and a message of
\* the server, cut or whole, is a string within its buffer that has all its
\* whole characters.
FieldsSurvive == [][\A done \in {job'} :
  /\ done.kind = "fields" =>
       LET sent == FoldLeft(LAMBDA buf, p : buf \o AsSent(p, done.bare, done.told), << >>, done.list)
           written == append_rjv3_prop_list_to_buffer(done.list, << >>, 200).buf
       IN  /\ parse_rjv3_buf_to_prop_list(sent, done.bare) = [list |-> done.list, result |-> "SUCCESS"]
           /\ parse_rjv3_buf_to_prop_list(written, FALSE) = [list |-> done.list, result |-> "SUCCESS"]
  /\ done.kind = "frame" =>
       LET frame == Sent(Sent(NewBuilder, done.before, 3, <<5>>).builder, done.type, done.id, done.name).bytes
           \* << >> \o has TLC make a tuple of the list, whose EXCEPT it keeps.
           common == << >> \o rjv3_append_common_fields(done.type[2] = 4, done.dns, 20)
           header == rjv3_append_priv_header("after", 0, [k \in 1..16 |-> k], [k \in 1..32 |-> 1])
           whole == rjv3_append_priv(frame, header, common, done.mods, done.added)
           trailer == SubSeq(whole.frame, Len(frame \o header) + 1, Len(whole.frame))
           fields == SubSeq(trailer, 8, Len(trailer))
           replaced == modify_rjv3_prop_list(common, done.mods).list
       IN  /\ frame = Sent(NewBuilder, done.type, done.id, done.name).bytes
           /\ done.type[1] = 0 =>
                /\ 256 * frame[17] + frame[18] = Len(frame) - 18
                /\ SubSeq(frame, 17, 18) = SubSeq(frame, 21, 22)
           /\ whole.ok
           /\ 256 * trailer[6] + trailer[7] = Len(fields)
           /\ parse_rjv3_buf_to_prop_list(fields, FALSE).list = replaced \o done.added
  /\ done.kind = "byte" =>
       LET info == Magic \o <<done.byte, 3, 255 - done.byte>>
           number == WordOf(done.byte)
           beat == rjv3_send_new_keepalive_frame(done.key, number)
           Decoded(from) == FromBytes(Reverse([k \in 1..4 |-> bit_reverse(255 - beat[from + k])]))
           answer == <<Prop(2, <<done.byte>>), Prop(1, [k \in 1..6 |-> 0] \o CodedNumber(done.key))>>
           rest == FoldLeft(LAMBDA buf, p : buf \o AsSent(p, TRUE, FALSE), << >>, answer)
       IN  /\ rj_decode(rj_encode(done.byte)) = done.byte
           /\ crc16(info \o Reverse(BytesOf(16, crc16(info)))) = {}
           /\ rjv3_process_result_prop(rest) = [ok |-> TRUE, key |-> done.key]
           /\ Decoded(16) = number
           /\ Decoded(6) = Add(32, done.key, number)
  /\ done.kind = "text" =>
       LET bytes == FoldLeft(LAMBDA buf, c : buf \o c, << >>, done.message)
           in == IF done.cut THEN SubSeq(bytes, 1, Len(bytes) - 1) ELSE bytes
           out == pr_info_gbk(in, done.beyond, ToyTable)
           end == SelectInSeq(out, LAMBDA byte : byte = 0)
           shown == FromUtf8(SubSeq(out, 1, end - 1))
           whole == IF done.cut THEN Front(done.message) ELSE done.message
       IN  in # << >> =>
             /\ end > 0
             /\ SubSeq(shown, 1, Len(whole)) = [k \in DOMAIN whole |-> CodePoint(whole[k])]
             /\ Len(shown) <= Len(done.message)
  ]_job

----------------------------------------------------------------------------
(* Settings. *)

\* What must be given for a launch to go ahead; the password has blanks and "=".
\* The interface is a word of its own: of "-neth0" the plugin's reader, which
\* does not know n, reads "-e th0", a heartbeat of 0.
Given == <<LongWith("username", "me"), Short("p"), Text("a=b =c "), Short("n"), Text("eth0")>>

ProgramWords ==
  { <<Long("max-fail"), Text("7")>>, <<LongWith("stage-timeout", "-4")>>, <<Short("b3")>>,
    <<Long("module"), Text("printer")>>, <<Long("pkt-plugin"), Text("rjv3")>>,
    <<Long("internet-check")>>, <<LongWith("internet-check-interval", "0")>>,
    <<LongWith("internet-check-max-fail", "5")>>, <<Short("k")>>,
    <<LongWith("log-file", "")>>, <<Short("z"), Text("lan")>>, <<Long("if-impl"), Text("libpcap")>> }
PluginWords ==
  { << >>, <<Long("heartbeat"), Text("30")>>, <<Short("a1"), Long("rj-option"), Text("6f:00ab7:r")>>,
    <<Short("c"), Text("run me"), LongWith("rj-option", "0a:fF")>>,
    <<LongWith("service", ""), LongWith("fake-dns1", "1.1.1.1")>> }
FileLines ==
  { << >>,
    <<"# max-fail=1", "  max-fail=2", "daemonize=1  ", "nothing", "module=rjv3", "heartbeat=5",
      "internet-check-interval=9">>,
    <<"module=printer", "module=rjv3", "rj-option=6f:01:r", "internet-check=0", "username=",
      "internet-check-url=http://h:8/x", "log-file=l", "heartbeat=-3">> }

RECURSIVE Joined(_)
Joined(words) == IF words = {} THEN << >>
                 ELSE LET w == CHOOSE w \in words : TRUE IN w \o Joined(words \ {w})

LaunchJob ==
  /\ Idle
  /\ \E one, two \in ProgramWords, plugin \in PluginWords, lines \in FileLines :
       Give([kind |-> "launch", program |-> Joined({one, two}), plugin |-> plugin, lines |-> lines])

Files(lines) == IF lines = << >> THEN [p \in {} |-> << >>] ELSE ("minieap.conf" :> lines)

\* Settings that are of one run only, that the next run spells otherwise, or
\* that follow from the others.
RunOnly == {"save_now", "kill_type", "help", "modules", "if-impl", "restart_on_logoff",
            "log-path", "log-to"}

\* What a saved setting is once it is read: a number without its sign, a text
\* without the blanks after it, and an empty text the default.
Kept(defaults, name, value) ==
  IF name \in TextOptions \union PluginTexts
  THEN IF value = Null THEN Null
       ELSE IF RTRIM(value) = "" THEN defaults[name] ELSE RTRIM(value)
  ELSE IF name \in NumberOptions /\ value < 0 THEN -value ELSE value

\* A run started from the file that --save wrote has the settings of the run
\* that saved them, the plugins', their order and their fields included; and
\* saving those again changes nothing more.  (A run is not logged in again
\* by a saved no-auto-reauth=0, which is why restart_on_logoff is left out.)
SettingsSurvive == [][\A done \in {job'} :
  done.kind = "launch" =>
    LET first == init_cfg(Files(done.lines), Given \o done.program \o done.plugin \o <<Long("save")>>)
        again == init_cfg(first.files, << >>)
        second == init_cfg(first.files, <<Short("w")>>)
        third == init_cfg(second.files, <<Short("w")>>)
        loaded == rjv3_load_default_params(rjv3_new)
    IN  first.outcome = "running" =>
          /\ again.outcome = "running" /\ second.outcome = "running"
          /\ \A name \in DOMAIN again.settings \ RunOnly :
               again.settings[name] = Kept(load_default_params, name, first.settings[name])
          /\ again.active = first.active /\ again.impl = first.impl
          /\ "rjv3" \in Range(first.active) =>
               \A name \in DOMAIN loaded :
                 again.plugin[name] = Kept(loaded, name, first.plugin[name])
          /\ third.files = second.files
  ]_job

\* The settings an accepted option of the command line sets.
SetBy(o) == IF o = "no-auto-reauth" THEN {"restart_on_logoff"}
            ELSE IF o = "kill" THEN {"kill_type"}
            ELSE IF o \in {"module", "pkt-plugin"} THEN {"modules"}
            ELSE IF o = "proxy-lan-iface" THEN {o, "proxy_on"}
            ELSE IF o = "save" THEN {"save_now"} ELSE {o}

\* The command line overrides the file, option by option: what it gives is as
\* if there were no file, what it does not give is as the file has it, and the
\* two readers of the command line do not disturb one another, in whichever
\* order their options come.
CommandLineWins == [][\A done \in {job'} :
  done.kind = "launch" =>
    LET argv == Given \o done.program \o done.plugin
        run == init_cfg(Files(done.lines), argv)
        swapped == init_cfg(Files(done.lines), done.plugin \o Given \o done.program)
        alone == parse_cmdline_opts(load_default_params, Given \o done.program).settings
        pairs == conf_parser_parse_now(done.lines)
        file == parse_config_file(load_default_params, pairs)
        options == Options(Given \o done.program, ShortOptions, LongOptions).read
        accepted == {o \in Range(options) : o.name \in PositiveOptions => atoi(o.argument) > 0}
        set == UNION {SetBy(o.name) : o \in accepted}
        own == init_cfg(Files(<< >>), <<LongWith("module", "rjv3")>> \o Given \o done.plugin).plugin
    IN  run.outcome = "running" =>
          /\ swapped = run
          /\ \A name \in DOMAIN alone \ {"log-to", "log-path"} :
               run.settings[name] = IF name \in set THEN alone[name] ELSE file[name]
          /\ run.settings["modules"] # << >> =>
               run.active = SelectSeq(run.settings["modules"], LAMBDA m : m \in Range(PluginList))
          /\ run.active = <<"rjv3">> =>
               \A list \in {"cmd_prop_list", "cmd_prop_mod_list"} :
                 \E read \in {<< >>, <<[type |-> 111, content |-> <<1>>]>>} :
                   run.plugin[list] = read \o own[list]
  ]_job

----------------------------------------------------------------------------
(* What is read of the network. *)

Route(table, dst, oif, gateway) ==
  [family |-> "INET", table |-> table, dst |-> dst, oif |-> oif, gateway |-> gateway,
   cloned |-> FALSE, size |-> 52]
Everywhere == Zeroed(4)
SampleRoutes ==
  { Route("main", Everywhere, "eth0", <<10, 0, 0, 1>>),
    Route("main", Everywhere, "eth0", <<10, 0, 0, 2>>),
    Route("main", Everywhere, "eth1", <<10, 0, 1, 1>>),
    Route("main", <<10, 0, 0, 0>>, "eth0", <<10, 0, 0, 3>>),
    Route("vpn", Everywhere, "eth0", <<10, 9, 9, 9>>) }

GatewayJob ==
  /\ Idle
  /\ \E routes \in SeqOf(SampleRoutes, 3), a, b \in 0..3, size \in {52, 3000},
        ending \in {"done", "error", "lost"} :
       /\ a <= b /\ b <= Len(routes)
       /\ Give([kind |-> "gateway", routes |-> [k \in DOMAIN routes |-> [routes[k] EXCEPT !.size = size]],
                a |-> a, b |-> b, ending |-> ending])

\* A dump of the kernel in up to three parts, and how it ends.
Dump(routes, a, b, ending) ==
  LET Part(from, to) ==
        [kind |-> "routes", messages |-> SubSeq(routes, from, to), multi |-> TRUE, seq |-> 0]
  IN  SelectSeq(<<Part(1, a), Part(a + 1, b), Part(b + 1, Len(routes))>>,
                LAMBDA part : part.messages # << >>)
        \o <<[kind |-> ending, messages |-> <<[size |-> 20]>>]>>

Address(name, family, ip, prefix) ==
  [name |-> name, family |-> family, ip |-> ip, prefix |-> prefix]
LinkLocal(middle) == <<254, 128>> \o Zeroed(9) \o middle \o <<7, 7, 7>>
Mac == <<2, 4, 6, 8, 10, 12>>
SampleAddresses ==
  { Address("eth0", "LINK", Mac, 0), Address("eth0", "INET", <<10, 0, 0, 9>>, 24),
    Address("eth0", "INET", <<10, 0, 0, 8>>, 21), Address("eth1", "INET", <<10, 0, 1, 9>>, 8),
    Address("eth0", "INET6", LinkLocal(<<255, 254>>), 64),
    Address("eth0", "INET6", LinkLocal(<<1, 2>>), 64),
    Address("eth0", "INET6", <<32, 1>> \o Zeroed(13) \o <<5>>, 61) }

\* /etc/resolv.conf, and the servers it names.
ResolvFiles ==
  { <<<< >>, << >>>>, << <<"# nameserver 9.9.9.9", "search nameserver">>, << >> >>,
    << <<"nameserver 1.1.1.1", "options x", "nameserver  8.8.8.8">>, <<"1.1.1.1", "8.8.8.8">> >>,
    << <<"nameserver fe80::1">>, <<"fe80::1">> >> }
AddressJob ==
  /\ Idle
  /\ \E list \in SeqOf(SampleAddresses, 3), resolv \in ResolvFiles, fake \in {Null, "8.8.8.8", "dns"},
        routes \in {<< >>, <<Route("main", Everywhere, "eth0", <<10, 0, 0, 1>>)>>} :
       /\ Len(list) = 3 => fake = Null
       /\ Give([kind |-> "address", list |-> list, resolv |-> resolv, fake |-> fake,
                 routes |-> routes])

\* The mask of a prefix: its leading bits.
Mask(bytes, prefix) ==
  [k \in 1..bytes |-> FoldLeft(LAMBDA v, i : 2 * v + IF 8 * (k - 1) + i <= prefix THEN 1 ELSE 0,
                               0, <<1, 2, 3, 4, 5, 6, 7, 8>>)]

\* The same machine as getifaddrs and as Windows show it.
Ifaddrs(list) ==
  [k \in DOMAIN list |->
     [name |-> list[k].name, family |-> list[k].family, ip |-> list[k].ip,
      mask |-> Mask(Len(list[k].ip), list[k].prefix)]]
Adapter(name, list, gateways, dns) ==
  [AdapterName |-> "{" \o name \o "}", FriendlyName |-> name, Description |-> "card",
   PhysicalAddress |-> Mac, admin_up |-> TRUE, connected |-> TRUE,
   unicast |-> SelectSeq(list, LAMBDA a : a.name = name /\ a.family # "LINK"),
   gateways |-> gateways, dns |-> dns]

Answers ==
  {"HTTP/1.1 204 No Content\nA: 200\n", "HTTP/1.0  204\n", "HTTP/1.1 200 OK\n204\n",
   "HTTP/1.1 302 204\n", "ICY 204 x\n", "HTTP/1.1 204", ""}
ProbeJob ==
  /\ Idle
  /\ \E answer \in Answers, a, b \in {0, 4, 10, 11},
        resolved, bound, sent, addressed \in BOOLEAN,
        connect \in {"in time", "late", "refused"} :
       /\ a <= b /\ b <= Len(answer)
       /\ Give([kind |-> "probe", answer |-> answer, addressed |-> addressed,
                net |-> [answer |-> <<Before(answer, a + 1), SubSeq(answer, a + 1, b),
                                      From(answer, b + 1)>>,
                         resolved |-> resolved, socket |-> TRUE, bound |-> bound, sent |-> sent,
                         connect |-> connect, options |-> TRUE]])

Served(answer) ==
  LET line == Pieces(Before(answer, FirstIn(answer, {NewLine})), " ")
  IN  Len(line) > 1 /\ StartsWith(line[1], "HTTP/1.") /\ line[2] = "204"

\* What a lease, a gateway or a verdict is made of belongs to the interface
\* chosen: on each system its gateway is that of its first default route in
\* the main table, in whatever parts the kernel sends them, or none when the
\* dump fails or is longer than the buffer; its addresses are
\* the same by getifaddrs and by adapters; a lease is one IPv4 address with its
\* own mask, the gateway and the first server, and the one thing that crashes
\* is a machine that names no server.  The probe's verdict is that of the first
\* line, in whatever pieces it comes, and a machine without an address of its
\* own is passed over.
AnswersAreOfTheInterface == [][\A done \in {job'} :
  /\ done.kind = "gateway" =>
       LET default == SelectSeq(done.routes, LAMBDA r :
             r.table = "main" /\ r.dst = Everywhere /\ r.oif = "eth0")
           wanted == IF default = << >> THEN Failure ELSE Success(default[1].gateway)
           found == linux_iface_ipv4_gateway(Dump(done.routes, done.a, done.b, done.ending), "eth0")
           cloned == FoldLeft(LAMBDA l, r : l \o <<[r EXCEPT !.cloned = TRUE, !.gateway = Mac], r>>,
                              << >>, SelectSeq(done.routes, LAMBDA r : r.table = "main"))
       IN  /\ found \in {wanted, Failure}
           /\ done.ending = "done" /\ SizeOf(done.routes) + 20 <= NL_BUFSIZE => found = wanted
           /\ apple_iface_ipv4_gateway(cloned, "eth0") = wanted
  /\ done.kind = "address" =>
       LET ip_list == obtain_iface_ip_mask(Ifaddrs(done.list), "eth0")
           routed == linux_iface_ipv4_gateway(Dump(done.routes, 0, 0, "done"), "eth0")
           adapters == << Adapter("eth1", done.list, << >>, << >>),
                          Adapter("eth0", done.list, [k \in DOMAIN done.routes |->
                            [family |-> "INET", ip |-> done.routes[k].gateway]], done.resolv[2]) >>
           servers == obtain_dns_list(done.resolv[1])
           numeric == ("1.1.1.1" :> <<1, 1, 1, 1>>) @@ ("8.8.8.8" :> <<8, 8, 8, 8>>)
           lease == rjv3_get_dhcp_lease(ip_list, routed, servers, done.fake, numeric)
           ipv6 == rjv3_set_ipv6_addr(ip_list)
           own == {a \in Range(done.list) : a.name = "eth0"}
           first == IF done.fake # Null THEN done.fake ELSE done.resolv[2][1]
       IN  /\ servers = done.resolv[2] /\ win_dns_list(adapters, "eth0", << >>) = servers
           /\ win_iface_ip_mask(adapters, "{eth0}").value
                = SelectSeq(ip_list, LAMBDA a : a.family # "LINK")
           /\ win_iface_ipv4_gateway(adapters, "NPF_{eth0}", Failure) = routed
           /\ win32_prepare_iface(adapters, "eth0") = Success("NPF_{eth0}")
           /\ \A a \in own : a.family = "LINK"
                => obtain_iface_mac(Ifaddrs(done.list), "eth0", Zeroed(6))
                     = win_iface_mac(adapters, "eth0", Zeroed(6))
           /\ lease.ok =>
                /\ \E a \in own : /\ a.family = "INET" /\ lease.value.ip = a.ip
                                  /\ lease.value.netmask = Mask(4, a.prefix)
                /\ lease.value.gateway = routed.value /\ lease.value.dns = numeric[first]
           /\ "crash" \in DOMAIN lease => done.fake = Null /\ servers = << >>
           /\ \A kind \in DOMAIN ipv6 :
                ipv6[kind] # Zeroed(16) => \E a \in own : a.family = "INET6" /\ a.ip = ipv6[kind]
           /\ \A a \in own : a.family = "INET6" => a.ip \in {ipv6[k] : k \in DOMAIN ipv6}
  /\ done.kind = "probe" =>
       LET net == done.net
           ip_list == IF done.addressed THEN <<[family |-> "INET", ip |-> <<10, 0, 0, 9>>]>> ELSE << >>
           verdict == internet_check_probe(load_default_params, ip_list, net, FALSE, "")
       IN  /\ (verdict = IC_SKIP) = (~done.addressed \/ (net.resolved /\ ~net.bound))
           /\ (verdict = IC_OK)
                = (/\ done.addressed /\ net.resolved /\ net.bound /\ net.sent
                   /\ net.connect = "in time" /\ Served(done.answer))
  ]_job

----------------------------------------------------------------------------
Next ==
  \/ GatewayJob \/ AddressJob \/ ProbeJob \/ LaunchJob
  \/ Stream \/ DigestJob \/ SeedJob \/ FieldsJob \/ FrameJob \/ ByteJob
  \/ TextJob
=============================================================================
