---------------------------- MODULE NetAddresses ----------------------------
(***************************************************************************)
(* What the client reads of the machine's network, util/net_util.c, and    *)
(* what the RJv3 plugin takes of it: the addresses of the interface, its   *)
(* gateway, the name servers.                                              *)
(*                                                                         *)
(* An address is a sequence of bytes, four or sixteen of them.  What the   *)
(* operating system answers is a parameter: lists of interface addresses,  *)
(* adapters, routes and lines.  Allocation succeeds.                       *)
(***************************************************************************)
EXTENDS Texts, Functions

\* What a function leaves in its result when it fails.
Failure == [ok |-> FALSE]
Success(value) == [ok |-> TRUE, value |-> value]

Zeroed(n) == [k \in 1..n |-> 0]
Padded(bytes, n) == [k \in 1..n |-> IF k <= Len(bytes) THEN bytes[k] ELSE 0]

\* The first address of a family, in a list of [family, ip, mask].
find_ip_with_family(list, family) == lookup_data(list, {a \in Range(list) : a.family = family})

----------------------------------------------------------------------------
(* POSIX: getifaddrs gives [name, family, ip, mask], a mask possibly empty. *)

\* The last link address of the name; what the buffer held when there is none.
obtain_iface_mac(ifaddrs, ifname, adr_buf) ==
  LET links == {k \in DOMAIN ifaddrs : ifaddrs[k].name = ifname /\ ifaddrs[k].family = "LINK"}
  IN  IF links = {} THEN adr_buf ELSE ifaddrs[Max(links)].ip

\* Every entry of the name, those of other families empty.
obtain_iface_ip_mask(ifaddrs, ifname) ==
  LET own == SelectSeq(ifaddrs, LAMBDA a : a.name = ifname)
      Entry(a) == IF a.family \in {"INET", "INET6"}
                  THEN [family |-> a.family, ip |-> a.ip, mask |-> a.mask]
                  ELSE [family |-> a.family, ip |-> << >>, mask |-> << >>]
  IN  [k \in DOMAIN own |-> Entry(own[k])]

\* /etc/resolv.conf, a line as the words between its spaces.
Nameserver(line) ==
  LET words == Pieces(line, " ")
  IN  IF StartsWith(line, "#") \/ Len(words) < 2 \/ words[1] # "nameserver"
      THEN << >> ELSE <<words[2]>>
obtain_dns_list(lines) ==
  FoldLeft(LAMBDA list, line : list \o Nameserver(line), << >>, lines)

----------------------------------------------------------------------------
(* Linux: the kernel answers in parts, each a sequence of messages with    *)
(* their sizes.  A part has routes and the flag that more may follow, ends *)
(* the dump, refuses the request, or cannot be received.                   *)

NL_BUFSIZE == 8192
SizeOf(messages) == FoldLeft(LAMBDA sum, m : sum + m.size, 0, messages)

\* The messages that are whole in so many bytes.
WholeIn(messages, bytes) ==
  SubSeq(messages, 1, Max({k \in 0..Len(messages) : SizeOf(SubSeq(messages, 1, k)) <= bytes}))

\* The sequence number compared is one more than the one that was sent, so a
\* dump is read up to its end.  A part is cut where the buffer ends; one whose
\* first message is cut counts as a refusal, and a refusal takes its own length
\* off what was read before.  (Where less than a header is left, what lies
\* behind the buffer is taken for a refusal too.)
read_from_netlink_socket(parts, seq) ==
  LET upTo[k \in 0..Len(parts)] ==
        IF k = 0 THEN [read |-> << >>, len |-> 0, going |-> TRUE]
        ELSE LET before == upTo[k - 1]
                 part == parts[k]
                 got == Min({SizeOf(part.messages), NL_BUFSIZE - before.len})
                 stopped == [before EXCEPT !.going = FALSE]
             IN  IF ~before.going THEN before
                 ELSE IF part.kind = "lost" THEN [stopped EXCEPT !.len = -1]
                 ELSE IF part.kind = "error" \/ got < part.messages[1].size
                 THEN [stopped EXCEPT !.len = @ - got]
                 ELSE IF part.kind = "done" THEN stopped
                 ELSE [read |-> before.read \o WholeIn(part.messages, got),
                       len |-> before.len + got,
                       going |-> part.multi /\ part.seq # seq]
      all == upTo[Len(parts)]
  IN  IF all.len < 0 THEN << >> ELSE WholeIn(all.read, all.len)

retrive_if_gateway(ifname, route) ==
  IF /\ route.family = "INET" /\ route.table = "main"
     /\ route.dst = Zeroed(4) /\ route.oif = ifname
  THEN Success(route.gateway) ELSE Failure

\* What the first route that gives a gateway answers.
FirstGateway(answers) ==
  LET with == {k \in DOMAIN answers : answers[k].ok}
  IN  IF with = {} THEN Failure ELSE answers[Min(with)]

linux_iface_ipv4_gateway(parts, ifname) ==
  LET routes == read_from_netlink_socket(parts, 1)
  IN  FirstGateway([k \in DOMAIN routes |-> retrive_if_gateway(ifname, routes[k])])

\* macOS: the routes of all tables, without those made for one connection.
apple_iface_ipv4_gateway(routes, ifname) ==
  LET Gateway(r) ==
        IF ~r.cloned /\ r.family = "INET" /\ r.dst = Zeroed(4) /\ r.oif = ifname
        THEN Success(r.gateway) ELSE Failure
  IN  FirstGateway([k \in DOMAIN routes |-> Gateway(routes[k])])

----------------------------------------------------------------------------
(* Windows: an adapter is [AdapterName, FriendlyName, Description,         *)
(* PhysicalAddress, admin_up, connected, unicast, gateways, dns].          *)

NpfName(a) == "NPF_" \o a.AdapterName
win_iface_match(user, a) ==
  user \notin {"", Null} /\ user \in {a.AdapterName, NpfName(a), a.FriendlyName, a.Description}

win_find_adapter(head, ifname) == 
  lookup_data(head, {a \in Range(head) : win_iface_match(ifname, a)})

\* The name to capture on, once the cable is in; an address is not waited for.
win32_prepare_iface(head, ifname) ==
  LET found == win_find_adapter(head, ifname)
  IN  IF found # << >> /\ Len(found[1].PhysicalAddress) = 6
         /\ found[1].admin_up /\ found[1].connected
      THEN Success(NpfName(found[1])) ELSE Failure

\* The bytes of a mask: whole bytes, then the bits that are left.
win_prefix_to_mask(size, prefix) ==
  LET MaskByte(k) == IF k <= prefix \div 8 THEN 255
                     ELSE IF k = prefix \div 8 + 1 THEN 256 - 2^(8 - (prefix % 8)) ELSE 0
  IN  [k \in 1..size |-> MaskByte(k)]

win_iface_mac(head, ifname, adr_buf) ==
  LET found == win_find_adapter(head, ifname)
  IN  IF found = << >> THEN adr_buf
      ELSE IF Len(found[1].PhysicalAddress) >= 6
           THEN SubSeq(found[1].PhysicalAddress, 1, 6) ELSE Zeroed(6)

win_iface_ip_mask(head, ifname) ==
  LET found == win_find_adapter(head, ifname)
      own == SelectSeq(found[1].unicast, LAMBDA u : u.family \in {"INET", "INET6"})
  IN  IF found = << >> THEN Failure
      ELSE Success([k \in DOMAIN own |->
             [family |-> own[k].family, ip |-> own[k].ip,
              mask |-> win_prefix_to_mask(Len(own[k].ip), own[k].prefix)]])

\* The servers of the adapter, or of the whole machine when it names none.
win_dns_list(head, ifname, params) ==
  LET found == win_find_adapter(head, ifname)
      own == IF found = << >> THEN << >> ELSE found[1].dns
  IN  IF own # << >> THEN own ELSE SelectSeq(params, LAMBDA p : p # "")

\* The first IPv4 gateway of the adapter, or of the best route to 0.0.0.0.
win_iface_ipv4_gateway(head, ifname, best) ==
  LET found == win_find_adapter(head, ifname)
      own == find_ip_with_family(found[1].gateways, "INET")
  IN  IF found = << >> THEN Failure
      ELSE IF own # << >> THEN Success(own[1].ip) ELSE best

----------------------------------------------------------------------------
(* packet_plugin_rjv3_priv.c. *)

\* The IPv6 addresses by kind, the last of a kind standing.
rjv3_set_ipv6_addr(list) ==
  LET One(kinds, a) ==
        IF a.family # "INET6" THEN kinds
        ELSE IF a.ip[1] \div 16 = 2 THEN [kinds EXCEPT !.global = a.ip]
        ELSE IF ~(a.ip[1] = 254 /\ a.ip[2] = 128) THEN kinds
        ELSE IF a.ip[12] = 255 /\ a.ip[13] = 254 THEN [kinds EXCEPT !.slaac = a.ip]
        ELSE [kinds EXCEPT !.temp = a.ip]
  IN  FoldLeft(One, [slaac |-> Zeroed(16), temp |-> Zeroed(16), global |-> Zeroed(16)], list)

\* The second server, or what --fake-dns2 says.
rjv3_set_secondary_dns(dns_list, fake_dns) ==
  IF fake_dns # Null THEN fake_dns ELSE IF Len(dns_list) > 1 THEN dns_list[2] ELSE ""

\* /etc/mtab: the last device mounted at the root.
RootDevice(lines) ==
  LET roots == {k \in DOMAIN lines :
                  Len(Pieces(lines[k], " ")) > 1 /\ Pieces(lines[k], " ")[2] = "/"}
  IN  IF roots = {} THEN Null ELSE Pieces(lines[Max(roots)], " ")[1]
rjv3_set_hdd_serial(lines, serials, fake_serial) ==
  LET dev == RootDevice(lines)
  IN  IF fake_serial # Null THEN fake_serial
      ELSE IF dev \in DOMAIN serials THEN RTRIM(serials[dev]) ELSE ""

\* The lease read back after DHCP: `numeric` gives the bytes of the texts that
\* are IPv4 addresses.  With no server named the code follows a null pointer.
rjv3_get_dhcp_lease(ip_list, gateway, dns_list, fake_dns1, numeric) ==
  LET ipv4 == find_ip_with_family(ip_list, "INET")
      dns1 == IF fake_dns1 # Null THEN fake_dns1
              ELSE IF dns_list = << >> THEN Null ELSE dns_list[1]
  IN  IF ipv4 = << >> \/ ~gateway.ok THEN Failure
      ELSE IF dns1 = Null THEN [ok |-> FALSE, crash |-> TRUE]
      ELSE IF dns1 \notin DOMAIN numeric THEN Failure
      ELSE Success([ip |-> ipv4[1].ip, netmask |-> Padded(ipv4[1].mask, 4),
                    gateway |-> gateway.value, dns |-> numeric[dns1]])
=============================================================================
