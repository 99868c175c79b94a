------------------------------ MODULE HttpProbe ------------------------------
(***************************************************************************)
(* One probe of the internet check, internet_check_http_get and            *)
(* internet_check_probe of util/internet_check.c: a request from the       *)
(* address of the interface, and the status of the answer.                 *)
(*                                                                         *)
(* The network's side is a record: whether the name is found, the socket   *)
(* and the bind succeed, what becomes of the connection, how much of the   *)
(* request is sent, and the pieces in which the answer comes before the    *)
(* connection is closed or the receive times out.                          *)
(***************************************************************************)
EXTENDS Settings, NetAddresses

IC_OK == "IC_OK"
IC_FAIL == "IC_FAIL"
IC_SKIP == "IC_SKIP"

BufferSize == 512
RequestSize == 1024
NewLine == "\n"

\* select and SO_ERROR after a connect that is under way.
internet_check_wait_connect(net) == net.connect = "in time"

\* The request line and headers; "Host" has the port when it is not 80.
RequestOverhead == 64
RequestLength(url) ==
  RequestOverhead + Len(url.path) + Len(url.host)
    + IF url.port = 80 THEN 0 ELSE 1 + Len(ToString(url.port))

Shorter(s, n) == IF Len(s) > n THEN SubSeq(s, 1, n) ELSE s

\* Mutant: only the first piece is read.
ReceivedOnce(pieces) == IF pieces = << >> THEN "" ELSE pieces[1]

\* The pieces are read up to the first end of line, or a full buffer.
Received(pieces) ==
  FoldLeft(LAMBDA buf, piece :
             IF FirstIn(buf, {NewLine}) <= Len(buf) THEN buf
             ELSE Shorter(buf \o piece, BufferSize - 1),
           "", pieces)

\* The number after the version and the blanks.
StatusCode(buf) ==
  LET version == From(buf, 8) IN atoi(LTRIM(From(version, FirstIn(version, {" "}))))

internet_check_http_get(cfg, ip_list, net) ==
  LET url == internet_check_parse_url(cfg["internet-check-url"], UrlMax, UrlMax)
      buf == Received(net.answer)
  IN  CASE ~url.ok -> IC_FAIL
        [] url.ok /\ find_ip_with_family(ip_list, "INET") = << >> -> IC_SKIP
        [] OTHER ->
             IF ~net.resolved \/ ~net.socket THEN IC_FAIL
             ELSE IF ~net.bound THEN IC_SKIP
             ELSE IF /\ net.connect # "refused" /\ internet_check_wait_connect(net)
                     /\ net.options
                     /\ RequestLength(url) < RequestSize
                     /\ net.sent
                     /\ StartsWith(buf, "HTTP/1.")
                     /\ StatusCode(buf) = 204
             THEN IC_OK ELSE IC_FAIL

\* A function set for the tests replaces the request; `status` is what it gives.
internet_check_probe(cfg, ip_list, net, http_fn, status) ==
  IF ~http_fn THEN internet_check_http_get(cfg, ip_list, net)
  ELSE CASE status = "failure" -> IC_FAIL
         [] status = "204" -> IC_OK
         [] status = "0" -> IC_SKIP
         [] OTHER -> IC_FAIL
=============================================================================
