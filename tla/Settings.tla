------------------------------ MODULE Settings ------------------------------
(***************************************************************************)
(* Where the settings of a run come from: the defaults, then the           *)
(* configuration file, then the command line, first for the program        *)
(* (config.c) and then for the plugins it selects (packet_plugin.c and the *)
(* RJv3 plugin), in the order of init_cfg of minieap.c; and what --save    *)
(* writes back.                                                            *)
(*                                                                         *)
(* The settings are a function from their names, mostly those of the       *)
(* options, to numbers and texts.  Length limits of texts are left out.    *)
(***************************************************************************)
EXTENDS GetOpt

----------------------------------------------------------------------------
(* config.c *)

TextOptions ==
  {"username", "password", "nic", "if-impl", "pid-file", "log-file", "internet-check-url",
   "proxy-lan-iface"}
NumberOptions ==
  {"max-fail", "max-retries", "wait-after-fail", "stage-timeout", "auth-round"}
PositiveOptions ==
  {"internet-check-interval", "internet-check-timeout", "internet-check-max-fail"}

\* What `%` gives in C, for a divisor that is positive.
Remainder(n, d) == IF n < 0 THEN -((-n) % d) ELSE n % d

\* DAEMON_NO_LOG (1) names the null device and leaves the destination alone.
configure_log_by_daemon_type(s) ==
  LET type == s["daemonize"] IN
  CASE type \in {0, 2} -> [s EXCEPT !["log-to"] = "console"]
    [] type = 1 -> [s EXCEPT !["log-path"] = "/dev/null"]
    [] type = 3 -> [s EXCEPT !["log-path"] = s["log-file"], !["log-to"] = "file"]
    [] OTHER -> s

load_default_params ==
  configure_log_by_daemon_type(
    [o \in {"username", "password", "nic", "if-impl", "proxy-lan-iface"} |-> Null]
    @@ ("pid-file" :> "minieap.pid") @@ ("log-file" :> "minieap.log")
    @@ ("restart_on_logoff" :> 1) @@ ("wait-after-fail" :> 30) @@ ("daemonize" :> 0)
    @@ ("max-retries" :> 3) @@ ("max-fail" :> 3) @@ ("stage-timeout" :> 5)
    @@ ("save_now" :> 0) @@ ("auth-round" :> 1) @@ ("kill_type" :> "KILL_NONE")
    @@ ("internet-check" :> 0) @@ ("internet-check-url" :> "http://connect/generate_204")
    @@ ("internet-check-interval" :> 60) @@ ("internet-check-timeout" :> 3)
    @@ ("internet-check-max-fail" :> 3) @@ ("proxy_on" :> 0) @@ ("modules" :> << >>)
    @@ ("help" :> 0) @@ ("log-to" :> "console") @@ ("log-path" :> Null))

\* The word after the last "--conf-file"; Null when there is none after it.
\* "--conf-file=path" is not looked for.
parse_cmdline_conf_file(argv) ==
  LET at == {i \in DOMAIN argv : argv[i] = Long("conf-file")}
  IN  IF at = {} THEN "minieap.conf"
      ELSE IF Max(at) = Len(argv) THEN Null ELSE AsArgument(argv[Max(at) + 1])

parse_one_opt(s, option, argument) ==
  CASE option = "proxy-lan-iface" -> [s EXCEPT !["proxy_on"] = 1, ![option] = argument]
    [] option \in TextOptions \ {"proxy-lan-iface"} -> [s EXCEPT ![option] = argument]
    [] option \in NumberOptions -> [s EXCEPT ![option] = atoi(argument)]
    [] option \in PositiveOptions
         -> IF atoi(argument) <= 0 THEN s ELSE [s EXCEPT ![option] = atoi(argument)]
    [] option = "daemonize" -> [s EXCEPT ![option] = Remainder(atoi(argument), 4)]
    [] option \in {"pkt-plugin", "module"} -> [s EXCEPT !["modules"] = Append(@, argument)]
    [] option = "save" -> [s EXCEPT !["save_now"] = 1]
    [] option = "help" -> [s EXCEPT !["help"] = 1]
    [] option = "no-auto-reauth" -> [s EXCEPT !["restart_on_logoff"] = 0]
    [] option = "kill"
         -> [s EXCEPT !["kill_type"] = IF argument = Null THEN "KILL_ONLY" ELSE "KILL_AND_START"]
    [] option = "internet-check"
         -> [s EXCEPT ![option] = IF argument = Null \/ atoi(argument) # 0 THEN 1 ELSE 0]
    [] OTHER -> s

ShortOptions ==
  ("h" :> 0) @@ ("k" :> 2) @@ ("w" :> 0)
  @@ [l \in {"u", "p", "n", "t", "r", "l", "x", "b", "c", "z", "j"} |-> 1]
LongOptions ==
  <<Option("help", 0, "h"), Option("kill", 2, "k"), Option("save", 0, "w"),
    Option("username", 1, "u"), Option("password", 1, "p"), Option("nic", 1, "n"),
    Option("stage-timeout", 1, "t"), Option("wait-after-fail", 1, "r"),
    Option("max-fail", 1, "l"), Option("no-auto-reauth", 0, "x"),
    Option("daemonize", 1, "b"), Option("proxy-lan-iface", 1, "z"),
    Option("auth-round", 1, "j"), Option("max-retries", 1, ""), Option("pid-file", 1, ""),
    Option("if-impl", 1, ""), Option("pkt-plugin", 1, ""), Option("module", 1, ""),
    Option("log-file", 1, ""), Option("internet-check", 0, ""),
    Option("internet-check-url", 1, ""), Option("internet-check-interval", 1, ""),
    Option("internet-check-timeout", 1, ""), Option("internet-check-max-fail", 1, "")>>

\* Mutant: the plugins of the file stay.
ParseCmdlineOptsKeepingModules(s, argv) ==
  LET options == Options(argv, ShortOptions, LongOptions)
      read == FoldLeft(LAMBDA t, o : parse_one_opt(t, o.name, o.argument), s, options.read)
  IN  [settings |-> configure_log_by_daemon_type(read), ok |-> ~options.missing]

\* The first --module or --pkt-plugin drops the plugins of the file.
parse_cmdline_opts(s, argv) ==
  LET options == Options(argv, ShortOptions, LongOptions)
      Plugs(k) == options.read[k].name \in {"module", "pkt-plugin"}
      One(t, k) ==
        LET option == options.read[k]
            reset == Plugs(k) /\ \A j \in 1..(k - 1) : ~Plugs(j)
        IN  parse_one_opt(IF reset THEN [t EXCEPT !["modules"] = << >>] ELSE t,
                          option.name, option.argument)
      read == FoldLeft(One, s, [k \in DOMAIN options.read |-> k])
  IN  [settings |-> IF options.missing THEN read ELSE configure_log_by_daemon_type(read),
       ok |-> ~options.missing]

\* Each pair of the file that has a value; a file that cannot be read is [].
parser_traverser(s, pair) ==
  IF pair[2] = "" THEN s ELSE parse_one_opt(s, pair[1], pair[2])
parse_config_file(s, pairs) == FoldLeft(parser_traverser, s, pairs)

\* internet_check_parse_url, for a buffer of hostlen and pathlen bytes.
internet_check_parse_url(url, hostlen, pathlen) ==
  LET p == From(url, 8)
      host_end == FirstIn(p, {"/", ":"})
      after == From(p, host_end)
      port_end == FirstIn(after, {"/"})
      parsed_port == atoi(SubSeq(after, 2, port_end - 1))
      hasPort == StartsWith(after, ":")
      path == IF hasPort THEN From(after, port_end) ELSE after
      ok == /\ url # Null /\ StartsWith(url, "http://")
            /\ host_end > 1 /\ host_end - 1 < hostlen
            /\ hasPort => port_end > 2 /\ parsed_port \in 1..65535
            /\ Len(path) < pathlen
  IN  IF ok THEN [ok |-> TRUE, host |-> Before(p, host_end),
                  port |-> IF hasPort THEN parsed_port ELSE 80,
                  path |-> IF path = "" THEN "/" ELSE path]
      ELSE [ok |-> FALSE]

UrlMax == 256
validate_params(s) ==
  /\ s["proxy_on"] = 0 => s["username"] # Null /\ s["password"] # Null
  /\ s["proxy_on"] = 1 => s["proxy-lan-iface"] # Null
  /\ s["nic"] # Null
  /\ s["internet-check"] # 0 => internet_check_parse_url(s["internet-check-url"], UrlMax, UrlMax).ok

----------------------------------------------------------------------------
(* The RJv3 plugin. *)

PluginTexts == {"dhcp-script", "service", "version-str", "fake-dns1", "fake-dns2", "fake-serial"}

rjv3_new ==
  [o \in PluginTexts |-> Null] @@ [o \in {"heartbeat", "max-dhcp-count"} |-> 0]
  @@ ("eap-bcast-addr" :> 0) @@ ("dhcp-type" :> 0)
  @@ ("cmd_prop_list" :> << >>) @@ ("cmd_prop_mod_list" :> << >>)

rjv3_load_default_params(q) ==
  [q EXCEPT !["heartbeat"] = 60, !["max-dhcp-count"] = 3, !["service"] = "internet",
            !["version-str"] = "RG-SU For Linux V1.0", !["dhcp-script"] = "",
            !["eap-bcast-addr"] = 0, !["dhcp-type"] = 2]

\* type:content[:r], in hex; a last single digit is a byte of its own.
append_rj_cmdline_opt(q, opt) ==
  LET split == Pieces(opt, ":")
      hex == split[2]
      content == [k \in 1..((Len(hex) + 1) \div 2) |-> char2hex(From(hex, 2 * k - 1))]
      prop == [type |-> char2hex(split[1]), content |-> content]
      list == IF Len(split) > 2 /\ StartsWith(split[3], "r")
              THEN "cmd_prop_mod_list" ELSE "cmd_prop_list"
  IN  IF Len(split) < 2 THEN [plugin |-> q, ok |-> FALSE]
      ELSE [plugin |-> [q EXCEPT ![list] = Append(@, prop)], ok |-> TRUE]

rjv3_parse_one_opt(q, option, argument) ==
  LET Set(value) == [plugin |-> [q EXCEPT ![option] = value], ok |-> TRUE] IN
  CASE option = "heartbeat" /\ atoi(argument) < 0 -> [plugin |-> q, ok |-> FALSE]
    [] option = "heartbeat" /\ atoi(argument) >= 0 -> Set(atoi(argument))
    [] option = "max-dhcp-count" -> Set(atoi(argument))
    [] option = "eap-bcast-addr" -> Set(Remainder(atoi(argument), 2))
    [] option = "dhcp-type" -> Set(Remainder(atoi(argument), 4))
    [] option = "rj-option" -> append_rj_cmdline_opt(q, argument)
    [] option \in PluginTexts -> Set(argument)
    [] OTHER -> [plugin |-> q, ok |-> TRUE]

RjShortOptions == [l \in {"e", "a", "d", "v", "f", "c", "q"} |-> 1]
RjLongOptions ==
  <<Option("heartbeat", 1, "e"), Option("eap-bcast-addr", 1, "a"), Option("dhcp-type", 1, "d"),
    Option("dhcp-script", 1, "c"), Option("rj-option", 1, ""), Option("service", 1, ""),
    Option("version-str", 1, ""), Option("fake-dns1", 1, ""), Option("fake-dns2", 1, ""),
    Option("fake-serial", 1, ""), Option("max-dhcp-count", 1, "")>>

\* The first option that is refused ends the reading.
rjv3_process_cmdline_opts(q, argv) ==
  LET options == Options(argv, RjShortOptions, RjLongOptions)
      One(r, o) == IF r.ok THEN rjv3_parse_one_opt(r.plugin, o.name, o.argument) ELSE r
      read == FoldLeft(One, [plugin |-> q, ok |-> TRUE], options.read)
  IN  [read EXCEPT !.ok = @ /\ ~options.missing]

\* A refused option of the file is passed over.
rjv3_parser_traverser(q, pair) ==
  IF pair[2] = "" THEN q ELSE rjv3_parse_one_opt(q, pair[1], pair[2]).plugin
rjv3_process_config_file(q, pairs) == FoldLeft(rjv3_parser_traverser, q, pairs)

RECURSIVE HexText(_)
HexText(bytes) == IF bytes = << >> THEN "" ELSE hex2char(Head(bytes)) \o HexText(Tail(bytes))
rjv3_save_one_prop(list, prop, is_mod) ==
  conf_parser_add_value(list, "rj-option",
    hex2char(prop.type) \o ":" \o HexText(prop.content) \o (IF is_mod THEN ":r" ELSE ""))

Pairs(list, names, q) == FoldLeft(LAMBDA l, o : conf_parser_add_value(l, o, q[o]), list, names)
Numbers(list, names, q) ==
  FoldLeft(LAMBDA l, o : conf_parser_add_value(l, o, my_itoa(q[o])), list, names)

rjv3_save_config(list, q) ==
  LET numbers == Numbers(list, <<"heartbeat", "eap-bcast-addr", "dhcp-type">>, q)
      added == FoldLeft(LAMBDA l, p : rjv3_save_one_prop(l, p, FALSE), numbers, q["cmd_prop_list"])
      modified == FoldLeft(LAMBDA l, p : rjv3_save_one_prop(l, p, TRUE), added,
                           q["cmd_prop_mod_list"])
      texts == Pairs(modified, <<"service", "version-str", "dhcp-script", "fake-dns1",
                                 "fake-dns2", "fake-serial">>, q)
  IN  Numbers(texts, <<"max-dhcp-count">>, q)

----------------------------------------------------------------------------
(* packet_plugin.c and if_impl.c: what is built in, and what is selected. *)

PluginList == <<"printer", "rjv3">>
ImplList == <<"sockraw", "libpcap">>

\* select_packet_plugin for each name of the list, in its order.
select_packet_plugin(active, name) ==
  active \o lookup_data(PluginList, {name})
packet_plugin_list_select(modules) == FoldLeft(select_packet_plugin, << >>, modules)

\* The first implementation matches when no name is given.
select_if_impl(name) ==
  lookup_data(ImplList, IF name = Null THEN Range(ImplList) ELSE {name})

save_active_packet_plugin_list(list, active) ==
  FoldLeft(LAMBDA l, name : conf_parser_add_value(l, "module", name), list, active)

\* A round calls every active plugin, in order.  A plugin without the callback is
\* passed over, as the printer is for all of these; a failure ends the round.
HasSettings(name) == name = "rjv3"

packet_plugin_load_default_params(active, q) ==
  FoldLeft(LAMBDA p, name : IF HasSettings(name) THEN rjv3_load_default_params(p) ELSE p,
           q, active)
packet_plugin_process_config_file(active, q, pairs) ==
  FoldLeft(LAMBDA p, name : IF HasSettings(name) THEN rjv3_process_config_file(p, pairs) ELSE p,
           q, active)
packet_plugin_process_cmdline_opts(active, q, argv) ==
  FoldLeft(LAMBDA r, name : IF r.ok /\ HasSettings(name)
                            THEN rjv3_process_cmdline_opts(r.plugin, argv) ELSE r,
           [plugin |-> q, ok |-> TRUE], active)
packet_plugin_save_config(list, active, q) ==
  FoldLeft(LAMBDA l, name : IF HasSettings(name) THEN rjv3_save_config(l, q) ELSE l, list, active)

\* The pairs --save writes: a text that is not set is left out.
save_config_file(s, active, impl, q) ==
  LET names == Pairs(<< >>, <<"username", "password", "nic">>, s)
      plugins == save_active_packet_plugin_list(names, active)
      daemon == Numbers(plugins, <<"daemonize">>, s)
      driver == conf_parser_add_value(daemon, "if-impl", impl)
      counts == Numbers(driver, <<"max-fail", "max-retries">>, s)
      again == conf_parser_add_value(counts, "no-auto-reauth",
                                     IF s["restart_on_logoff"] # 0 THEN "0" ELSE "1")
      waits == Numbers(again, <<"wait-after-fail", "stage-timeout">>, s)
      proxy == Pairs(waits, <<"proxy-lan-iface">>, s)
      rounds == Numbers(proxy, <<"auth-round">>, s)
      files == Pairs(rounds, <<"pid-file", "log-file">>, s)
      check == conf_parser_add_value(files, "internet-check",
                                     IF s["internet-check"] # 0 THEN "1" ELSE "0")
      url == Pairs(check, <<"internet-check-url">>, s)
      limits == Numbers(url, <<"internet-check-interval", "internet-check-timeout",
                               "internet-check-max-fail">>, s)
  IN  packet_plugin_save_config(limits, active, q)

----------------------------------------------------------------------------
(* minieap.c *)

\* What a launch comes to: running with these settings, or stopped.  The files
\* are a function from paths to lines; a path outside it cannot be read.
Stopped(why, files) == [outcome |-> why, files |-> files]

init_plugin_config(s, active, impl, pairs, argv, path, files) ==
  LET defaults == packet_plugin_load_default_params(active, rjv3_new)
      fromFile == packet_plugin_process_config_file(active, defaults, pairs)
      read == packet_plugin_process_cmdline_opts(active, fromFile, argv)
      lines == conf_parser_save_file(save_config_file(s, active, impl, read.plugin))
  IN  IF ~read.ok THEN Stopped("plugin options", files)
      ELSE [outcome |-> "running", settings |-> s, active |-> active, impl |-> impl,
            plugin |-> read.plugin,
            files |-> IF s["save_now"] # 0 THEN (path :> lines) @@ files ELSE files]

init_cfg(files, argv) ==
  LET path == parse_cmdline_conf_file(argv)
      pairs == IF path \in DOMAIN files THEN conf_parser_parse_now(files[path]) ELSE << >>
      fromFile == parse_config_file(load_default_params, pairs)
      read == parse_cmdline_opts(fromFile, argv)
      s == read.settings
      active == packet_plugin_list_select(s["modules"])
      impl == select_if_impl(s["if-impl"])
  IN  CASE path = Null -> Stopped("no configuration path", files)
        [] s["help"] # 0 /\ path # Null -> Stopped("help", files)
        [] path # Null /\ s["help"] = 0 /\ ~(read.ok /\ validate_params(s))
             -> Stopped("options", files)
        [] path # Null /\ s["help"] = 0 /\ read.ok /\ validate_params(s) /\ impl = << >>
             -> Stopped("interface", files)
        [] OTHER -> init_plugin_config(s, active, impl[1], pairs, argv, path, files)
=============================================================================
