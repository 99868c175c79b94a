------------------------------- MODULE GetOpt -------------------------------
(***************************************************************************)
(* The command line: getopt_long of compat/getopt.c, with the options both *)
(* callers use (option strings that start with "-:", so words that are no  *)
(* options are returned in order and nothing is printed).                  *)
(*                                                                         *)
(* A word of the command line is a record: a plain text, the word "--", a  *)
(* long option with or without "=text", or a cluster of short options.     *)
(***************************************************************************)
EXTENDS FiniteSets, Texts

Text(t) == [kind |-> "text", text |-> t]
Long(name) == [kind |-> "long", name |-> name, text |-> Null]
LongWith(name, t) == [kind |-> "long", name |-> name, text |-> t]
Short(letters) == [kind |-> "short", letters |-> letters]
EndOfOptions == [kind |-> "end"]

\* A word taken as the argument of the option before it. One that looks like
\* an option is taken all the same.
AsArgument(word) == IF word.kind = "text" THEN word.text ELSE "-option"

\* The entries of an option table: has_arg is 0, 1 (required) or 2 (optional).
Option(name, has_arg, val) == [name |-> name, has_arg |-> has_arg, val |-> val]

IsAbbreviation(name, full) == StartsWith(full, name)

\* An exact name ends the search, an abbreviation of several is ambiguous.
find_longopt(longopts, name) ==
  LET matches == {i \in DOMAIN longopts : IsAbbreviation(name, longopts[i].name)}
      exact == {i \in matches : longopts[i].name = name}
      passed == {i \in matches : \A e \in exact : i < e}
  IN  [index |-> IF exact # {} THEN Min(exact) ELSE IF matches = {} THEN 0 ELSE Min(matches),
       ambiguous |-> Cardinality(passed) > 1]

\* has_arg of a letter of the option string: -1 when it is not in it.
find_shortopt(shortOpts, letter) ==
  IF letter \in DOMAIN shortOpts THEN shortOpts[letter] ELSE -1

\* Where getopt_long stands: optind counts the words after the program's name,
\* optcursor is what is left of a cluster.
Start == [optind |-> 1, optcursor |-> ""]

\* What one call returns: the code, optarg, the index of the long option (from
\* 1) and where it stands afterwards.
Returned(code, optarg, index, optind, optcursor) ==
  [code |-> code, optarg |-> optarg, index |-> index,
   at |-> [optind |-> optind, optcursor |-> optcursor]]

LongOption(argv, at, longopts) ==
  LET word == argv[at.optind]
      found == find_longopt(longopts, word.name)
      o == longopts[found.index]
      next == at.optind + 1
  IN  IF found.index = 0 \/ found.ambiguous
      THEN Returned("?", Null, 1, next, "")
      ELSE CASE o.has_arg = 1 /\ word.text # Null -> Returned(o.val, word.text, found.index, next, "")
             [] o.has_arg = 1 /\ word.text = Null /\ next <= Len(argv)
                  -> Returned(o.val, AsArgument(argv[next]), found.index, next + 1, "")
             [] o.has_arg = 1 /\ word.text = Null /\ next > Len(argv)
                  -> Returned(":", Null, found.index, next, "")
             [] o.has_arg = 2 -> Returned(o.val, word.text, found.index, next, "")
             [] o.has_arg = 0 /\ word.text # Null -> Returned("?", Null, found.index, next, "")
             [] OTHER -> Returned(o.val, Null, found.index, next, "")

ShortOption(argv, letters, optind, shortOpts) ==
  LET letter == Char(letters, 1)
      rest == From(letters, 2)
      has_arg == find_shortopt(shortOpts, letter)
  IN  CASE has_arg = -1 -> Returned("?", Null, 1, optind, rest)
        [] has_arg = 0 -> Returned(letter, Null, 1, optind, rest)
        [] has_arg > 0 /\ rest # "" -> Returned(letter, rest, 1, optind, "")
        [] has_arg = 2 /\ rest = "" -> Returned(letter, Null, 1, optind, "")
        [] has_arg = 1 /\ rest = "" /\ optind <= Len(argv)
             -> Returned(letter, AsArgument(argv[optind]), 1, optind + 1, "")
        [] OTHER -> Returned(":", Null, 1, optind, "")

getopt_long(argv, at, shortOpts, longopts) ==
  IF at.optcursor # ""
  THEN ShortOption(argv, at.optcursor, at.optind, shortOpts)
  ELSE IF at.optind > Len(argv)
       THEN Returned("end", Null, 1, at.optind, "")
       ELSE LET word == argv[at.optind]
            IN  CASE word.kind = "text" -> Returned("text", word.text, 1, at.optind + 1, "")
                  [] word.kind = "end" -> Returned("end", Null, 1, at.optind + 1, "")
                  [] word.kind = "long" -> LongOption(argv, at, longopts)
                  [] word.kind = "short"
                       -> ShortOption(argv, word.letters, at.optind + 1, shortOpts)

\* The first entry of the table with that letter, 0 when there is none.
shortopt2longindex(opt, longopts) ==
  LET with == {i \in DOMAIN longopts : longopts[i].val = opt}
  IN  IF with = {} THEN 0 ELSE Min(with)

\* The loop of both callers: the options read, as <<name, argument, code>>, up
\* to the end or to an option whose argument is missing.
RECURSIVE OptionsFrom(_, _, _, _)
OptionsFrom(argv, at, shortOpts, longopts) ==
  LET got == getopt_long(argv, at, shortOpts, longopts)
      longIndex == IF got.code = "" THEN got.index ELSE shortopt2longindex(got.code, longopts)
      rest == OptionsFrom(argv, got.at, shortOpts, longopts)
  IN  CASE got.code = "end" -> [read |-> << >>, missing |-> FALSE]
        [] got.code = ":" -> [read |-> << >>, missing |-> TRUE]
        [] OTHER -> [rest EXCEPT !.read =
             (IF longIndex = 0 THEN << >>
              ELSE <<[name |-> longopts[longIndex].name, argument |-> got.optarg,
                      byName |-> got.code = ""]>>) \o @]

Options(argv, shortOpts, longopts) == OptionsFrom(argv, Start, shortOpts, longopts)
=============================================================================
