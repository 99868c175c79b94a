-------------------------------- MODULE Texts --------------------------------
(***************************************************************************)
(* Texts and the conversions of util/misc.c and util/conf_parser.c: hex    *)
(* digits, decimal numbers, the lines of the configuration file.           *)
(***************************************************************************)
EXTENDS Integers, Sequences, SequencesExt, TLC

\* A text that is not there: the null pointer.
Null == "(null)"

Char(s, i) == SubSeq(s, i, i)
From(s, i) == SubSeq(s, i, Len(s))
Before(s, i) == SubSeq(s, 1, i - 1)
StartsWith(s, start) == Len(start) <= Len(s) /\ SubSeq(s, 1, Len(start)) = start

\* Where a character of the set first is; one past the end when it is nowhere.
FirstIn(s, chars) ==
  Min({i \in 1..Len(s) : Char(s, i) \in chars} \union {Len(s) + 1})

\* The pieces between separators; strtok skips the empty ones.
RECURSIVE Pieces(_, _)
Pieces(s, separator) ==
  LET i == FirstIn(s, {separator})
      rest == IF i > Len(s) THEN << >> ELSE Pieces(From(s, i + 1), separator)
  IN  IF i = 1 THEN rest ELSE <<Before(s, i)>> \o rest

\* Letters count in either case.
Digit(c) == (FirstIn("0123456789abcdef__________ABCDEF", {c}) - 1) % 16
Digits == {"0", "1", "2", "3", "4", "5", "6", "7", "8", "9"}

\* The number a text starts with, 0 when it starts with none.
atoi(s) ==
  LET negative == StartsWith(s, "-")
      t == IF negative THEN From(s, 2) ELSE s
      n == Min({i \in 1..Len(t) : Char(t, i) \notin Digits} \union {Len(t) + 1}) - 1
      value == FoldLeft(LAMBDA v, i : 10 * v + Digit(Char(t, i)), 0, [i \in 1..n |-> i])
  IN  IF negative THEN -value ELSE value

\* The sign is written to the place the first digit then takes.
my_itoa(val) == ToString(IF val < 0 THEN -val ELSE val)

\* One or two digits of a text, and the two digits of a byte.
char2hex(s) ==
  IF Len(s) < 2 THEN Digit(Char(s, 1)) ELSE 16 * Digit(Char(s, 1)) + Digit(Char(s, 2))
HexDigit(n) == Char("0123456789abcdef", n + 1)
hex2char(hex) == HexDigit(hex \div 16) \o HexDigit(hex % 16)

----------------------------------------------------------------------------
(* The configuration file: a list of <<key, value>> pairs, one per line. *)

LTRIM(s) == From(s, Min({i \in 1..Len(s) : Char(s, i) # " "} \union {Len(s) + 1}))
RTRIM(s) ==
  SubSeq(s, 1, Max({i \in 1..Len(s) : Char(s, i) # " "} \union {0}))

\* A pair is only kept when it has a key and a value.
conf_parser_add_value(list, key, value) ==
  IF key = Null \/ value = Null THEN list ELSE Append(list, <<key, value>>)

\* Mutant: a parser that cuts at the last "=".
ParseLineAtLast(list, line) ==
  LET start == LTRIM(line)
      delim == Max({i \in 1..Len(start) : Char(start, i) = "="} \union {0})
  IN  IF StartsWith(start, "#") \/ delim = 0
      THEN list
      ELSE conf_parser_add_value(list, Before(start, delim), RTRIM(From(start, delim + 1)))

\* One line: blanks before the key go, a comment and a line without "=" count
\* for nothing, and the value loses the blanks after it.
ParseLine(list, line) ==
  LET start == LTRIM(line)
      delim == FirstIn(start, {"="})
  IN  IF StartsWith(start, "#") \/ delim > Len(start)
      THEN list
      ELSE LET value == From(RTRIM(From(start, delim)), 2)
           IN  conf_parser_add_value(list, Before(start, delim), value)

conf_parser_parse_now(lines) == FoldLeft(ParseLine, << >>, lines)

conf_write_one_pair(pair) == pair[1] \o "=" \o pair[2]
conf_parser_save_file(list) == [k \in DOMAIN list |-> conf_write_one_pair(list[k])]

\* The first value of a key, and a key given a value.
conf_parser_get_value(list, key, buflen) ==
  LET with == {k \in DOMAIN list : list[k][1] = key}
  IN  IF with = {} THEN Null
      ELSE IF Len(list[Min(with)][2]) >= buflen THEN Null ELSE list[Min(with)][2]

conf_parser_set_value(list, key, value) ==
  LET with == {k \in DOMAIN list : list[k][1] = key}
  IN  IF with = {} THEN conf_parser_add_value(list, key, value)
      ELSE [list EXCEPT ![Min(with)] = <<key, value>>]

----------------------------------------------------------------------------
(* The plugin and interface lists, and what runs the plugins in order. *)

insert_data(list, data) == Append(list, data)

\* The first element of those the comparison accepts, << >> when there is none.
lookup_data(list, accepted) ==
  LET with == {k \in DOMAIN list : list[k] \in accepted}
  IN  IF with = {} THEN << >> ELSE <<list[Min(with)]>>

remove_data(list, accepted) == SelectSeq(list, LAMBDA e : e \notin accepted)
list_concat(list, new_list) == list \o new_list
=============================================================================
