--------------------------- MODULE MCCommandLine ----------------------------
(***************************************************************************)
(* Command lines for TLC: every one of up to three arguments of all kinds, *)
(* and every one of four or five from a few that get in each other's way.  *)
(***************************************************************************)
EXTENDS CommandLine

Text(length, number) ==
  [ name |-> None, attached |-> None, dash |-> FALSE, length |-> length, number |-> number ]

Dashed(name, attached) ==
  [ name |-> name, attached |-> attached, dash |-> TRUE, length |-> 12, number |-> NoNumber ]

Attached ==
  { <<"--screen", "">>, <<"--screen", "a">>, <<"--screen-mode", "4">>,
    <<"--screen-mode", "5">>, <<"--rate", "60">>, <<"--rate", "a">>,
    <<"--rate", "55">>, <<"--sectors", "200">>, <<"--sectors", "60">>,
    <<"--medium-name", "a">>, <<"--medium-name", "eleven char">>,
    <<"--random-id", "200">>, <<"--help", "a">> }

Joined(pair) == pair[1] \o "=" \o pair[2]

Plain ==
  [ text \in {"", "a", "4", "5", "55", "60", "200", "eleven char"} |->
      CASE text = ""            -> Text(0, NoNumber)
        [] text = "a"           -> Text(1, NoNumber)
        [] text = "4"           -> Text(1, 4)
        [] text = "5"           -> Text(1, 5)
        [] text = "55"          -> Text(2, 55)
        [] text = "60"          -> Text(2, 60)
        [] text = "200"         -> Text(3, 200)
        [] text = "eleven char" -> Text(11, NoNumber) ]

Alone == Flags \cup Valued \cup Asking \cup {"--", "--rat", "-"}

MCWord ==
  [ text \in DOMAIN Plain \cup Alone \cup {Joined(pair) : pair \in Attached} |->
      IF text \in DOMAIN Plain THEN Plain[text]
      ELSE IF text \in Alone THEN Dashed(text, None)
      ELSE LET pair == CHOOSE p \in Attached : Joined(p) = text
           IN  Dashed(pair[1], pair[2]) ]

(* The options that ask for the same thing are looked at once.             *)
Various ==
  DOMAIN MCWord \ {"5", "55", "-", "--verbose", "--version", "--medium-name", "--random-id"}

Few == {"a", "60", "--", "--screen", "--rate", "--screen-mode=4", "--force"}

MCArgv ==
  UNION {[1 .. n -> Various] : n \in 0 .. 3} \cup UNION {[1 .. n -> Few] : n \in 4 .. 5}
=============================================================================
