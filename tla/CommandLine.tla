---------------------------- MODULE CommandLine -----------------------------
(***************************************************************************)
(* The option loop of cli_main in cli.c, one step a round, with            *)
(* option_value and parse_u32; and apart from it, what an argv means, said *)
(* without a loop: which arguments are values, options and operands, which *)
(* of them decides, and which occurrence of an option counts.              *)
(*                                                                         *)
(* An argument is a text.  Word tells of each text what the code asks of   *)
(* its characters: the name before a "=" and the text behind it, whether   *)
(* it begins with "-", its length, and the number strtoull makes of it, if *)
(* it takes the text to its end.                                           *)
(***************************************************************************)
EXTENDS Integers, Sequences, FiniteSetsExt

CONSTANTS
  Argv,      (* the command lines looked at                            *)
  Word       (* Word[text]: name, attached, dash, length, number       *)

None == "no text"       (* nothing attached *)
NoNumber == -1          (* not a number      *)

Flags == {"--force", "--verbose", "--no-pitch-conversion"}
Numeric == {"--screen-mode", "--rate", "--sectors", "--random-id"}
Valued == Numeric \cup {"--screen", "--medium-name"}
Asking == {"--help", "--version"}

(* What the fields of a text have to do with each other: the options are   *)
(* texts that begin with "-", and what follows no "=" is all name.         *)
ASSUME WordAssumption ==
  /\ None \notin DOMAIN Word
  /\ \A line \in Argv : line \in Seq(DOMAIN Word)
  /\ \A text \in DOMAIN Word :
       /\ Word[text].attached # None => Word[text].attached \in DOMAIN Word
       /\ Word[text].dash /\ Word[text].attached = None => Word[text].name = text
       /\ Word[text].name \in Valued => Word[text].dash
       /\ text \in Flags \cup Valued \cup Asking \cup {"--"} =>
            Word[text].dash /\ Word[text].attached = None

VARIABLES
  argv,
  i,              (* the argument the loop looks at                   *)
  given,          (* image_options: what each option is set to        *)
  options_done,   (* "--" was seen                                    *)
  operands,
  error,          (* error.text is set                                *)
  verdict         (* "parsing", "proceed", "usage" or what was asked  *)

cliVars == <<argv, i, given, options_done, operands, error, verdict>>

(* screen_mode_set and random_id_set are told by NoNumber where nothing    *)
(* else depends on the value 8 and the random number used without them.    *)
Defaults ==
  [ option \in Flags \cup Valued |->
      CASE option \in Flags                                -> FALSE
        [] option = "--rate"                               -> 50
        [] option = "--sectors"                            -> 255
        [] option \in {"--screen-mode", "--random-id"}     -> NoNumber
        [] option \in {"--screen", "--medium-name"}        -> None ]

CliInit ==
  /\ argv \in Argv
  /\ i = 1
  /\ given = Defaults
  /\ options_done = FALSE
  /\ operands = << >>
  /\ error = FALSE
  /\ verdict = "parsing"
-----------------------------------------------------------------------------
(* Whether the argument is an option of these names, alone or with "=".    *)
IsWith(text, names) == Word[text].name \in names

Looping == verdict = "parsing" /\ ~error /\ i <= Len(argv)

AtOption == Looping /\ ~options_done

Continue(count) == i' = i + count /\ UNCHANGED <<error, verdict>>

(* Mutant: the value is looked at as an argument of its own, too.          *)
LengthTakenAlone(text) == 1

(* How many arguments the option takes, its own included.                  *)
LengthTaken(text) == IF Word[text].attached = None THEN 2 ELSE 1

EndOfOptions ==
  /\ AtOption /\ argv[i] = "--"
  /\ options_done' = TRUE
  /\ Continue(1)
  /\ UNCHANGED <<argv, given, operands>>

(* print_usage or the version: main returns 0 at once.                     *)
Answer ==
  /\ AtOption /\ argv[i] \in Asking
  /\ verdict' = argv[i]
  /\ UNCHANGED <<argv, i, given, options_done, operands, error>>

SetFlag ==
  /\ AtOption /\ argv[i] \in Flags
  /\ given' = [given EXCEPT ![argv[i]] = TRUE]
  /\ Continue(1)
  /\ UNCHANGED <<argv, options_done, operands>>

(* option_value: the text behind "=", which must not be empty, or the next *)
(* argument, whatever it looks like.                                       *)
HasValue(at) ==
  IF Word[argv[at]].attached = None THEN at < Len(argv)
  ELSE Word[Word[argv[at]].attached].length > 0

ValueAt(at) ==
  IF Word[argv[at]].attached = None THEN argv[at + 1] ELSE Word[argv[at]].attached

(* parse_u32 and the tests after it.                                       *)
Accepts(option, text) ==
  CASE option = "--screen"      -> TRUE
    [] option = "--medium-name" -> Word[text].length \in 1 .. 10
    [] option = "--screen-mode" -> Word[text].number \in {4, 8}
    [] option = "--rate"        -> Word[text].number \in {50, 60}
    [] option = "--sectors"     -> Word[text].number \in 200 .. 255
    [] option = "--random-id"   -> Word[text].number \in 0 .. 65535

Setting(option, text) == IF option \in Numeric THEN Word[text].number ELSE text

SetOption ==
  /\ AtOption /\ IsWith(argv[i], Valued)
  /\ HasValue(i) /\ Accepts(Word[argv[i]].name, ValueAt(i))
  /\ given' = [given EXCEPT ![Word[argv[i]].name] = Setting(Word[argv[i]].name, ValueAt(i))]
  /\ Continue(LengthTaken(argv[i]))
  /\ UNCHANGED <<argv, options_done, operands>>

(* The loop is left with an error; what a value was set to is not used.    *)
RefuseOption ==
  /\ AtOption
  /\ IF IsWith(argv[i], Valued)
     THEN HasValue(i) => ~Accepts(Word[argv[i]].name, ValueAt(i))
     ELSE Word[argv[i]].dash /\ argv[i] \notin Flags \cup Asking \cup {"--"}
  /\ error' = TRUE
  /\ UNCHANGED <<argv, i, given, options_done, operands, verdict>>

IsOperand == Looping /\ (options_done \/ ~Word[argv[i]].dash)

TakeOperand ==
  /\ IsOperand /\ Len(operands) < 2
  /\ operands' = Append(operands, argv[i])
  /\ Continue(1)
  /\ UNCHANGED <<argv, given, options_done>>

RefuseOperand ==
  /\ IsOperand /\ Len(operands) = 2
  /\ error' = TRUE
  /\ UNCHANGED <<argv, i, given, options_done, operands, verdict>>

(* After the loop: the two tests, and either an error and exit code 2 or   *)
(* the rest of cli_main.                                                   *)
Incomplete ==
  \/ given["--screen-mode"] # NoNumber /\ given["--screen"] = None
  \/ Len(operands) # 2

Judge ==
  /\ verdict = "parsing" /\ (error \/ i > Len(argv))
  /\ error' = (error \/ Incomplete)
  /\ verdict' = IF error' THEN "usage" ELSE "proceed"
  /\ UNCHANGED <<argv, i, given, options_done, operands>>

CliNext ==
  \/ EndOfOptions \/ Answer \/ SetFlag \/ SetOption \/ RefuseOption
  \/ TakeOperand \/ RefuseOperand \/ Judge

CliSpec == CliInit /\ [][CliNext]_cliVars
-----------------------------------------------------------------------------
(* What an argv means.  Argument k is a value if the one before is an      *)
(* option that wants one: neither a value itself nor behind a "--" that is *)
(* not a value.                                                            *)
IsValue ==
  LET value[k \in DOMAIN argv] ==
        /\ k > 1 /\ ~value[k - 1]
        /\ argv[k - 1] \in Valued
        /\ \A j \in 1 .. k - 1 : argv[j] = "--" => value[j]
  IN  value

Mark == Min({k \in DOMAIN argv : argv[k] = "--" /\ ~IsValue[k]} \cup {Len(argv) + 1})

OptionAt == {k \in 1 .. Mark - 1 : ~IsValue[k] /\ Word[argv[k]].dash}

OperandAt ==
  {k \in 1 .. Mark - 1 : ~IsValue[k] /\ ~Word[argv[k]].dash} \cup Mark + 1 .. Len(argv)

OptionsFor(option) == {k \in OptionAt : Word[argv[k]].name = option}

Asked == {k \in OptionAt : argv[k] \in Asking}

Unknown == {k \in OptionAt : argv[k] \notin Flags \cup Asking /\ ~IsWith(argv[k], Valued)}

BadValue ==
  UNION {{k \in OptionsFor(option) : ~(HasValue(k) /\ Accepts(option, ValueAt(k)))} :
           option \in Valued}

Surplus == {k \in OperandAt : Cardinality(OperandAt \cap 1 .. k - 1) >= 2}

Stops == Asked \cup Unknown \cup BadValue \cup Surplus

(* The first argument that asks or is wrong decides; else both operands    *)
(* must be there, and a screen mode only with a screen.                    *)
Meaning ==
  IF Stops # {}
  THEN IF Min(Stops) \in Asked THEN argv[Min(Stops)] ELSE "usage"
  ELSE IF \/ Cardinality(OperandAt) # 2
          \/ OptionsFor("--screen-mode") # {} /\ OptionsFor("--screen") = {}
       THEN "usage" ELSE "proceed"

(* The last occurrence of an option counts.                                *)
MeantBy(option) ==
  LET at == OptionsFor(option)
  IN  IF at = {} THEN Defaults[option]
      ELSE IF option \in Flags THEN TRUE
      ELSE Setting(option, ValueAt(Max(at)))

(* However options, values, operands and "--" are mixed, the loop comes to *)
(* the verdict the command line means; and a run that goes on has exactly  *)
(* the operands and settings it names, the later of two for one option.    *)
LineIsUnderstood ==
  /\ verdict # "parsing" => verdict = Meaning
  /\ verdict = "proceed" =>
       /\ \A option \in Flags \cup Valued : given[option] = MeantBy(option)
       /\ operands = <<argv[Min(OperandAt)], argv[Max(OperandAt)]>>
=============================================================================
