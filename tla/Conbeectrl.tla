----------------------------- MODULE Conbeectrl -----------------------------
(***************************************************************************)
(* The program conbeectrl: main registers a device option and fifteen      *)
(* commands and parses the command line; a getter connects, asks and       *)
(* prints, a setter first parses the rest of the line for its one option.  *)
(* The library is its environment here: a call gives what module           *)
(* ConbeeFunctions says it may give.                                       *)
(***************************************************************************)
EXTENDS ArgParse

CONSTANTS
    CommandLines,              \* the words after the program's name
    Decimal, Hexadecimal,      \* number of a word, and of what follows its first two
                               \* characters, for strtol; 0 for any other word
    ByteMod, IntMod, LongMod   \* 2^8, 2^32 and 2^64

DefaultDevice == "/dev/ttyACM0"

ASSUME ConbeectrlAssumption ==
    /\ {"conbeectrl", DefaultDevice} \subseteq Texts
    /\ CommandLines \subseteq Seq(Words)
    /\ \A w \in DOMAIN Decimal : Decimal[w] \in Int
    /\ \A w \in DOMAIN Hexadecimal : Hexadecimal[w] \in Int
    /\ {ByteMod, IntMod, LongMod} \subseteq Nat \ {0}
    /\ IntMod % ByteMod = 0 /\ LongMod % IntMod = 0 /\ LongMod % 2 = 0

(* The setters: the option, an int or a string of at most maxchars with a  *)
(* hexadecimal number behind "0x", and the type the library takes it in.   *)
set_network_mode  == [option |-> ArgInt("m", "mode", "value"), mod |-> ByteMod]
set_security_mode == [option |-> ArgInt("m", "mode", "value"), mod |-> ByteMod]
set_channel_mask  == [option |-> ArgStr("m", "mask", "value", 10), mod |-> IntMod]
set_aps_ext_panid == [option |-> ArgStr("p", "panid", "value", 18), mod |-> LongMod]
set_trust_center  == [option |-> ArgStr("a", "addr", "value", 18), mod |-> LongMod]

Setters ==
    [command \in {"set-network-mode", "set-sec-mode", "set-channel-mask", "set-tc-addr",
                  "set-aps-ext-panid"} |->
        CASE command = "set-network-mode"  -> set_network_mode
          [] command = "set-sec-mode"      -> set_security_mode
          [] command = "set-channel-mask"  -> set_channel_mask
          [] command = "set-tc-addr"       -> set_trust_center
          [] command = "set-aps-ext-panid" -> set_aps_ext_panid]

Getters == {"version", "mac", "panid", "nwk-addr", "nwk-ext-panid", "network-mode",
            "channel-mask", "aps-ext-panid", "tc-addr", "sec-mode"}

DeviceName == ArgStr("d", "device", "device", 199)

(* main's table, in its order.                                             *)
CommandNames ==
    <<"version", "mac", "panid", "nwk-addr", "nwk-ext-panid", "network-mode",
      "set-network-mode", "channel-mask", "set-channel-mask", "aps-ext-panid",
      "set-aps-ext-panid", "tc-addr", "set-tc-addr", "sec-mode", "set-sec-mode">>
MainTable ==
    Table(<<DeviceName>> \o [k \in DOMAIN CommandNames |-> ArgParseCmd(CommandNames[k])])

VARIABLES
    stage,   \* "main" parses, "setter" parses, "connect", "call", "close", "exit"
    line,    \* the command line
    command, \* the command that runs
    opened,  \* the device conbee_connect was given, "" before
    sent,    \* the number a setter gave the library, -1 before
    err      \* what the library call returned, -2 before

vars == <<parseVars, stage, line, command, opened, sent, err>>

Init ==
    /\ line \in CommandLines
    /\ ctx = MainTable /\ argc = 1 + Len(line) /\ argv = <<Plain("conbeectrl")>> \o line
    /\ i = 1 /\ r = 0 /\ found = FALSE
    /\ parse = "loop" /\ callback = "" /\ result = 0
    /\ memory = [device |-> Copy(Plain(DefaultDevice), TRUE), value |-> Uninitialised]
    /\ stage = "main" /\ command = "" /\ opened = "" /\ sent = -1 /\ err = -2
-----------------------------------------------------------------------------
Parse == /\ ParseStep
         /\ UNCHANGED <<stage, line, command, opened, sent, err>>

(* A getter looks at none of its arguments.                                *)
RunGetter ==
    /\ stage = "main" /\ parse = "callback" /\ callback \in Getters
    /\ command' = callback
    /\ stage' = "connect"
    /\ UNCHANGED <<parseVars, line, opened, sent, err>>

(* A setter makes a table of its own, on the stack memory for the value.   *)
RunSetter ==
    /\ stage = "main" /\ parse = "callback" /\ callback \in DOMAIN Setters
    /\ command' = callback
    /\ stage' = "setter"
    /\ ParseStart(Table(<<Setters[callback].option>>), argc, argv)
    /\ memory' = [memory EXCEPT !.value = Uninitialised]
    /\ UNCHANGED <<line, opened, sent, err>>

(* It goes on whatever argparse_parse returned, -1 or the 0 of -h.         *)
SetterParsed ==
    /\ stage = "setter" /\ parse = "returned"
    /\ stage' = "connect"
    /\ UNCHANGED <<parseVars, line, command, opened, sent, err>>

Connect ==
    /\ stage = "connect"
    /\ opened' = memory.device.word.name
    /\ stage' \in {"call", "exit"}
    /\ UNCHANGED <<parseVars, line, command, sent, err>>

(* strtol, which stops at the least and the greatest long, and the         *)
(* assignment to an int or an unsigned type.  A string is read from its    *)
(* third character on, whatever the first two are.  Memory nobody wrote or *)
(* ended gives any number.                                                 *)
LONG_MAX == LongMod \div 2 - 1
LONG_MIN == 0 - LongMod \div 2
Longs    == LONG_MIN..LONG_MAX
NumberIn(numbers, w) == IF w \in DOMAIN numbers THEN numbers[w] ELSE 0
strtol(numbers, w) ==
    LET n == NumberIn(numbers, w)
    IN IF n \in Longs THEN n ELSE IF n < 0 THEN LONG_MIN ELSE LONG_MAX
DecimalOnly(option) ==    \* faulty variant: every string read as a decimal number
    IF memory.value.known THEN {strtol(Decimal, memory.value.word)} ELSE Longs
ValuesOf(option) ==
    IF ~memory.value.known THEN Longs
    ELSE IF option.type = "int" THEN {strtol(Decimal, memory.value.word) % IntMod}
    ELSE IF memory.value.terminated THEN {strtol(Hexadecimal, memory.value.word)}
    ELSE Longs

(* The library: 0, the stick's refusal, or, for a getter, the parser's -1  *)
(* as 255.  Only a negative result is reported as an error.                *)
CallGetter ==
    /\ stage = "call" /\ command \in Getters
    /\ err' \in {0, -1, 255}
    /\ stage' = "close"
    /\ UNCHANGED <<parseVars, line, command, opened, sent>>

CallSetter ==
    /\ stage = "call" /\ command \in DOMAIN Setters
    /\ \E value \in ValuesOf(Setters[command].option) :
          sent' = value % Setters[command].mod
    /\ err' \in {0, -1}
    /\ stage' = "close"
    /\ UNCHANGED <<parseVars, line, command, opened>>

(* conbee_close and the end of main, which ignores what came back.         *)
Close == /\ stage = "close"
         /\ stage' = "exit"
         /\ UNCHANGED <<parseVars, line, command, opened, sent, err>>
NoCommand == /\ stage = "main" /\ parse = "returned"
             /\ stage' = "exit"
             /\ UNCHANGED <<parseVars, line, command, opened, sent, err>>

Next == \/ Parse
        \/ RunGetter \/ RunSetter \/ SetterParsed
        \/ Connect \/ CallGetter \/ CallSetter \/ Close \/ NoCommand

Spec == Init /\ [][Next]_vars

(* The parser is a loop of one thread, which nothing holds up.             *)
FairSpec == Spec /\ WF_vars(Parse)
-----------------------------------------------------------------------------
(* Everything keeps its type, the table fits the memory it has, and a      *)
(* setter sends a number of the width its parameter has.                   *)
TypeOK ==
    /\ stage \in {"main", "setter", "connect", "call", "close", "exit"}
    /\ parse \in {"loop", "callback", "returned", "crashed"}
    /\ Len(ctx.arguments) <= ctx.size
    /\ i \in 1..(argc + 1) /\ r \in 0..Len(ctx.arguments) /\ found \in BOOLEAN
    /\ result \in {0, -1} /\ err \in {-2, -1, 0, 255}
    /\ command \in Getters \cup DOMAIN Setters \cup {""}
    /\ sent # -1 => sent \in 0..(Setters[command].mod - 1)

(* Which word is the first that names a command.                           *)
IsCommand(w) == w.form = "plain" /\ w.name \in Getters \cup DOMAIN Setters
First == SelectInSeq(line, IsCommand)

(* On a line that puts its devices in front of the command, where no -d    *)
(* stands behind it and none takes its name for a value, the command that  *)
(* runs is the first word that names one, and the device that is opened is *)
(* the value of the last -d, the default one without: no other word, no    *)
(* earlier -d and nothing the setter's own parse does has a say in either. *)
DevicesInFront == \A k \in DOMAIN line : line[k] = Short("d") => k + 1 < First
FirstCommandRuns ==
    (opened # "" /\ DevicesInFront) =>
        /\ First > 0 /\ command = line[First].name
        /\ opened = IF First = 1 THEN DefaultDevice ELSE line[First - 1].name

(* The use argparse_usage prints: the command, then its option one or more *)
(* times as -x value or, for an integer, --name=value.  The option is used *)
(* at the places in options; a word behind -x is a value, whatever it says.*)
Option == Setters[line[1].name].option
Uses(options) ==
    /\ First = 1 /\ line[1].name \in DOMAIN Setters
    /\ Len(line) > 1 /\ 1 \notin options
    /\ \A k \in 1..(Len(line) - 1) :
          k + 1 \in options <=> (k \in options => line[k].form = "long")
    /\ \A k \in options :
          \/ line[k] = Short(Option.short) /\ k # Len(line)
          \/ /\ Option.type = "int" /\ line[k].form = "long"
             /\ line[k].name = Option.name /\ line[k].value \notin NoValue
Given(options) == IF Len(line) \in options THEN Plain(Last(line).value) ELSE Last(line)
Number(given) == NumberIn(IF Option.type = "int" THEN Decimal ELSE Hexadecimal, given)

(* A setter that is used as documented sends the stick the value of the    *)
(* last option on its line, when the string has room for its terminator    *)
(* and the number fits the parameter and a long.                           *)
IsSent(given) ==
    \/ sent = Number(given)
    \/ Option.type = "str" /\ Length(given) >= Option.maxchars
    \/ Number(given) \notin 0..(Setters[command].mod - 1) \/ Number(given) \notin Longs
GivenIsSent ==
    sent # -1 => \A options \in SUBSET DOMAIN line : Uses(options) => IsSent(Given(options))

(* The program crashes only where a setter does not come first, so that    *)
(* argc is too large, or where an integer option has no value.             *)
CrashesExplained ==
    parse = "crashed" =>
        /\ command \in DOMAIN Setters
        /\ \/ First > 1
           \/ /\ Option.type = "int"
              /\ \/ Last(line) = Short(Option.short)
                 \/ \E k \in DOMAIN line : /\ line[k].form = "long" /\ line[k].name = Option.name
                                           /\ line[k].value \in NoValue

(* The loops of argparse_parse end for every command line, also where an   *)
(* option moves the index of the words from inside the loop over the table.*)
ParseEnds == (parse = "loop") ~> (parse # "loop")
-----------------------------------------------------------------------------
(* What the documentation says and the code does not do.                   *)

(* set-channel-mask.c:25, set-aps-ext-panid.c:25 and set-trust-center.c:25 *)
(* give an example of the value: the setter sends it as it is.             *)
Examples == "set-channel-mask" :> "0x20000000" @@ "set-tc-addr" :> "0x2000000000000000"
         @@ "set-aps-ext-panid" :> "0xFFFFFFFFFFFFFFFF"
ExampleIsSent ==
    (sent # -1 /\ command \in DOMAIN Examples) =>
        LET given == Plain(Examples[command])
        IN \A options \in SUBSET DOMAIN line :
              Uses(options) /\ Given(options) = given => sent = Number(given)

(* argparse.h:95 "is the argument mandatory": without its mandatory option *)
(* a setter sends nothing.                                                 *)
MandatoryIsGiven == sent # -1 => memory.value.known

(* main.c:52 "device name of the conbee stick", an option every command    *)
(* can be used with: a well-formed setter behind -d does not crash.        *)
DeviceCanBeNamed ==
    (Len(line) = 5 /\ line[1] = Short("d") /\ First = 3 /\ command \in DOMAIN Setters
     /\ line[4] = Short(Setters[command].option.short)) => parse # "crashed"

(* argparse.c:250 prints the usage "<command> [<args>]" and lists -d among *)
(* the arguments: a getter opens the device that is named behind it.       *)
DeviceBehindCommand ==
    (opened # "" /\ Len(line) = 3 /\ First = 1 /\ line[1].name \in Getters
     /\ line[2] = Short("d") /\ line[3].form = "plain") => opened = line[3].name

(* main.c:52 "device name of the conbee stick": what follows -d is a name, *)
(* not a command, whatever it says.                                        *)
DeviceIsNoCommand ==
    (Len(line) = 2 /\ line[1] = Short("d")) => command = ""

(* argparse.h:39 "string argument support ( -t YAAP or -- title=YAAP)": a  *)
(* string option in its long form is no unknown argument.                  *)
LongFormAccepted ==
    (stage = "setter" /\ parse = "returned" /\ Len(line) = 2 /\ First = 1
     /\ line[2].form = "long" /\ line[2].name = Option.name
     /\ line[2].value \notin NoValue) => result = 0
=============================================================================
