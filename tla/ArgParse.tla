------------------------------ MODULE ArgParse ------------------------------
(***************************************************************************)
(* The bundled command line parser, argparse.c: the table of arguments a   *)
(* program registers and argparse_parse, which compares every word of the  *)
(* command line with every entry of the table.  A callback takes over      *)
(* where argparse_parse calls it: the call is the last thing it does.      *)
(***************************************************************************)
EXTENDS Integers, SequencesExt

CONSTANTS
    ARGPARSE_INITIAL_COMMAND_NR, \* the table grows by that many entries
    Texts,                       \* what the words of a command line say
    Length(_)                    \* characters of a word

ASSUME ArgParseAssumption ==
    /\ ARGPARSE_INITIAL_COMMAND_NR \in Nat \ {0}
    /\ "" \in Texts
(* Words of a command line: -s, --name=value and anything else.  A long    *)
(* word has the value "=" when nothing stands behind its =, and "" when it *)
(* has no =; NULL ends argv.                                               *)
Short(name)       == [form |-> "short", name |-> name, value |-> ""]
Long(name, value) == [form |-> "long", name |-> name, value |-> value]
Plain(text)       == [form |-> "plain", name |-> text, value |-> ""]
NULL              == [form |-> "null", name |-> "", value |-> ""]
NoValue           == {"", "="}
Words == {w \in [form : {"short", "long", "plain"}, name : Texts, value : Texts] :
            w.form # "long" => w.value = ""}
ASSUME LengthAssumption == \A w \in Words : Length(w) \in Nat

(* What an option's value points to: memory nobody has written, or the     *)
(* word it was set from, which strncpy leaves without its terminator when  *)
(* maxchars is too small.                                                  *)
Uninitialised  == [known |-> FALSE, word |-> NULL, terminated |-> FALSE]
Copy(w, whole) == [known |-> TRUE, word |-> w, terminated |-> whole]
-----------------------------------------------------------------------------
(* The table: ctx->arguments, with the size it was allocated with.  An     *)
(* entry is a command with its callback, an option with the memory of its  *)
(* value, or the flag with its callback.                                   *)
Entry(type, mandatory, short, name, maxchars, target) ==
    [type |-> type, mandatory |-> mandatory, set |-> FALSE, short |-> short,
     name |-> name, maxchars |-> maxchars, target |-> target]

ArgParseCmd(name)               == Entry("cmd", TRUE, "", name, 0, "")
ArgStr(short, name, target, maxchars) == Entry("str", TRUE, short, name, maxchars, target)
ArgInt(short, name, target)     == Entry("int", TRUE, short, name, 0, target)
HelpFlag                        == Entry("flag", FALSE, "h", "help", 0, "")

(* argparse_add_command, _string, _flag and _int.                          *)
GrowsOnce(t, e) ==    \* faulty variant: the entries there are forgotten
    [size |-> IF Len(t.arguments) % ARGPARSE_INITIAL_COMMAND_NR = 0
              THEN ARGPARSE_INITIAL_COMMAND_NR ELSE t.size,
     arguments |-> Append(t.arguments, e)]
Add(t, e) ==
    [size |-> IF Len(t.arguments) % ARGPARSE_INITIAL_COMMAND_NR = 0
              THEN Len(t.arguments) + ARGPARSE_INITIAL_COMMAND_NR ELSE t.size,
     arguments |-> Append(t.arguments, e)]

(* argparse_init, and the calls a program makes after it.                  *)
argparse_init == Add([size |-> ARGPARSE_INITIAL_COMMAND_NR, arguments |-> <<>>], HelpFlag)
Table(entries) ==
    LET table[k \in 0..Len(entries)] ==
            IF k = 0 THEN argparse_init ELSE Add(table[k - 1], entries[k])
    IN table[Len(entries)]
-----------------------------------------------------------------------------
VARIABLES
    ctx,    \* the table of the argparse_parse that runs
    argc, argv,
    i, r,   \* its loop variables: the word and the entry
    found,
    memory, \* the values of the options
    parse   \* "loop"; "callback" of command callback; "returned" with result; "crashed"
VARIABLES callback, result

parseVars == <<ctx, argc, argv, i, r, found, memory, parse, callback, result>>

(* argv[k]: the sequence argv is without the NULL that follows it.         *)
Arg(k) == IF k \in 0..(Len(argv) - 1) THEN argv[k + 1] ELSE NULL
Word   == Arg(i)
Here   == ctx.arguments[r + 1]

ParseStart(table, count, words) ==
    /\ ctx' = table /\ argc' = count /\ argv' = words
    /\ i' = 1 /\ r' = 0 /\ found' = FALSE
    /\ parse' = "loop" /\ callback' = "" /\ result' = 0

(* How a step of the loop ends: argparse_parse returns, the program dies   *)
(* of a NULL pointer, or the rest of the table is compared with argv[i],   *)
(* also when i has moved on to the value of the option just found.         *)
Return(value) == /\ parse' = "returned" /\ result' = value
                 /\ UNCHANGED <<argc, i, r, callback>>
Crash         == /\ parse' = "crashed"
                 /\ UNCHANGED <<argc, i, r, callback, result>>
GoOn(words)   == /\ i' = i + words /\ r' = r + 1
                 /\ UNCHANGED <<argc, parse, callback, result>>

MarkSet == /\ found' = TRUE
           /\ ctx' = [ctx EXCEPT !.arguments = ReplaceAt(@, r + 1, [Here EXCEPT !.set = TRUE])]

Comparing(type) == /\ parse = "loop" /\ i < argc /\ r < Len(ctx.arguments)
                   /\ Here.type = type

(* argv[i][0] of the NULL at the end of argv.                              *)
NullWord == /\ Comparing(Here.type) /\ Word = NULL
            /\ Crash
            /\ UNCHANGED <<ctx, argv, found, memory>>

(* A command: its callback gets the words from its own on, and argc - 1    *)
(* wherever it stands.                                                     *)
Names(word) == word.form = "plain" /\ word.name = Here.name
FullCount(n) == n     \* faulty variant: the program's name still counted
RestCount(n) == n - 1
FoundCommand ==
    /\ Comparing("cmd") /\ Names(Word)
    /\ found' = TRUE
    /\ parse' = "callback" /\ callback' = Here.name
    /\ argc' = RestCount(argc)
    /\ argv' = SubSeq(argv, i + 1, Len(argv))
    /\ UNCHANGED <<ctx, i, r, memory, result>>

(* A string: -s and the next word.  "--" is looked at and passed by.       *)
ShortOf(word) == word.form = "short" /\ word.name = Here.short
FirstValueStays ==    \* faulty variant: an option given again is not set again
    /\ Comparing("str") /\ ShortOf(Word) /\ i + 1 < argc /\ Arg(i + 1) # NULL
    /\ memory' = [memory EXCEPT ![Here.target] = IF Here.set THEN @ ELSE
                     Copy(Arg(i + 1), Length(Arg(i + 1)) < Here.maxchars)]
    /\ MarkSet /\ GoOn(1)
    /\ UNCHANGED argv
FoundString ==
    /\ Comparing("str") /\ ShortOf(Word)
    /\ \/ /\ i + 1 < argc /\ Arg(i + 1) # NULL
          /\ memory' = [memory EXCEPT ![Here.target] =
                           Copy(Arg(i + 1), Length(Arg(i + 1)) < Here.maxchars)]
          /\ MarkSet
          /\ GoOn(1)
       \/ /\ i + 1 < argc /\ Arg(i + 1) = NULL
          /\ found' = TRUE /\ Crash
          /\ UNCHANGED <<ctx, memory>>
       \/ /\ i + 1 >= argc
          /\ found' = TRUE /\ Return(-1)
          /\ UNCHANGED <<ctx, memory>>
    /\ UNCHANGED argv

(* The flag -h or --help: usage is printed and the callback's 0 returned.  *)
LongOf(word) == word.form = "long" /\ word.name = Here.name
FoundFlag ==
    /\ Comparing("flag")
    /\ ShortOf(Word) \/ (LongOf(Word) /\ Word.value = "")
    /\ MarkSet
    /\ Return(0)
    /\ UNCHANGED <<argv, memory>>

(* An integer: -s and the next word, whether there is one or not...        *)
FoundShortInt ==
    /\ Comparing("int") /\ ShortOf(Word)
    /\ MarkSet
    /\ IF Arg(i + 1) = NULL
       THEN Crash /\ UNCHANGED memory
       ELSE /\ memory' = [memory EXCEPT ![Here.target] = Copy(Arg(i + 1), TRUE)]
            /\ GoOn(1)
    /\ UNCHANGED argv

(* ...or --name=value, which strtok cuts in two, so that a later integer   *)
(* of the table finds no value in it.                                      *)
Cut == argv' = ReplaceAt(argv, i + 1, Long(Word.name, ""))
FoundLongInt ==
    /\ Comparing("int") /\ LongOf(Word)
    /\ MarkSet
    /\ IF Word.value \in NoValue
       THEN Crash /\ UNCHANGED memory
       ELSE /\ memory' = [memory EXCEPT ![Here.target] = Copy(Plain(Word.value), TRUE)]
            /\ GoOn(0)
    /\ Cut

(* The entry does not fit the word.                                        *)
Fits(word) == CASE Here.type = "cmd"  -> Names(word)
                [] Here.type = "str"  -> ShortOf(word)
                [] Here.type = "flag" -> ShortOf(word) \/ (LongOf(word) /\ word.value = "")
                [] Here.type = "int"  -> ShortOf(word) \/ LongOf(word)
PassNothing ==    \* faulty variant: the loop over the table does not move on
    /\ Comparing(Here.type) /\ Word # NULL /\ ~Fits(Word)
    /\ UNCHANGED parseVars
PassEntry ==
    /\ Comparing(Here.type) /\ Word # NULL /\ ~Fits(Word)
    /\ GoOn(0)
    /\ IF Here.type = "int" /\ Word.form = "long" THEN Cut ELSE UNCHANGED argv
    /\ UNCHANGED <<ctx, found, memory>>

(* The table is done: an unknown word ends the parse.                      *)
TableDone == parse = "loop" /\ i < argc /\ r = Len(ctx.arguments)
NextWord ==
    /\ TableDone /\ found
    /\ i' = i + 1 /\ r' = 0 /\ found' = FALSE
    /\ UNCHANGED <<ctx, argc, argv, memory, parse, callback, result>>
UnknownWord ==
    /\ TableDone /\ ~found
    /\ Return(-1)
    /\ UNCHANGED <<ctx, argv, found, memory>>

(* The words are done: is a mandatory argument missing?  A command counts  *)
(* as one and is never set, so a table with commands wants one on the line.*)
WordsDone ==
    /\ parse = "loop" /\ i >= argc
    /\ Return(IF \E k \in DOMAIN ctx.arguments :
                    ctx.arguments[k].mandatory /\ ~ctx.arguments[k].set THEN -1 ELSE 0)
    /\ UNCHANGED <<ctx, argv, found, memory>>

ParseStep == \/ NullWord \/ FoundCommand \/ FoundString \/ FoundFlag
             \/ FoundShortInt \/ FoundLongInt \/ PassEntry
             \/ NextWord \/ UnknownWord \/ WordsDone
=============================================================================
