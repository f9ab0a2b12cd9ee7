---------------------------- MODULE MCConbeectrl ----------------------------
(***************************************************************************)
(* Command lines for TLC: every line of up to three of these words, and    *)
(* the longer ones that put a device option in front of a setter or give a *)
(* setter its option twice.  The numbers are scaled: a byte has 2 bits, an *)
(* int 3 and a long 6; a word that is no number for strtol has none.       *)
(***************************************************************************)
EXTENDS Conbeectrl

Options  == {Short("d"), Short("m"), Short("p"), Short("h"), Short("1"), Long("help", ""),
             Long("help", "="), Long("mode", "1"), Long("mode", ""), Long("mode", "="),
             Long("mask", "0x10"), Long("device", "/dev/x")}
Spoken   == {Plain("/dev/x"), Plain("1"), Plain("256"), Plain("0x10"), Plain("0x20000000"),
             Plain("0xFFFFFFFFFFFFFFFF")}
MCCommands == {Plain("version"), Plain("set-network-mode"), Plain("set-channel-mask"),
             Plain("set-aps-ext-panid")}
MCWords  == Options \cup Spoken \cup MCCommands

UpToThree == UNION {[1..n -> MCWords] : n \in 0..3}
DeviceFirst == {<<Short("d"), Plain("/dev/x")>> \o rest : rest \in [1..3 -> MCWords]}
OptionTwice == {<<c, o, v, o, w>> : c \in MCCommands \ {Plain("version")},
                                    o \in {Short("m"), Short("p")}, v \in Spoken, w \in Spoken}
BothForms   == {<<Plain("set-network-mode")>> \o uses : uses \in
                   UNION {{<<Long("mode", "1"), Short("m"), w>>, <<Short("m"), w, Long("mode", "1")>>}
                          : w \in MCWords}}
MCTexts        == {"", "conbeectrl", DefaultDevice} \cup
                  {w.name : w \in MCWords} \cup {w.value : w \in MCWords}
MCCommandLines == UpToThree \cup DeviceFirst \cup OptionTwice \cup BothForms

MCDecimal     == Plain("1") :> 1 @@ Plain("256") :> 4 @@ Short("1") :> -1
MCHexadecimal == Plain("0x10") :> 2 @@ Plain("0x20000000") :> 1
              @@ Plain("0x2000000000000000") :> 8 @@ Plain("0xFFFFFFFFFFFFFFFF") :> 63
              @@ Plain("256") :> 1 @@ Plain("/dev/x") :> 1 @@ Long("device", "/dev/x") :> 5
MCLength(w) == CASE w = Plain("0x20000000") -> 10
                 [] w = Long("mask", "0x10") -> 11
                 [] w = Long("device", "/dev/x") -> 15
                 [] w \in MCCommands \ {Plain("version")} -> 16
                 [] w \in {Plain("0x2000000000000000"), Plain("0xFFFFFFFFFFFFFFFF")} -> 18
                 [] OTHER -> 4
=============================================================================
