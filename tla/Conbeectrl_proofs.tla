------------------------- MODULE Conbeectrl_proofs -------------------------
(***************************************************************************)
(* Proofs about ArgParse and Conbeectrl, for command lines of any length,  *)
(* all number widths and any growth of the table.                          *)
(***************************************************************************)
EXTENDS Conbeectrl, SequenceTheorems, WellFoundedInduction, TLAPS

(* Induction over 0..n for a set in place of a predicate: the provers      *)
(* instantiate the well-foundedness of Nat, which ranges over sets, but    *)
(* no theorem that ranges over operators.                                  *)
LEMMA Smallest == \A T \in SUBSET Nat : T # {} => \E m \in T : \A k \in T : m <= k
  <1> DEFINE Less == OpToRel(<, Nat)
  <1>1. IsWellFoundedOn(Less, Nat)
    BY NatLessThanWellFounded
  <1>2. \A x, y \in Nat : x < y => <<x, y>> \in Less
    BY DEF OpToRel
  <1> HIDE DEF Less
  <1> SUFFICES ASSUME NEW T \in SUBSET Nat, T # {}
               PROVE  \E m \in T : \A k \in T : m <= k
    OBVIOUS
  <1>3. T \subseteq Nat
    OBVIOUS
  <1>4. PICK m \in T : \A k \in T : ~ (<<k, m>> \in Less)
    BY <1>1, <1>3, WFMin
  <1>5. \A k \in T : m <= k
    <2> SUFFICES ASSUME NEW k \in T PROVE m <= k
      OBVIOUS
    <2>1. k \in Nat /\ m \in Nat
      BY <1>3
    <2>2. ~(k < m)
      BY <1>2, <1>4, <2>1
    <2> QED
      BY <2>1, <2>2
  <1> QED
    BY <1>4, <1>5

LEMMA SetInduction ==
    ASSUME NEW n \in Nat, NEW S, 0 \in S, \A k \in 0..(n - 1) : k \in S => k + 1 \in S
    PROVE  \A k \in 0..n : k \in S
  <1> SUFFICES ASSUME {k \in 0..n : k \notin S} # {} PROVE FALSE
    OBVIOUS
  <1>1. PICK m \in {k \in 0..n : k \notin S} : \A k \in {k \in 0..n : k \notin S} : m <= k
    <2>1. {k \in 0..n : k \notin S} \in SUBSET Nat
      OBVIOUS
    <2> QED
      BY <2>1, Smallest
  <1>2. m # 0 /\ m - 1 \in 0..(n-1) /\ m - 1 + 1 = m /\ m - 1 \in 0..n /\ ~(m <= m - 1)
    OBVIOUS
  <1>3. m - 1 \in S
    BY <1>1, <1>2
  <1> QED
    BY <1>2, <1>3

(* The entries a table may have.                                           *)
Entries == [type : {"cmd", "str", "flag", "int"}, mandatory : BOOLEAN, set : BOOLEAN,
            short : {"", "h", "d", "m", "p", "a"},
            name : {"help", "device", "mode", "mask", "panid", "addr"}
                   \cup Getters \cup DOMAIN Setters,
            maxchars : Nat, target : {"", "device", "value"}]
Tables  == [size : Nat, arguments : Seq(Entries)]

(* main's table, and that of a setter, but for what has been set.          *)
IsMain(c) ==
    /\ Len(c.arguments) = 17
    /\ c.arguments[1].type = "flag"
    /\ c.arguments[2].type = "str" /\ c.arguments[2].target = "device"
    /\ c.arguments[2].short = "d"
    /\ \A k \in 1..15 : /\ c.arguments[k + 2].type = "cmd"
                        /\ c.arguments[k + 2].name = CommandNames[k]
IsSetter(c, option) ==
    /\ Len(c.arguments) = 2
    /\ c.arguments[1].type = "flag"
    /\ c.arguments[1].short = "h" /\ c.arguments[1].name = "help"
    /\ c.arguments[2].type = option.type /\ c.arguments[2].target = "value"
    /\ c.arguments[2].short = option.short /\ c.arguments[2].name = option.name
    /\ c.arguments[2].maxchars = option.maxchars

(* Types, with the word index inside the line.                             *)
Typed ==
    /\ TypeOK
    /\ ctx \in Tables /\ argc \in Nat /\ 1 <= argc /\ i <= argc
    /\ argv \in Seq(Words) /\ line \in Seq(Words)
    /\ DOMAIN memory = {"device", "value"}

(* What the program has done at each stage.                                *)
Stages ==
    /\ stage = "main" => command = "" /\ parse # "crashed" /\ IsMain(ctx)
    /\ stage = "setter" => command \in DOMAIN Setters /\ IsSetter(ctx, Setters[command].option)
    /\ stage \notin {"main", "setter"} => parse \in {"callback", "returned"}
    /\ command = "" => stage \in {"main", "exit"} /\ opened = "" /\ sent = -1
    /\ stage \in {"setter", "connect"} => opened = ""
    /\ stage \in {"setter", "connect", "call"} => sent = -1

(* The device named when main's parser is at word k: while that word is    *)
(* the value of -d it is the word itself.                                  *)
DeviceAt(k) == IF k = 1 THEN Plain(DefaultDevice)
               ELSE IF k % 2 = 1 THEN line[k - 1] ELSE line[k]
Behind(k) == k % 2 = 0 => line[k - 1] = Short("d")

(* The entries of main's table that have been compared with word w.        *)
Passed(w) == \A k \in 1..15 : k + 2 <= r => ~(w.form = "plain" /\ w.name = CommandNames[k])

(* main's loop: no command so far, and the words of even index are values  *)
(* of -d, found by the second entry.                                       *)
Walking ==
    /\ argc = 1 + Len(line) /\ argv = <<Plain("conbeectrl")>> \o line
    /\ memory.device.word = DeviceAt(i) /\ Behind(i)
    /\ found <=> i % 2 = 0
    /\ r <= 1 => ~found
    /\ \A k \in 1..Len(line) : k < i => ~IsCommand(line[k])
    /\ i <= Len(line) => Passed(line[i])
Found ==
    /\ First = i /\ i \in 1..Len(line) /\ callback = line[i].name
    /\ memory.device.word = DeviceAt(i) /\ Behind(i)
    /\ argc = Len(line) /\ argv = SubSeq(line, i, Len(line))
InMain == stage = "main" => (parse = "loop" => Walking) /\ (parse = "callback" => Found)

(* The command that runs, and its device.                                  *)
Runs ==
    command # "" =>
        /\ First \in 1..Len(line) /\ command = line[First].name
        /\ memory.device.word = DeviceAt(First) /\ Behind(First)
        /\ opened \in {"", DeviceAt(First).name}

(* The words at and behind word j are still those of the line.             *)
Own(v, j, q) ==
    /\ Len(v) = Len(line)
    /\ \A k \in 1..Len(line) : (k > j + 1 \/ (k = j + 1 /\ q <= 1)) => v[k] = line[k]

(* A setter that comes first has the line's own words in front of it.      *)
InSetter ==
    (stage = "setter" /\ First = 1) =>
        /\ argc = Len(line)
        /\ parse # "crashed" => Own(argv, i, r)

CtrlInv == Typed /\ Stages /\ InMain /\ Runs /\ InSetter /\ CrashesExplained
-----------------------------------------------------------------------------
(* Words and their forms.                                                  *)
LEMMA WordForms ==
    /\ \A t \in Texts : Short(t) \in Words /\ Plain(t) \in Words
    /\ \A t, v \in Texts : Long(t, v) \in Words
    /\ NULL \notin Words
    /\ \A w \in Words : w.name \in Texts /\ w.value \in Texts
  <1>0. "" \in Texts
    BY ArgParseAssumption
  <1>1. \A t \in Texts : Short(t) \in Words
    BY <1>0 DEF Short, Words
  <1>2. \A t \in Texts : Plain(t) \in Words
    BY <1>0 DEF Plain, Words
  <1>3. \A t, v \in Texts : Long(t, v) \in Words
    BY DEF Long, Words
  <1>4. NULL \notin Words
    BY DEF NULL, Words
  <1>5. \A w \in Words : w.name \in Texts /\ w.value \in Texts
    BY DEF Words
  <1> QED
    BY <1>1, <1>2, <1>3, <1>4, <1>5

LEMMA NullForm == NULL.form \notin {"short", "long", "plain"}
  <1>1. NULL.form = "null"
    BY DEF NULL
  <1> QED
    BY <1>1

(* The setters, one by one.                                                *)
LEMMA SetterNames ==
    /\ DOMAIN Setters = {"set-network-mode", "set-sec-mode", "set-channel-mask", "set-tc-addr",
                         "set-aps-ext-panid"}
    /\ Setters["set-network-mode"] = set_network_mode
    /\ Setters["set-sec-mode"] = set_security_mode
    /\ Setters["set-channel-mask"] = set_channel_mask
    /\ Setters["set-tc-addr"] = set_trust_center
    /\ Setters["set-aps-ext-panid"] = set_aps_ext_panid
  BY DEF Setters

(* Types of the table's entries.                                           *)
LEMMA EntryTypes ==
    /\ HelpFlag \in Entries /\ DeviceName \in Entries
    /\ \A name \in Getters \cup DOMAIN Setters : ArgParseCmd(name) \in Entries
  <1>1. HelpFlag \in Entries
    BY DEF HelpFlag, Entry, Entries
  <1>2. DeviceName \in Entries
    BY DEF DeviceName, ArgStr, Entry, Entries
  <1>3. \A name \in Getters \cup DOMAIN Setters : ArgParseCmd(name) \in Entries
    BY DEF ArgParseCmd, Entry, Entries
  <1> QED
    BY <1>1, <1>2, <1>3

(* A setter has an option of its own memory, and a width.                  *)
IsOption(e) == e \in Entries /\ e.type \in {"str", "int"} /\ e.target = "value"

LEMMA SetterFacts ==
    \A c \in DOMAIN Setters : IsOption(Setters[c].option) /\ Setters[c].mod \in Nat \ {0}
  <1>1. ByteMod \in Nat \ {0} /\ IntMod \in Nat \ {0} /\ LongMod \in Nat \ {0}
    BY ConbeectrlAssumption
  <1>2. IsOption(set_network_mode.option) /\ set_network_mode.mod = ByteMod
    BY DEF set_network_mode, ArgInt, Entry, Entries, IsOption
  <1>3. IsOption(set_security_mode.option) /\ set_security_mode.mod = ByteMod
    BY DEF set_security_mode, ArgInt, Entry, Entries, IsOption
  <1>4. IsOption(set_channel_mask.option) /\ set_channel_mask.mod = IntMod
    BY DEF set_channel_mask, ArgStr, Entry, Entries, IsOption
  <1>5. IsOption(set_trust_center.option) /\ set_trust_center.mod = LongMod
    BY DEF set_trust_center, ArgStr, Entry, Entries, IsOption
  <1>6. IsOption(set_aps_ext_panid.option) /\ set_aps_ext_panid.mod = LongMod
    BY DEF set_aps_ext_panid, ArgStr, Entry, Entries, IsOption
  <1> QED
    BY <1>1, <1>2, <1>3, <1>4, <1>5, <1>6, SetterNames

(* main's commands are the getters and the setters.                        *)
LEMMA Commands ==
    /\ \A k \in 1..15 : CommandNames[k] \in Getters \cup DOMAIN Setters
    /\ \A name \in Getters \cup DOMAIN Setters : \E k \in 1..15 : name = CommandNames[k]
    /\ "" \notin Getters \cup DOMAIN Setters
    /\ DOMAIN CommandNames = 1..15
  <1>1. \A k \in 1..15 : CommandNames[k] \in Getters \cup DOMAIN Setters
    BY SetterNames DEF CommandNames, Getters
  <1>2. \A name \in Getters \cup DOMAIN Setters : \E k \in 1..15 : name = CommandNames[k]
    BY SetterNames DEF CommandNames, Getters
  <1>3. "" \notin Getters \cup DOMAIN Setters
    BY SetterNames DEF Getters
  <1>4. DOMAIN CommandNames = 1..15
    BY DEF CommandNames
  <1> QED
    BY <1>1, <1>2, <1>3, <1>4
-----------------------------------------------------------------------------
(* The table a program has built: its flag first, the arguments behind it  *)
(* in the order they were added, all of them in the memory of the table.   *)
LEMMA EntryOf == \A e, f : <<e>> = <<f>> => e = f
  OBVIOUS

LEMMA Single ==
    ASSUME NEW S, NEW e \in S
    PROVE  <<e>> \in Seq(S) /\ Len(<<e>>) = 1 /\ <<e>>[1] = e
  OBVIOUS

(* The table's size stays a multiple of what it grows by.                  *)
Multiple(n) == n % ARGPARSE_INITIAL_COMMAND_NR = 0

LEMMA NextMultiple ==
    /\ ARGPARSE_INITIAL_COMMAND_NR \in Nat /\ ARGPARSE_INITIAL_COMMAND_NR >= 1
    /\ Multiple(0) /\ Multiple(ARGPARSE_INITIAL_COMMAND_NR)
    /\ \A n \in Nat : Multiple(n) => Multiple(n + ARGPARSE_INITIAL_COMMAND_NR)
  <1>0. ARGPARSE_INITIAL_COMMAND_NR \in Nat \ {0}
    BY ArgParseAssumption
  <1>1. PICK s \in Nat : s = ARGPARSE_INITIAL_COMMAND_NR /\ s >= 1
    BY <1>0
  <1>2. 0 % s = 0
    BY <1>1
  <1>3. s % s = 0
    BY <1>1
  <1>4. \A n \in Nat : n % s = 0 => (n + s) % s = 0
    <2> SUFFICES ASSUME NEW n \in Nat, n % s = 0 PROVE (n + s) % s = 0
      OBVIOUS
    <2>1. n = s * (n \div s) /\ n \div s \in Nat
      BY <1>1
    <2>2. PICK q \in Nat : q = n \div s
      BY <2>1
    <2>3. n + s = s * (q + 1)
      BY <1>1, <2>1, <2>2
    <2>4. (s * (q + 1)) % s = 0
      BY <1>1
    <2> QED
      BY <2>3, <2>4
  <1> QED
    BY <1>1, <1>2, <1>3, <1>4 DEF Multiple

(* One more argument.                                                      *)
Holds(t, n) == /\ t \in Tables /\ Len(t.arguments) = n
               /\ n <= t.size /\ Multiple(t.size)

LEMMA AddKeeps ==
    ASSUME NEW n \in Nat, NEW t, NEW e \in Entries, Holds(t, n)
    PROVE  /\ Holds(Add(t, e), n + 1)
           /\ \A k \in 1..n : Add(t, e).arguments[k] = t.arguments[k]
           /\ Add(t, e).arguments[n + 1] = e
  <1> DEFINE a == Add(t, e)
  <1>1. PICK s \in Nat : s = ARGPARSE_INITIAL_COMMAND_NR /\ s >= 1
    BY NextMultiple
  <1>2. /\ t.size \in Nat /\ t.arguments \in Seq(Entries) /\ Len(t.arguments) = n
        /\ n <= t.size /\ Multiple(t.size)
    BY DEF Holds, Tables
  <1>3. /\ a.arguments = Append(t.arguments, e)
        /\ a.size = IF Multiple(n) THEN n + s ELSE t.size
        /\ a = [size |-> a.size, arguments |-> a.arguments]
    BY <1>1, <1>2 DEF Add, Multiple
  <1>4. /\ a.arguments \in Seq(Entries) /\ Len(a.arguments) = n + 1
        /\ \A k \in 1..n : a.arguments[k] = t.arguments[k]
        /\ a.arguments[n + 1] = e
    BY <1>2, <1>3, AppendProperties
  <1>5. a.size \in Nat /\ n + 1 <= a.size /\ Multiple(a.size)
    <2>1. CASE Multiple(n)
      <3>1. a.size = n + s /\ Multiple(n + s)
        BY <1>1, <1>3, <2>1, NextMultiple
      <3> QED
        BY <1>1, <3>1
    <2>2. CASE ~Multiple(n)
      <3>1. a.size = t.size /\ t.size # n
        BY <1>2, <1>3, <2>2
      <3> QED
        BY <1>2, <3>1
    <2> QED
      BY <2>1, <2>2
  <1>6. a \in Tables
    <2> HIDE DEF a
    <2> QED
      BY <1>3, <1>4, <1>5 DEF Tables
  <1> HIDE DEF a
  <1>7. Holds(a, n + 1)
    BY <1>4, <1>5, <1>6 DEF Holds
  <1> QED
    BY <1>4, <1>7 DEF a

LEMMA InitFits == Holds(argparse_init, 1) /\ argparse_init.arguments[1] = HelpFlag
  <1>1. PICK s \in Nat : s = ARGPARSE_INITIAL_COMMAND_NR /\ s >= 1
    BY NextMultiple
  <1>2. PICK t : t = [size |-> ARGPARSE_INITIAL_COMMAND_NR, arguments |-> <<>>]
    OBVIOUS
  <1>3. t.arguments = <<>> /\ t.size = s
    BY <1>1, <1>2
  <1>4. t.arguments \in Seq(Entries) /\ Len(t.arguments) = 0
    BY <1>3, EmptySeq
  <1>5. t \in Tables
    BY <1>1, <1>2, <1>3, <1>4 DEF Tables
  <1>6. Holds(t, 0)
    BY <1>1, <1>3, <1>4, <1>5, NextMultiple DEF Holds
  <1>7. Holds(Add(t, HelpFlag), 1) /\ Add(t, HelpFlag).arguments[1] = HelpFlag
    BY <1>6, AddKeeps, EntryTypes
  <1> QED
    BY <1>2, <1>7 DEF argparse_init

(* The recursive function inside Table exists: a table for every number of *)
(* arguments added.                                                        *)
TableOf(s) ==
    CHOOSE f : f = [k \in 0..Len(s) |-> IF k = 0 THEN argparse_init ELSE Add(f[k - 1], s[k])]

LEMMA TableIs == \A s : Table(s) = TableOf(s)[Len(s)]
  BY DEF Table, TableOf

LEMMA TableSteps ==
    ASSUME NEW s \in Seq(Entries)
    PROVE  /\ TableOf(s)[0] = argparse_init
           /\ \A k \in 1..Len(s) : TableOf(s)[k] = Add(TableOf(s)[k - 1], s[k])
  <1> DEFINE n == Len(s)
             Adds(f, m) == /\ DOMAIN f = 0..m /\ f = [k \in 0..m |-> f[k]]
                           /\ f[0] = argparse_init
                           /\ \A k \in 1..m : f[k] = Add(f[k - 1], s[k])
             Reached == {m \in 0..n : \E f : Adds(f, m)}
  <1>0. n \in Nat
    BY LenProperties
  <1>1. 0 \in Reached
    <2>1. Adds([k \in 0..0 |-> argparse_init], 0)
      OBVIOUS
    <2> HIDE DEF Adds
    <2> QED
      BY <1>0, <2>1
  <1>2. \A m \in 0..(n - 1) : m \in Reached => m + 1 \in Reached
    <2> SUFFICES ASSUME NEW m \in 0..(n - 1), m \in Reached PROVE m + 1 \in Reached
      OBVIOUS
    <2>1. PICK f : Adds(f, m)
      OBVIOUS
    <2>2. PICK g : g = [k \in 0..(m + 1) |-> IF k = m + 1 THEN Add(f[m], s[m + 1]) ELSE f[k]]
      OBVIOUS
    <2>3. m \in Nat /\ m + 1 \in 0..n
      BY <1>0
    <2>4. /\ DOMAIN g = 0..(m + 1) /\ g = [k \in 0..(m + 1) |-> g[k]]
          /\ g[m + 1] = Add(f[m], s[m + 1])
          /\ \A k \in 0..m : g[k] = f[k]
      BY <2>2, <2>3
    <2>5. g[0] = argparse_init
      <3>1. 0 \in 0..m
        BY <2>3
      <3> QED
        BY <2>1, <2>4, <3>1
    <2>6. \A k \in 1..(m + 1) : g[k] = Add(g[k - 1], s[k])
      <3> SUFFICES ASSUME NEW k \in 1..(m + 1) PROVE g[k] = Add(g[k - 1], s[k])
        OBVIOUS
      <3>1. k - 1 \in 0..m
        BY <2>3
      <3>2. g[k - 1] = f[k - 1]
        BY <2>4, <3>1
      <3>3. CASE k = m + 1
        <4>1. k - 1 = m
          BY <2>3, <3>3
        <4> QED
          BY <2>4, <3>2, <3>3, <4>1
      <3>4. CASE k # m + 1
        <4>1. k \in 1..m /\ k \in 0..m
          BY <2>3, <3>4
        <4>2. f[k] = Add(f[k - 1], s[k])
          BY <2>1, <4>1
        <4> QED
          BY <2>4, <3>2, <4>1, <4>2
      <3> QED
        BY <3>3, <3>4
    <2>7. Adds(g, m + 1)
      BY <2>4, <2>5, <2>6
    <2> HIDE DEF Adds
    <2> QED
      BY <2>3, <2>7
  <1>3. \E f : Adds(f, n)
    <2>1. n \in 0..n
      BY <1>0
    <2> HIDE DEF Reached, n
    <2>2. n \in Reached
      BY <1>0, <1>1, <1>2, <2>1, SetInduction
    <2> QED
      BY <2>2 DEF Reached
  <1>4. PICK f : Adds(f, n)
    BY <1>3
  <1>5. f = [k \in 0..n |-> IF k = 0 THEN argparse_init ELSE Add(f[k - 1], s[k])]
    <2>1. \A k \in 0..n : f[k] = IF k = 0 THEN argparse_init ELSE Add(f[k - 1], s[k])
      <3> SUFFICES ASSUME NEW k \in 0..n
                   PROVE  f[k] = IF k = 0 THEN argparse_init ELSE Add(f[k - 1], s[k])
        OBVIOUS
      <3>1. CASE k = 0
        BY <1>4, <3>1
      <3>2. CASE k # 0
        <4>1. k \in 1..n
          BY <1>0, <3>2
        <4> QED
          BY <1>4, <3>2, <4>1
      <3> QED
        BY <3>1, <3>2
    <2> QED
      BY <1>4, <2>1
  <1>6. PICK u : u = TableOf(s)
    OBVIOUS
  <1>7. u = [k \in 0..n |-> IF k = 0 THEN argparse_init ELSE Add(u[k - 1], s[k])]
    BY <1>5, <1>6 DEF TableOf
  <1>8. u[0] = argparse_init /\ \A k \in 1..n : u[k] = Add(u[k - 1], s[k])
    BY <1>0, <1>7
  <1> QED
    BY <1>6, <1>8

LEMMA TableFacts ==
    ASSUME NEW s \in Seq(Entries)
    PROVE  /\ Holds(Table(s), Len(s) + 1)
           /\ Table(s).arguments[1] = HelpFlag
           /\ \A j \in 1..Len(s) : Table(s).arguments[j + 1] = s[j]
  <1>1. PICK n \in Nat : n = Len(s)
    BY LenProperties
  <1>2. PICK f : f = TableOf(s)
    OBVIOUS
  <1>3. f[0] = argparse_init /\ \A k \in 1..n : f[k] = Add(f[k - 1], s[k])
    BY <1>1, <1>2, TableSteps
  <1>4. \A k \in 1..n : s[k] \in Entries
    BY <1>1, ElementOfSeq
  <1> DEFINE Built(k) == /\ Holds(f[k], k + 1)
                         /\ f[k].arguments[1] = HelpFlag
                         /\ \A j \in 1..k : f[k].arguments[j + 1] = s[j]
             T == {k \in 0..n : Built(k)}
  <1>5. 0 \in T
    BY <1>1, <1>3, InitFits
  <1>6. \A k \in 0..(n - 1) : k \in T => k + 1 \in T
    <2> SUFFICES ASSUME NEW k \in 0..(n - 1), k \in T PROVE k + 1 \in T
      OBVIOUS
    <2>1. Built(k)
      OBVIOUS
    <2>2. k \in Nat /\ k + 1 \in 0..n /\ k + 1 \in 1..n /\ k + 1 - 1 = k /\ k + 1 \in Nat
      BY <1>1
    <2>3. f[k + 1] = Add(f[k], s[k + 1]) /\ s[k + 1] \in Entries
      <3>1. f[k + 1] = Add(f[k + 1 - 1], s[k + 1])
        BY <1>3, <2>2
      <3> QED
        BY <1>4, <2>2, <3>1
    <2> HIDE DEF T
    <2>4. /\ Holds(f[k + 1], k + 1 + 1)
          /\ \A j \in 1..(k + 1) : f[k + 1].arguments[j] = f[k].arguments[j]
          /\ f[k + 1].arguments[k + 1 + 1] = s[k + 1]
      BY <2>1, <2>2, <2>3, AddKeeps
    <2>5. f[k + 1].arguments[1] = HelpFlag
      <3>1. 1 \in 1..(k + 1)
        BY <2>2
      <3> QED
        BY <2>1, <2>4, <3>1
    <2>6. \A j \in 1..(k + 1) : f[k + 1].arguments[j + 1] = s[j]
      <3> SUFFICES ASSUME NEW j \in 1..(k + 1) PROVE f[k + 1].arguments[j + 1] = s[j]
        OBVIOUS
      <3>1. CASE j = k + 1
        BY <2>4, <3>1
      <3>2. CASE j # k + 1
        <4>1. j \in 1..k /\ j + 1 \in 1..(k + 1)
          BY <2>2, <3>2
        <4>2. f[k].arguments[j + 1] = s[j]
          BY <2>1, <4>1
        <4> QED
          BY <2>4, <4>1, <4>2
      <3> QED
        BY <3>1, <3>2
    <2>7. Built(k + 1)
      BY <2>4, <2>5, <2>6
    <2> HIDE DEF Built
    <2> QED
      BY <2>2, <2>7 DEF T
  <1>7. n \in T
    <2>1. n \in 0..n
      BY <1>1
    <2> HIDE DEF T
    <2> QED
      BY <1>1, <1>5, <1>6, <2>1, SetInduction
  <1>8. Table(s) = f[n]
    BY <1>1, <1>2, TableIs
  <1>9. Built(n)
    BY <1>7
  <1> QED
    BY <1>1, <1>8, <1>9

(* main's table and a setter's are what IsMain and IsSetter say.           *)
Room(c) == c \in Tables /\ Len(c.arguments) <= c.size

LEMMA Fields ==
    /\ HelpFlag.type = "flag" /\ HelpFlag.short = "h" /\ HelpFlag.name = "help"
    /\ DeviceName.type = "str" /\ DeviceName.target = "device" /\ DeviceName.short = "d"
    /\ \A name : ArgParseCmd(name).type = "cmd" /\ ArgParseCmd(name).name = name
  BY DEF HelpFlag, DeviceName, ArgStr, ArgParseCmd, Entry

LEMMA IsSeq ==
    ASSUME NEW S, NEW n \in Nat, NEW f \in [1..n -> S]
    PROVE  f \in Seq(S) /\ Len(f) = n
  OBVIOUS

LEMMA EntrySeq == \A n \in Nat : \A f \in [1..n -> Entries] : f \in Seq(Entries) /\ Len(f) = n
  BY IsSeq

LEMMA MainTableFacts == Room(MainTable) /\ IsMain(MainTable)
  <1> DEFINE commands == [k \in DOMAIN CommandNames |-> ArgParseCmd(CommandNames[k])]
  <1>1. \A k \in 1..15 : ArgParseCmd(CommandNames[k]) \in Entries
    BY Commands, EntryTypes
  <1>2. /\ DOMAIN commands = 1..15
        /\ \A k \in 1..15 : commands[k] = ArgParseCmd(CommandNames[k])
    BY Commands
  <1>3. commands \in [1..15 -> Entries]
    BY <1>1, <1>2
  <1> HIDE DEF commands
  <1>n. PICK n \in Nat : n = 15
    OBVIOUS
  <1>4. commands \in Seq(Entries) /\ Len(commands) = n
    <2>1. commands \in [1..n -> Entries]
      BY <1>3, <1>n
    <2> QED
      BY <2>1, EntrySeq
  <1>5. <<DeviceName>> \in Seq(Entries) /\ Len(<<DeviceName>>) = 1 /\ <<DeviceName>>[1] = DeviceName
    BY EntryTypes, Single
  <1>6. PICK s : s = <<DeviceName>> \o commands
    OBVIOUS
  <1>7. /\ s \in Seq(Entries) /\ Len(s) = 1 + n /\ s[1] = DeviceName
        /\ \A k \in 1..n : s[k + 1] = commands[k]
    <2>1. /\ s \in Seq(Entries) /\ Len(s) = 1 + n
          /\ \A k \in 1..(1 + n) : s[k] = IF k <= 1 THEN <<DeviceName>>[k] ELSE commands[k - 1]
      BY <1>4, <1>5, <1>6, ConcatProperties
    <2>2. \A k \in 1..n : s[k + 1] = commands[k]
      <3> SUFFICES ASSUME NEW k \in 1..n PROVE s[k + 1] = commands[k]
        OBVIOUS
      <3>1. k + 1 \in 1..(1 + n) /\ ~(k + 1 <= 1) /\ k + 1 - 1 = k
        BY <1>n
      <3> QED
        BY <2>1, <3>1
    <2>3. 1 \in 1..(1 + n)
      BY <1>n
    <2> QED
      BY <1>5, <2>1, <2>2, <2>3
  <1>8. PICK c : c = Table(s)
    OBVIOUS
  <1>9. /\ Holds(c, 17) /\ c.arguments[1] = HelpFlag
        /\ \A j \in 1..(1 + n) : c.arguments[j + 1] = s[j]
    <2>1. /\ Holds(c, 1 + n + 1) /\ c.arguments[1] = HelpFlag
          /\ \A j \in 1..(1 + n) : c.arguments[j + 1] = s[j]
      BY <1>7, <1>8, TableFacts
    <2>2. 1 + n + 1 = 17
      BY <1>n
    <2> QED
      BY <2>1, <2>2
  <1>10. c = MainTable
    BY <1>6, <1>8 DEF MainTable, commands
  <1>11. Room(c)
    BY <1>9 DEF Holds, Room
  <1>12. IsMain(c)
    <2>1. Len(c.arguments) = 17
      BY <1>9 DEF Holds
    <2>2. c.arguments[1].type = "flag"
      BY <1>9, Fields
    <2>3. c.arguments[2] = DeviceName
      <3>1. 1 \in 1..(1 + n)
        BY <1>n
      <3>2. c.arguments[1 + 1] = s[1]
        BY <1>9, <3>1
      <3> QED
        BY <1>7, <3>2
    <2>4. /\ c.arguments[2].type = "str" /\ c.arguments[2].target = "device"
          /\ c.arguments[2].short = "d"
      BY <2>3, Fields
    <2>5. \A k \in 1..15 : c.arguments[k + 2] = ArgParseCmd(CommandNames[k])
      <3> SUFFICES ASSUME NEW k \in 1..15
                   PROVE  c.arguments[k + 2] = ArgParseCmd(CommandNames[k])
        OBVIOUS
      <3>1. k \in 1..n /\ k + 1 \in 1..(1 + n) /\ k + 1 + 1 = k + 2
        BY <1>n
      <3>2. c.arguments[k + 1 + 1] = s[k + 1] /\ s[k + 1] = commands[k]
        BY <1>7, <1>9, <3>1
      <3>3. commands[k] = ArgParseCmd(CommandNames[k])
        BY <1>2
      <3> QED
        BY <3>1, <3>2, <3>3
    <2>6. \A k \in 1..15 : /\ c.arguments[k + 2].type = "cmd"
                           /\ c.arguments[k + 2].name = CommandNames[k]
      BY <2>5, Fields
    <2> QED
      BY <2>1, <2>2, <2>4, <2>6 DEF IsMain
  <1> QED
    BY <1>10, <1>11, <1>12

LEMMA SetterTableFacts ==
    \A e \in Entries : IsOption(e) => Room(Table(<<e>>)) /\ IsSetter(Table(<<e>>), e)
  <1> SUFFICES ASSUME NEW e \in Entries, IsOption(e)
               PROVE  Room(Table(<<e>>)) /\ IsSetter(Table(<<e>>), e)
    OBVIOUS
  <1>1. PICK s : s = <<e>>
    OBVIOUS
  <1>2. s \in Seq(Entries) /\ Len(s) = 1 /\ s[1] = e
    BY <1>1, Single
  <1>3. PICK c : c = Table(s)
    OBVIOUS
  <1>4. /\ Holds(c, 2) /\ c.arguments[1] = HelpFlag /\ c.arguments[2] = e
    <2>1. /\ Holds(c, 1 + 1) /\ c.arguments[1] = HelpFlag
          /\ \A j \in 1..1 : c.arguments[j + 1] = s[j]
      BY <1>2, <1>3, TableFacts
    <2>2. c.arguments[1 + 1] = s[1]
      BY <2>1
    <2> QED
      BY <1>2, <2>1, <2>2
  <1>5. Room(c)
    BY <1>4 DEF Holds, Room
  <1>6. IsSetter(c, e)
    <2>1. Len(c.arguments) = 2
      BY <1>4 DEF Holds
    <2>2. /\ c.arguments[1].type = "flag"
          /\ c.arguments[1].short = "h" /\ c.arguments[1].name = "help"
      BY <1>4, Fields
    <2>3. e.target = "value"
      BY DEF IsOption
    <2> QED
      BY <1>4, <2>1, <2>2, <2>3 DEF IsSetter
  <1> QED
    BY <1>1, <1>3, <1>5, <1>6
-----------------------------------------------------------------------------
(* First is the first command of the line.                                 *)
LEMMA FirstIs ==
    \A k \in 1..Len(line) :
        (IsCommand(line[k]) /\ \A j \in 1..Len(line) : j < k => ~IsCommand(line[j])) => First = k
  <1> SUFFICES ASSUME NEW k \in 1..Len(line), IsCommand(line[k]),
                      \A j \in 1..Len(line) : j < k => ~IsCommand(line[j])
               PROVE  First = k
    OBVIOUS
  <1>1. PICK I : I = {j \in 1..Len(line) : IsCommand(line[j])}
    OBVIOUS
  <1>2. First = IF I # {} THEN Min(I) ELSE 0
    BY <1>1 DEF First, SelectInSeq
  <1>3. k \in I /\ \A j \in I : ~(j < k) /\ j \in Int /\ k \in Int
    BY <1>1
  <1>4. k \in I /\ \A j \in I : k <= j /\ j \in Int
    BY <1>3
  <1>5. Min(I) = k
    <2>1. \E x \in I : \A y \in I : x <= y
      BY <1>4
    <2>2. Min(I) \in I /\ \A y \in I : Min(I) <= y
      BY <2>1, Zenon DEF Min
    <2>3. PICK m \in Int : m = Min(I)
      BY <1>4, <2>2
    <2>4. m <= k /\ k <= m /\ k \in Int
      BY <1>4, <2>2, <2>3
    <2> QED
      BY <2>3, <2>4
  <1> QED
    BY <1>2, <1>3, <1>5

LEMMA FirstStays == line' = line => First' = First
  BY DEF First, SelectInSeq, IsCommand

(* Marking an entry of a table as set changes nothing the parser compares. *)
SameButSet(c, d) ==
    /\ d \in Tables /\ d.size = c.size /\ Len(d.arguments) = Len(c.arguments)
    /\ \A k \in 1..Len(c.arguments) :
          /\ d.arguments[k].type = c.arguments[k].type
          /\ d.arguments[k].name = c.arguments[k].name
          /\ d.arguments[k].short = c.arguments[k].short
          /\ d.arguments[k].target = c.arguments[k].target
          /\ d.arguments[k].maxchars = c.arguments[k].maxchars

LEMMA EntrySet ==
    ASSUME NEW e \in Entries
    PROVE  LET f == [e EXCEPT !.set = TRUE]
           IN f \in Entries /\ f.type = e.type /\ f.name = e.name
              /\ f.short = e.short /\ f.target = e.target /\ f.maxchars = e.maxchars
  BY DEF Entries

LEMMA Marked ==
    ASSUME NEW c \in Tables, NEW q \in Nat, q < Len(c.arguments)
    PROVE  SameButSet(c, [c EXCEPT !.arguments =
               ReplaceAt(@, q + 1, [c.arguments[q + 1] EXCEPT !.set = TRUE])])
  <1>1. PICK s \in Seq(Entries) : s = c.arguments
    BY DEF Tables
  <1>2. PICK n \in Nat : n = Len(s)
    BY LenProperties
  <1>3. q + 1 \in 1..n
    BY <1>1, <1>2
  <1>4. PICK f : f = [c.arguments[q + 1] EXCEPT !.set = TRUE]
    OBVIOUS
  <1>5. s[q + 1] \in Entries
    BY <1>2, <1>3, ElementOfSeq
  <1>6. /\ f \in Entries /\ f.type = s[q + 1].type /\ f.name = s[q + 1].name
        /\ f.short = s[q + 1].short /\ f.target = s[q + 1].target
        /\ f.maxchars = s[q + 1].maxchars
    BY <1>1, <1>4, <1>5, EntrySet
  <1>7. PICK t : t = [s EXCEPT ![q + 1] = f]
    OBVIOUS
  <1>8. /\ t \in Seq(Entries) /\ Len(t) = n
        /\ \A j \in 1..n : t[j] = IF j = q + 1 THEN f ELSE s[j]
    BY <1>2, <1>3, <1>6, <1>7, ExceptSeq
  <1>9. PICK d : d = [c EXCEPT !.arguments = ReplaceAt(@, q + 1, f)]
    OBVIOUS
  <1>10. d.arguments = t /\ d.size = c.size /\ d \in Tables
    <2>1. d = [size |-> c.size, arguments |-> t]
      BY <1>1, <1>7, <1>9 DEF Tables, ReplaceAt
    <2>2. c.size \in Nat
      BY DEF Tables
    <2> QED
      BY <1>8, <2>1, <2>2 DEF Tables
  <1>11. \A k \in 1..n : /\ t[k].type = s[k].type /\ t[k].name = s[k].name
                         /\ t[k].short = s[k].short /\ t[k].target = s[k].target
                         /\ t[k].maxchars = s[k].maxchars
    BY <1>6, <1>8
  <1>12. SameButSet(c, d)
    BY <1>1, <1>2, <1>8, <1>10, <1>11 DEF SameButSet
  <1> QED
    BY <1>4, <1>9, <1>12

LEMMA SameShape ==
    ASSUME NEW c, NEW d, SameButSet(c, d)
    PROVE  /\ Room(c) => Room(d)
           /\ IsMain(c) => IsMain(d)
           /\ \A e : IsSetter(c, e) => IsSetter(d, e)
  <1>1. Room(c) => Room(d)
    BY DEF Room, SameButSet
  <1>2. IsMain(c) => IsMain(d)
    <2> SUFFICES ASSUME IsMain(c) PROVE IsMain(d)
      OBVIOUS
    <2>1. PICK n \in Nat : n = 17
      OBVIOUS
    <2>2. Len(c.arguments) = n /\ Len(d.arguments) = n
      BY <2>1 DEF SameButSet, IsMain
    <2>3. \A k \in 1..n : /\ d.arguments[k].type = c.arguments[k].type
                          /\ d.arguments[k].name = c.arguments[k].name
                          /\ d.arguments[k].short = c.arguments[k].short
                          /\ d.arguments[k].target = c.arguments[k].target
      BY <2>2 DEF SameButSet
    <2>4. 1 \in 1..n /\ 2 \in 1..n /\ \A k \in 1..15 : k + 2 \in 1..n
      BY <2>1
    <2> QED
      BY <2>1, <2>2, <2>3, <2>4 DEF IsMain
  <1>3. \A e : IsSetter(c, e) => IsSetter(d, e)
    <2> SUFFICES ASSUME NEW e, IsSetter(c, e) PROVE IsSetter(d, e)
      OBVIOUS
    <2>2. Len(c.arguments) = 2 /\ Len(d.arguments) = 2
      BY DEF SameButSet, IsSetter
    <2>3. \A k \in {1, 2} : /\ d.arguments[k].type = c.arguments[k].type
                            /\ d.arguments[k].name = c.arguments[k].name
                            /\ d.arguments[k].short = c.arguments[k].short
                            /\ d.arguments[k].target = c.arguments[k].target
                            /\ d.arguments[k].maxchars = c.arguments[k].maxchars
      BY <2>2 DEF SameButSet
    <2> QED
      BY <2>2, <2>3 DEF IsSetter
  <1> QED
    BY <1>1, <1>2, <1>3
-----------------------------------------------------------------------------
(* What main's parser compares: the words of the line, and the entries of  *)
(* main's table in their order.                                            *)
WordsOf(v, l) == /\ v \in Seq(Words) /\ Len(v) = 1 + Len(l)
                 /\ \A k \in 1..Len(l) : v[k + 1] = l[k] /\ l[k] \in Words

LEMMA ProgramName == \A l \in Seq(Words) : WordsOf(<<Plain("conbeectrl")>> \o l, l)
  <1> SUFFICES ASSUME NEW l \in Seq(Words)
               PROVE  WordsOf(<<Plain("conbeectrl")>> \o l, l)
    OBVIOUS
  <1>1. PICK p : p = <<Plain("conbeectrl")>>
    OBVIOUS
  <1>2. "conbeectrl" \in Texts
    BY ConbeectrlAssumption
  <1>3. p \in Seq(Words) /\ Len(p) = 1
    BY <1>1, <1>2, WordForms, Single
  <1>4. PICK v : v = p \o l
    OBVIOUS
  <1>5. PICK n \in Nat : n = Len(l)
    BY LenProperties
  <1>6. /\ v \in Seq(Words) /\ Len(v) = 1 + n
        /\ \A k \in 1..(1 + n) : v[k] = IF k <= 1 THEN p[k] ELSE l[k - 1]
    <2>1. /\ p \o l \in Seq(Words) /\ Len(p \o l) = Len(p) + Len(l)
          /\ \A k \in 1..(Len(p) + Len(l)) :
                (p \o l)[k] = IF k <= Len(p) THEN p[k] ELSE l[k - Len(p)]
      BY <1>3, ConcatProperties
    <2> QED
      BY <1>3, <1>4, <1>5, <2>1
  <1>7. \A k \in 1..n : v[k + 1] = l[k] /\ l[k] \in Words
    <2> SUFFICES ASSUME NEW k \in 1..n PROVE v[k + 1] = l[k] /\ l[k] \in Words
      OBVIOUS
    <2>1. k + 1 \in 1..(1 + n) /\ ~(k + 1 <= 1) /\ k + 1 - 1 = k
      BY <1>5
    <2> QED
      BY <1>5, <1>6, <2>1, ElementOfSeq
  <1> QED
    BY <1>1, <1>4, <1>5, <1>6, <1>7 DEF WordsOf

LEMMA MainWord ==
    ASSUME CtrlInv, stage = "main", parse = "loop", i < argc
    PROVE  /\ i \in 1..Len(line) /\ Word = line[i] /\ line[i] \in Words
           /\ i + 1 < argc => i + 1 \in 1..Len(line) /\ Arg(i + 1) = line[i + 1]
                              /\ line[i + 1] \in Words
           /\ argc = 1 + Len(line) /\ argv = <<Plain("conbeectrl")>> \o line
           /\ Len(line) \in Nat
  <1>1. line \in Seq(Words) /\ i \in 1..(argc + 1) /\ argc \in Nat
    BY DEF CtrlInv, Typed, TypeOK
  <1>2. argc = 1 + Len(line) /\ argv = <<Plain("conbeectrl")>> \o line
    BY DEF CtrlInv, InMain, Walking
  <1>3. PICK n \in Nat : n = Len(line)
    BY <1>1, LenProperties
  <1>4. PICK v : v = argv
    OBVIOUS
  <1>5. Len(v) = 1 + n /\ \A k \in 1..n : v[k + 1] = line[k] /\ line[k] \in Words
    BY <1>1, <1>2, <1>3, <1>4, ProgramName DEF WordsOf
  <1>6. \A k \in 1..n : Arg(k) = line[k]
    <2> SUFFICES ASSUME NEW k \in 1..n PROVE Arg(k) = line[k]
      OBVIOUS
    <2>1. k \in 0..(Len(argv) - 1)
      BY <1>3, <1>4, <1>5
    <2>2. Arg(k) = argv[k + 1]
      BY <2>1 DEF Arg
    <2> QED
      BY <1>4, <1>5, <2>2
  <1>7. i \in 1..n /\ (i + 1 < argc => i + 1 \in 1..n)
    BY <1>1, <1>2, <1>3
  <1> QED
    BY <1>2, <1>3, <1>5, <1>6, <1>7 DEF Word

LEMMA MainHere ==
    ASSUME CtrlInv, stage = "main", r < Len(ctx.arguments)
    PROVE  /\ r \in 0..16
           /\ Here.type = "flag" => r = 0
           /\ Here.type = "str" => r = 1 /\ Here.target = "device" /\ Here.short = "d"
           /\ Here.type = "cmd" => r >= 2 /\ Here.name = CommandNames[r - 1]
           /\ Here.type \in {"flag", "str", "cmd"}
           /\ r \in Nat
  <1>1. IsMain(ctx) /\ r \in 0..Len(ctx.arguments)
    BY DEF CtrlInv, Typed, TypeOK, Stages
  <1>2. PICK n \in Nat : n = 17
    OBVIOUS
  <1>3. r \in Nat /\ r < n /\ Len(ctx.arguments) = n
    BY <1>1, <1>2 DEF IsMain
  <1>4. CASE r = 0
    <2>1. Here.type = "flag"
      BY <1>1, <1>4 DEF Here, IsMain
    <2> QED
      BY <1>4, <2>1
  <1>5. CASE r = 1
    <2>1. Here.type = "str" /\ Here.target = "device" /\ Here.short = "d"
      BY <1>1, <1>5 DEF Here, IsMain
    <2> QED
      BY <1>5, <2>1
  <1>6. CASE r >= 2
    <2>1. r - 1 \in 1..15 /\ r - 1 + 2 = r + 1
      BY <1>2, <1>3, <1>6
    <2>2. Here.type = "cmd" /\ Here.name = CommandNames[r - 1]
      BY <1>1, <2>1 DEF Here, IsMain
    <2> QED
      BY <1>2, <1>3, <1>6, <2>2
  <1> QED
    BY <1>3, <1>4, <1>5, <1>6

(* What a setter's parser compares, and the words of a setter that comes   *)
(* first.                                                                  *)
LEMMA SetterHere ==
    ASSUME CtrlInv, stage = "setter", r < Len(ctx.arguments)
    PROVE  /\ command \in DOMAIN Setters
           /\ Here.type = "flag" => r = 0
           /\ r = 0 => Here.short = "h" /\ Here.name = "help"
           /\ Here.type \in {"str", "int"} =>
                 /\ r = 1 /\ Here.target = "value"
                 /\ Here.type = Setters[command].option.type
                 /\ Here.short = Setters[command].option.short
                 /\ Here.name = Setters[command].option.name
                 /\ Here.maxchars = Setters[command].option.maxchars
           /\ Here.type \in {"flag", "str", "int"}
           /\ r \in {0, 1}
  <1>1. command \in DOMAIN Setters /\ IsSetter(ctx, Setters[command].option)
    BY DEF CtrlInv, Stages
  <1>2. r \in {0, 1}
    <2>1. r \in 0..Len(ctx.arguments) /\ Len(ctx.arguments) = 2
      BY <1>1 DEF CtrlInv, Typed, TypeOK, IsSetter
    <2> QED
      BY <2>1
  <1>3. Setters[command].option.type \in {"str", "int"}
    BY <1>1, SetterFacts DEF IsOption
  <1>4. CASE r = 0
    <2>1. Here.type = "flag" /\ Here.short = "h" /\ Here.name = "help"
      BY <1>1, <1>4 DEF Here, IsSetter
    <2> QED
      BY <1>1, <1>4, <2>1
  <1>5. CASE r = 1
    <2>1. /\ Here.target = "value" /\ Here.type = Setters[command].option.type
          /\ Here.short = Setters[command].option.short
          /\ Here.name = Setters[command].option.name
          /\ Here.maxchars = Setters[command].option.maxchars
      BY <1>1, <1>5 DEF Here, IsSetter
    <2> QED
      BY <1>1, <1>3, <1>5, <2>1
  <1> QED
    BY <1>2, <1>4, <1>5

LEMMA ArgIsWord ==
    ASSUME CtrlInv, NEW k \in Int
    PROVE  Arg(k) \in Words \cup {NULL} /\ Len(argv) \in Nat
           /\ (Arg(k) # NULL => k \in 0..(Len(argv) - 1) /\ Arg(k) = argv[k + 1]
                               /\ k + 1 \in 1..Len(argv))
           /\ (k \in 0..(Len(argv) - 1) => Arg(k) # NULL)
  <1>1. PICK v \in Seq(Words) : v = argv
    BY DEF CtrlInv, Typed
  <1>2. PICK n \in Nat : n = Len(v)
    BY LenProperties
  <1>3. CASE k \in 0..(n - 1)
    <2>1. k + 1 \in 1..n
      BY <1>2, <1>3
    <2>2. Arg(k) = v[k + 1] /\ v[k + 1] \in Words
      BY <1>1, <1>2, <1>3, <2>1, ElementOfSeq DEF Arg
    <2> QED
      BY <1>1, <1>2, <1>3, <2>1, <2>2, WordForms
  <1>4. CASE k \notin 0..(n - 1)
    <2>1. Arg(k) = NULL
      BY <1>1, <1>2, <1>4 DEF Arg
    <2> QED
      BY <1>1, <1>2, <1>4, <2>1
  <1> QED
    BY <1>3, <1>4
-----------------------------------------------------------------------------
(* A step of the loop keeps the types.                                     *)
LEMMA LoopFacts ==
    ASSUME CtrlInv
    PROVE  /\ i \in Nat /\ 1 <= i /\ i <= argc /\ argc \in Nat
           /\ r \in Nat /\ r <= Len(ctx.arguments) /\ Len(ctx.arguments) \in Nat
           /\ found \in BOOLEAN /\ argv \in Seq(Words) /\ ctx \in Tables /\ Room(ctx)
           /\ result \in {0, -1} /\ DOMAIN memory = {"device", "value"}
           /\ parse \in {"loop", "callback", "returned", "crashed"}
           /\ line \in Seq(Words)
  <1>1. /\ TypeOK /\ ctx \in Tables /\ argc \in Nat /\ 1 <= argc /\ i <= argc
        /\ argv \in Seq(Words) /\ line \in Seq(Words) /\ DOMAIN memory = {"device", "value"}
    BY DEF CtrlInv, Typed
  <1>2. Len(ctx.arguments) \in Nat
    BY <1>1, LenProperties DEF Tables
  <1>3. /\ Len(ctx.arguments) <= ctx.size
        /\ i \in 1..(argc + 1) /\ r \in 0..Len(ctx.arguments) /\ found \in BOOLEAN
        /\ result \in {0, -1} /\ parse \in {"loop", "callback", "returned", "crashed"}
    BY <1>1 DEF TypeOK
  <1> QED
    BY <1>1, <1>2, <1>3 DEF Room

StepTyped ==
    /\ parse' \in {"loop", "callback", "returned", "crashed"} /\ result' \in {0, -1}
    /\ ctx' = ctx \/ SameButSet(ctx, ctx')
    /\ argc' \in Nat /\ 1 <= argc' /\ i' \in Nat /\ 1 <= i' /\ i' <= argc'
    /\ r' \in Nat /\ r' <= Len(ctx.arguments)
    /\ found' \in BOOLEAN
    /\ argv' \in Seq(Words)
    /\ DOMAIN memory' = {"device", "value"}

LEMMA MarkSetDoes ==
    ASSUME CtrlInv, r < Len(ctx.arguments), MarkSet
    PROVE  found' = TRUE /\ SameButSet(ctx, ctx')
  <1>1. ctx' = [ctx EXCEPT !.arguments =
                   ReplaceAt(@, r + 1, [ctx.arguments[r + 1] EXCEPT !.set = TRUE])]
    BY DEF MarkSet, Here
  <1> QED
    BY <1>1, LoopFacts, Marked DEF MarkSet

LEMMA CutDoes ==
    ASSUME CtrlInv, Word.form = "long", Cut
    PROVE  /\ argv' \in Seq(Words) /\ Len(argv') = Len(argv) /\ Len(argv) \in Nat
           /\ i + 1 \in 1..Len(argv) /\ Word = argv[i + 1] /\ Word \in Words
           /\ \A k \in 1..Len(argv) : k # i + 1 => argv'[k] = argv[k]
           /\ argv'[i + 1] = Long(Word.name, "")
  <1>1. Word # NULL
    BY NullForm
  <1>2. i \in Int /\ argv \in Seq(Words)
    BY LoopFacts
  <1>3. /\ Word \in Words /\ Word = argv[i + 1] /\ i + 1 \in 1..Len(argv) /\ Len(argv) \in Nat
    BY <1>1, <1>2, ArgIsWord DEF Word
  <1>4. PICK w : w = Long(Word.name, "")
    OBVIOUS
  <1>5. w \in Words
    BY <1>3, <1>4, WordForms, ArgParseAssumption
  <1>6. argv' = [argv EXCEPT ![i + 1] = w]
    BY <1>4 DEF Cut, ReplaceAt
  <1>7. /\ argv' \in Seq(Words) /\ Len(argv') = Len(argv)
        /\ \A j \in 1..Len(argv) : argv'[j] = IF j = i + 1 THEN w ELSE argv[j]
    BY <1>2, <1>3, <1>5, <1>6, ExceptSeq
  <1> QED
    BY <1>3, <1>4, <1>7

LEMMA NullWordTyped == CtrlInv /\ NullWord => StepTyped
  BY LoopFacts DEF NullWord, Crash, StepTyped

LEMMA FoundCommandTyped == CtrlInv /\ FoundCommand => StepTyped
  <1> SUFFICES ASSUME CtrlInv, FoundCommand PROVE StepTyped
    OBVIOUS
  <1>1. PICK v \in Seq(Words) : v = argv
    BY LoopFacts
  <1>2. PICK n \in Nat : n = Len(v)
    BY LenProperties
  <1>3. i \in Nat /\ 1 <= i /\ i < argc /\ argc \in Nat
    BY LoopFacts DEF FoundCommand, Comparing
  <1>4. \A k \in (i + 1)..n : v[k] \in Words
    <2> SUFFICES ASSUME NEW k \in (i + 1)..n PROVE v[k] \in Words
      OBVIOUS
    <2>1. k \in 1..Len(v)
      BY <1>2, <1>3
    <2> QED
      BY <2>1, ElementOfSeq
  <1>5. SubSeq(v, i + 1, n) \in Seq(Words)
    BY <1>2, <1>3, <1>4, SubSeqProperties
  <1>6. argv' \in Seq(Words)
    BY <1>1, <1>2, <1>5 DEF FoundCommand
  <1>7. argc' = argc - 1 /\ i' = i /\ r' = r
    BY DEF FoundCommand, RestCount
  <1>8. argc' \in Nat /\ 1 <= argc' /\ i' \in Nat /\ 1 <= i' /\ i' <= argc'
    BY <1>3, <1>7
  <1>9. /\ parse' = "callback" /\ result' = result /\ ctx' = ctx /\ found' = TRUE
        /\ memory' = memory
    BY DEF FoundCommand
  <1> QED
    BY <1>6, <1>7, <1>8, <1>9, LoopFacts DEF StepTyped

LEMMA FoundStringTyped == CtrlInv /\ FoundString => StepTyped
  <1> SUFFICES ASSUME CtrlInv, FoundString PROVE StepTyped
    OBVIOUS
  <1>1. r < Len(ctx.arguments) /\ argv' = argv
    BY DEF FoundString, Comparing
  <1>2. CASE /\ i + 1 < argc /\ DOMAIN memory' = DOMAIN memory
             /\ MarkSet /\ GoOn(1)
    <2>1. i' = i + 1 /\ r' = r + 1 /\ argc' = argc /\ parse' = parse /\ result' = result
      BY <1>2 DEF GoOn
    <2>2. found' = TRUE /\ SameButSet(ctx, ctx')
      BY <1>1, <1>2, MarkSetDoes
    <2> QED
      BY <1>1, <1>2, <2>1, <2>2, LoopFacts DEF StepTyped
  <1>3. CASE found' = TRUE /\ ctx' = ctx /\ memory' = memory /\ (Crash \/ Return(-1))
    <2>1. i' = i /\ r' = r /\ argc' = argc
      BY <1>3 DEF Crash, Return
    <2>2. parse' \in {"crashed", "returned"} /\ result' \in {result, -1}
      BY <1>3 DEF Crash, Return
    <2> QED
      BY <1>1, <1>3, <2>1, <2>2, LoopFacts DEF StepTyped
  <1> QED
    BY <1>2, <1>3 DEF FoundString

LEMMA FoundFlagTyped == CtrlInv /\ FoundFlag => StepTyped
  <1> SUFFICES ASSUME CtrlInv, FoundFlag PROVE StepTyped
    OBVIOUS
  <1>1. r < Len(ctx.arguments) /\ argv' = argv /\ memory' = memory
    BY DEF FoundFlag, Comparing
  <1>2. i' = i /\ r' = r /\ argc' = argc /\ parse' = "returned" /\ result' = 0
    BY DEF FoundFlag, Return
  <1>3. found' = TRUE /\ SameButSet(ctx, ctx')
    BY <1>1, MarkSetDoes DEF FoundFlag
  <1> QED
    BY <1>1, <1>2, <1>3, LoopFacts DEF StepTyped

LEMMA FoundShortIntTyped == CtrlInv /\ FoundShortInt => StepTyped
  <1> SUFFICES ASSUME CtrlInv, FoundShortInt PROVE StepTyped
    OBVIOUS
  <1>1. r < Len(ctx.arguments) /\ argv' = argv /\ i < argc
    BY DEF FoundShortInt, Comparing
  <1>2. found' = TRUE /\ SameButSet(ctx, ctx')
    BY <1>1, MarkSetDoes DEF FoundShortInt
  <1>3. CASE Arg(i + 1) = NULL
    <2>1. /\ i' = i /\ r' = r /\ argc' = argc /\ parse' = "crashed" /\ result' = result
          /\ memory' = memory
      BY <1>3 DEF FoundShortInt, Crash
    <2> QED
      BY <1>1, <1>2, <2>1, LoopFacts DEF StepTyped
  <1>4. CASE Arg(i + 1) # NULL
    <2>1. /\ i' = i + 1 /\ r' = r + 1 /\ argc' = argc /\ parse' = parse /\ result' = result
          /\ DOMAIN memory' = DOMAIN memory
      BY <1>4 DEF FoundShortInt, GoOn
    <2> QED
      BY <1>1, <1>2, <2>1, LoopFacts DEF StepTyped
  <1> QED
    BY <1>3, <1>4

LEMMA FoundLongIntTyped == CtrlInv /\ FoundLongInt => StepTyped
  <1> SUFFICES ASSUME CtrlInv, FoundLongInt PROVE StepTyped
    OBVIOUS
  <1>1. r < Len(ctx.arguments) /\ i < argc
    BY DEF FoundLongInt, Comparing
  <1>2. found' = TRUE /\ SameButSet(ctx, ctx')
    BY <1>1, MarkSetDoes DEF FoundLongInt
  <1>3. argv' \in Seq(Words)
    BY CutDoes DEF FoundLongInt, LongOf
  <1>4. CASE Word.value \in NoValue
    <2>1. /\ i' = i /\ r' = r /\ argc' = argc /\ parse' = "crashed" /\ result' = result
          /\ memory' = memory
      BY <1>4 DEF FoundLongInt, Crash
    <2> QED
      BY <1>1, <1>2, <1>3, <2>1, LoopFacts DEF StepTyped
  <1>5. CASE Word.value \notin NoValue
    <2>1. /\ i' = i + 0 /\ r' = r + 1 /\ argc' = argc /\ parse' = parse /\ result' = result
          /\ DOMAIN memory' = DOMAIN memory
      BY <1>5 DEF FoundLongInt, GoOn
    <2> QED
      BY <1>1, <1>2, <1>3, <2>1, LoopFacts DEF StepTyped
  <1> QED
    BY <1>4, <1>5

LEMMA PassEntryTyped == CtrlInv /\ PassEntry => StepTyped
  <1> SUFFICES ASSUME CtrlInv, PassEntry PROVE StepTyped
    OBVIOUS
  <1>1. r < Len(ctx.arguments) /\ i < argc /\ ctx' = ctx /\ found' = found /\ memory' = memory
    BY DEF PassEntry, Comparing
  <1>2. i' = i + 0 /\ r' = r + 1 /\ argc' = argc /\ parse' = parse /\ result' = result
    BY DEF PassEntry, GoOn
  <1>3. argv' \in Seq(Words)
    <2>1. CASE Here.type = "int" /\ Word.form = "long"
      BY <2>1, CutDoes DEF PassEntry
    <2>2. CASE ~(Here.type = "int" /\ Word.form = "long")
      BY <2>2, LoopFacts DEF PassEntry
    <2> QED
      BY <2>1, <2>2
  <1> QED
    BY <1>1, <1>2, <1>3, LoopFacts DEF StepTyped

LEMMA NextWordTyped == CtrlInv /\ NextWord => StepTyped
  <1> SUFFICES ASSUME CtrlInv, NextWord PROVE StepTyped
    OBVIOUS
  <1>1. i' = i + 1 /\ r' = 0 /\ found' = FALSE /\ i < argc
    BY DEF NextWord, TableDone
  <1>2. UNCHANGED <<ctx, argc, argv, memory, parse, result>>
    BY DEF NextWord
  <1>3. i' \in Nat /\ 1 <= i' /\ i' <= argc /\ r' \in Nat /\ r' <= Len(ctx.arguments)
    BY <1>1, LoopFacts
  <1>4. found' \in BOOLEAN
    BY <1>1
  <1>5. /\ parse' \in {"loop", "callback", "returned", "crashed"} /\ result' \in {0, -1}
        /\ argc' \in Nat /\ argv' \in Seq(Words) /\ DOMAIN memory' = {"device", "value"}
    BY <1>2, LoopFacts
  <1>6. 1 <= argc' /\ argc' = argc /\ ctx' = ctx
    BY <1>1, <1>2, LoopFacts
  <1> QED
    BY <1>3, <1>4, <1>5, <1>6 DEF StepTyped

LEMMA UnknownWordTyped == CtrlInv /\ UnknownWord => StepTyped
  BY LoopFacts DEF UnknownWord, TableDone, Return, StepTyped

LEMMA WordsDoneTyped == CtrlInv /\ WordsDone => StepTyped
  <1> SUFFICES ASSUME CtrlInv, WordsDone PROVE StepTyped
    OBVIOUS
  <1>1. result' \in {0, -1}
    BY DEF WordsDone, Return
  <1>2. parse' = "returned" /\ UNCHANGED <<argc, i, r, ctx, argv, found, memory>>
    BY DEF WordsDone, Return
  <1> QED
    BY <1>1, <1>2, LoopFacts DEF StepTyped

LEMMA ParseTyped == CtrlInv /\ Parse => StepTyped /\ parse = "loop"
  <1> SUFFICES ASSUME CtrlInv, Parse PROVE StepTyped /\ parse = "loop"
    OBVIOUS
  <1>1. StepTyped
    BY NullWordTyped, FoundCommandTyped, FoundStringTyped, FoundFlagTyped, FoundShortIntTyped,
       FoundLongIntTyped, PassEntryTyped, NextWordTyped, UnknownWordTyped, WordsDoneTyped
       DEF Parse, ParseStep
  <1>2. parse = "loop"
    BY DEF Parse, ParseStep, NullWord, FoundCommand, FoundString, FoundFlag, FoundShortInt,
           FoundLongInt, PassEntry, NextWord, UnknownWord, WordsDone, Comparing, TableDone
  <1> QED
    BY <1>1, <1>2

LEMMA TypedKeeps ==
    ASSUME CtrlInv, StepTyped, UNCHANGED <<stage, line, command, opened, sent, err>>
    PROVE  Typed' /\ Room(ctx')
  <1>1. Room(ctx') /\ Len(ctx'.arguments) = Len(ctx.arguments)
    BY LoopFacts, SameShape DEF StepTyped, SameButSet
  <1>2. /\ i' \in 1..(argc' + 1) /\ r' \in 0..Len(ctx'.arguments)
        /\ argc' \in Nat /\ 1 <= argc' /\ i' <= argc'
    <2>1. PICK n \in Nat : n = Len(ctx.arguments)
      BY LoopFacts
    <2>2. /\ argc' \in Nat /\ 1 <= argc' /\ i' \in Nat /\ 1 <= i' /\ i' <= argc'
          /\ r' \in Nat /\ r' <= n
      BY <2>1 DEF StepTyped
    <2>3. i' \in 1..(argc' + 1)
      <3>1. \A a, b \in Nat : 1 <= b /\ b <= a => b \in 1..(a + 1)
        OBVIOUS
      <3> QED
        BY <2>2, <3>1
    <2>4. r' \in 0..n
      BY <2>1, <2>2
    <2> QED
      BY <1>1, <2>1, <2>2, <2>3, <2>4
  <1>3. /\ parse' \in {"loop", "callback", "returned", "crashed"} /\ result' \in {0, -1}
        /\ found' \in BOOLEAN /\ argv' \in Seq(Words) /\ DOMAIN memory' = {"device", "value"}
    BY DEF StepTyped
  <1>4. /\ stage \in {"main", "setter", "connect", "call", "close", "exit"}
        /\ err \in {-2, -1, 0, 255}
        /\ command \in Getters \cup DOMAIN Setters \cup {""}
        /\ sent # -1 => sent \in 0..(Setters[command].mod - 1)
    BY DEF CtrlInv, Typed, TypeOK
  <1>5. TypeOK'
    <2>1. Len(ctx'.arguments) <= ctx'.size
      BY <1>1 DEF Room
    <2> QED
      BY <1>2, <1>3, <1>4, <2>1 DEF TypeOK
  <1>6. line' \in Seq(Words)
    BY LoopFacts
  <1> QED
    BY <1>1, <1>2, <1>3, <1>5, <1>6 DEF Typed, Room
-----------------------------------------------------------------------------
(* A step of main's parser: it never crashes, and the words it has gone    *)
(* through name no command.                                                *)
LEMMA Parity ==
    \A n \in Nat : /\ n % 2 \in {0, 1}
                   /\ n % 2 = 0 <=> (n + 1) % 2 = 1
                   /\ n % 2 = 1 <=> (n + 1) % 2 = 0
                   /\ n % 2 = 0 => n # 1
  OBVIOUS

LEMMA NotNamed ==
    \A w : (\A k \in 1..15 : ~(w.form = "plain" /\ w.name = CommandNames[k])) => ~IsCommand(w)
  BY Commands DEF IsCommand

MainStep == /\ parse' # "crashed"
            /\ parse' = "loop" => Walking'
            /\ parse' = "callback" => Found'

LEMMA MainNullWord == ~(CtrlInv /\ stage = "main" /\ NullWord)
  BY MainWord, WordForms DEF NullWord, Comparing

LEMMA MainNoInt == ~(CtrlInv /\ stage = "main" /\ (FoundShortInt \/ FoundLongInt))
  BY MainHere DEF FoundShortInt, FoundLongInt, Comparing

LEMMA MainFlag == CtrlInv /\ stage = "main" /\ FoundFlag => MainStep
  BY DEF FoundFlag, Return, MainStep

LEMMA MainUnknownWord == CtrlInv /\ stage = "main" /\ UnknownWord => MainStep
  BY DEF UnknownWord, Return, MainStep

LEMMA MainWordsDone == CtrlInv /\ stage = "main" /\ WordsDone => MainStep
  BY DEF WordsDone, Return, MainStep

LEMMA WordsJoined == \A p, l \in Seq(Words) : Len(p \o l) = Len(p) + Len(l)
  BY ConcatProperties

LEMMA MainCommand ==
    ASSUME CtrlInv, stage = "main", FoundCommand, line' = line
    PROVE  MainStep
  <1>1. /\ parse = "loop" /\ i < argc /\ r < Len(ctx.arguments) /\ Here.type = "cmd"
        /\ Names(Word)
    BY DEF FoundCommand, Comparing
  <1>2. /\ i \in 1..Len(line) /\ Word = line[i] /\ argc = 1 + Len(line)
        /\ argv = <<Plain("conbeectrl")>> \o line /\ Len(line) \in Nat
    BY <1>1, MainWord
  <1>3. r \in 0..16 /\ r >= 2 /\ Here.name = CommandNames[r - 1]
    BY <1>1, MainHere
  <1>4. Here.name \in Getters \cup DOMAIN Setters
    <2>1. r - 1 \in 1..15
      BY <1>3
    <2> QED
      BY <1>3, <2>1, Commands
  <1>5. IsCommand(line[i]) /\ line[i].name = Here.name
    BY <1>1, <1>2, <1>4 DEF Names, IsCommand
  <1>6. Walking
    BY <1>1 DEF CtrlInv, InMain
  <1>7. First = i
    BY <1>2, <1>5, <1>6, FirstIs DEF Walking
  <1>8. argv' = SubSeq(line, i, Len(line))
    <2>1. PICK p : p = <<Plain("conbeectrl")>>
      OBVIOUS
    <2>2. p \in Seq(Words) /\ Len(p) = 1
      BY <2>1, ConbeectrlAssumption, WordForms, Single
    <2>3. PICK l \in Seq(Words) : l = line
      BY LoopFacts
    <2>4. PICK n \in Nat : n = Len(l)
      BY LenProperties
    <2>5. PICK m : m = i + 1 /\ m \in Int
      BY <1>2
    <2>6. Len(p \o l) = 1 + n
      <3>1. Len(p \o l) = Len(p) + Len(l)
        BY <2>2, <2>3, WordsJoined
      <3> QED
        BY <2>2, <2>4, <3>1
    <2>e. PICK e \in Int : e = 1 + n
      BY <2>4
    <2>7. m \in (Len(p) + 1)..(Len(p) + Len(l)) /\ e \in (Len(p) + 1)..(Len(p) + Len(l))
      BY <1>2, <2>2, <2>3, <2>4, <2>5, <2>e
    <2>l. l \in Seq(Words) /\ p \in Seq(Words)
      BY <2>2
    <2>8. SubSeq(p \o l, m, e) = SubSeq(l, m - Len(p), e - Len(p))
      BY <2>l, <2>7, SubSeqOfConcat2
    <2>9. m - Len(p) = i /\ 1 + n - Len(p) = n
      BY <1>2, <2>2, <2>4, <2>5
    <2>10. argv' = SubSeq(argv, i + 1, Len(argv))
      BY DEF FoundCommand
    <2> QED
      BY <1>2, <2>1, <2>3, <2>4, <2>5, <2>6, <2>e, <2>8, <2>9, <2>10
  <1>9. argc' = Len(line)
    BY <1>2 DEF FoundCommand, RestCount
  <1>10. parse' = "callback" /\ callback' = Here.name /\ i' = i /\ memory' = memory
    BY DEF FoundCommand
  <1>11. First' = i
    BY <1>7, FirstStays
  <1>12. memory'.device.word = DeviceAt(i)' /\ Behind(i)'
    BY <1>6, <1>10 DEF Walking, DeviceAt, Behind
  <1>13. Found'
    BY <1>2, <1>5, <1>8, <1>9, <1>10, <1>11, <1>12 DEF Found
  <1> QED
    BY <1>10, <1>13 DEF MainStep

LEMMA WordIs ==
    \A w \in Words : /\ w.form = "short" => w = Short(w.name)
                     /\ w.form = "long" => w = Long(w.name, w.value)
  <1> SUFFICES ASSUME NEW w \in Words
               PROVE  /\ w.form = "short" => w = Short(w.name)
                      /\ w.form = "long" => w = Long(w.name, w.value)
    OBVIOUS
  <1>1. /\ w = [form |-> w.form, name |-> w.name, value |-> w.value]
        /\ w.form # "long" => w.value = ""
    BY DEF Words
  <1>2. w.form = "short" => w = Short(w.name)
    <2>1. w.form = "short" => w.value = ""
      BY <1>1
    <2> QED
      BY <1>1, <2>1, Zenon DEF Short
  <1>3. w.form = "long" => w = Long(w.name, w.value)
    BY <1>1, Zenon DEF Long
  <1> QED
    BY <1>2, <1>3

LEMMA MainString ==
    ASSUME CtrlInv, stage = "main", FoundString, line' = line
    PROVE  MainStep
  <1>1. /\ parse = "loop" /\ i < argc /\ r < Len(ctx.arguments) /\ Here.type = "str"
        /\ ShortOf(Word) /\ argv' = argv
    BY DEF FoundString, Comparing
  <1>2. /\ i \in 1..Len(line) /\ Word = line[i] /\ argc = 1 + Len(line)
        /\ argv = <<Plain("conbeectrl")>> \o line /\ Len(line) \in Nat
        /\ i + 1 < argc => i + 1 \in 1..Len(line) /\ Arg(i + 1) = line[i + 1]
                           /\ line[i + 1] \in Words
    BY <1>1, MainWord
  <1>3. r = 1 /\ Here.target = "device" /\ Here.short = "d"
    BY <1>1, MainHere
  <1>4. Walking
    BY <1>1 DEF CtrlInv, InMain
  <1>5. CASE Return(-1)
    BY <1>5 DEF Return, MainStep
  <1>6. CASE /\ i + 1 < argc /\ Arg(i + 1) # NULL
             /\ memory' = [memory EXCEPT ![Here.target] =
                              Copy(Arg(i + 1), Length(Arg(i + 1)) < Here.maxchars)]
             /\ MarkSet /\ GoOn(1)
    <2>1. i' = i + 1 /\ r' = r + 1 /\ argc' = argc /\ parse' = parse /\ found' = TRUE
      BY <1>6 DEF GoOn, MarkSet
    <2>2. memory'.device.word = line[i + 1]
      <3>1. "device" \in DOMAIN memory
        BY LoopFacts
      <3>2. memory'.device = Copy(Arg(i + 1), Length(Arg(i + 1)) < Here.maxchars)
        BY <1>3, <1>6, <3>1
      <3> QED
        BY <1>2, <1>6, <3>2 DEF Copy
    <2>3. i % 2 = 1 /\ (i + 1) % 2 = 0 /\ i + 1 # 1
      <3>1. ~found /\ (found <=> i % 2 = 0) /\ i \in Nat /\ i >= 1
        BY <1>2, <1>3, <1>4 DEF Walking
      <3> QED
        BY <3>1, Parity
    <2>4. memory'.device.word = DeviceAt(i)'
      BY <2>1, <2>2, <2>3 DEF DeviceAt
    <2>5. ~IsCommand(line[i])
      BY <1>1, <1>2 DEF ShortOf, IsCommand
    <2>6. \A k \in 1..Len(line) : k < i + 1 => ~IsCommand(line[k])
      <3>1. \A k \in 1..Len(line) : k < i + 1 => k < i \/ k = i
        BY <1>2
      <3> QED
        BY <1>4, <2>5, <3>1 DEF Walking
    <2>7. Walking'
      <3>1. (found <=> i % 2 = 0)'
        BY <2>1, <2>3
      <3>2. (r <= 1 => ~found)' /\ (Passed(line[i]))'
        BY <1>3, <2>1 DEF Passed
      <3>3. (\A k \in 1..Len(line) : k < i => ~IsCommand(line[k]))'
        BY <2>1, <2>6 DEF IsCommand
      <3>4. (memory.device.word = DeviceAt(i) /\ Behind(i))'
        <4>1. Word \in Words /\ Word.form = "short" /\ Word.name = "d"
          BY <1>1, <1>2, <1>3, MainWord DEF ShortOf
        <4>2. line[i] = Short("d")
          BY <1>2, <4>1, WordIs
        <4>3. i' - 1 = i
          BY <1>2, <2>1
        <4>4. Behind(i)'
          BY <4>2, <4>3 DEF Behind
        <4> QED
          BY <2>4, <4>4
      <3>5. (argc = 1 + Len(line) /\ argv = <<Plain("conbeectrl")>> \o line)'
        BY <1>1, <1>2, <2>1
      <3> QED
        BY <3>1, <3>2, <3>3, <3>4, <3>5 DEF Walking
    <2> QED
      BY <1>1, <2>1, <2>7 DEF MainStep
  <1>7. CASE i + 1 < argc /\ Arg(i + 1) = NULL
    BY <1>2, <1>7, WordForms
  <1> QED
    BY <1>5, <1>6, <1>7 DEF FoundString

LEMMA MainPass ==
    ASSUME CtrlInv, stage = "main", PassEntry, line' = line
    PROVE  MainStep
  <1>1. parse = "loop" /\ i < argc /\ r < Len(ctx.arguments) /\ ~Fits(Word)
    BY DEF PassEntry, Comparing
  <1>2. /\ i \in 1..Len(line) /\ Word = line[i] /\ argc = 1 + Len(line)
        /\ argv = <<Plain("conbeectrl")>> \o line
    BY <1>1, MainWord
  <1>3. /\ r \in 0..16 /\ Here.type \in {"flag", "str", "cmd"}
        /\ Here.type = "flag" => r = 0
        /\ Here.type = "str" => r = 1
        /\ Here.type = "cmd" => Here.name = CommandNames[r - 1]
    BY <1>1, MainHere
  <1>4. Walking
    BY <1>1 DEF CtrlInv, InMain
  <1>5. /\ i' = i /\ r' = r + 1 /\ argc' = argc /\ parse' = parse /\ found' = found
        /\ memory' = memory /\ argv' = argv
    <2>1. i' = i + 0 /\ r' = r + 1 /\ argc' = argc /\ parse' = parse
      BY DEF PassEntry, GoOn
    <2>2. found' = found /\ memory' = memory /\ argv' = argv
      BY <1>3 DEF PassEntry
    <2> QED
      BY <1>2, <2>1, <2>2
  <1>6. \A k \in 1..15 : k + 2 <= r + 1 => ~(line[i].form = "plain" /\ line[i].name = CommandNames[k])
    <2> SUFFICES ASSUME NEW k \in 1..15, k + 2 <= r + 1
                 PROVE  ~(line[i].form = "plain" /\ line[i].name = CommandNames[k])
      OBVIOUS
    <2>1. CASE k + 2 <= r
      <3>1. Passed(line[i])
        BY <1>2, <1>4 DEF Walking
      <3> QED
        BY <2>1, <3>1 DEF Passed
    <2>2. CASE ~(k + 2 <= r)
      <3>1. k = r - 1 /\ r >= 2
        BY <1>3, <2>2
      <3>2. Here.type = "cmd"
        BY <1>3, <3>1
      <3>3. ~Names(line[i])
        BY <1>1, <1>2, <3>2 DEF Fits
      <3> QED
        BY <1>3, <3>1, <3>2, <3>3 DEF Names
    <2> QED
      BY <2>1, <2>2
  <1>7. r + 1 <= 1 => ~found
    <2>1. r + 1 <= 1 => r <= 1
      BY <1>3
    <2> QED
      BY <1>4, <2>1 DEF Walking
  <1>8. Walking'
    <2>1. (found <=> i % 2 = 0)' /\ (r <= 1 => ~found)'
      BY <1>4, <1>5, <1>7 DEF Walking
    <2>2. (Passed(line[i]))'
      BY <1>5, <1>6 DEF Passed
    <2>3. (\A k \in 1..Len(line) : k < i => ~IsCommand(line[k]))'
      BY <1>4, <1>5 DEF Walking, IsCommand
    <2>4. (memory.device.word = DeviceAt(i) /\ Behind(i))'
      BY <1>4, <1>5 DEF Walking, DeviceAt, Behind
    <2>5. (argc = 1 + Len(line) /\ argv = <<Plain("conbeectrl")>> \o line)'
      BY <1>2, <1>5
    <2> QED
      BY <2>1, <2>2, <2>3, <2>4, <2>5 DEF Walking
  <1> QED
    BY <1>1, <1>5, <1>8 DEF MainStep

LEMMA MainNextWord ==
    ASSUME CtrlInv, stage = "main", NextWord, line' = line
    PROVE  MainStep
  <1>1. parse = "loop" /\ i < argc /\ r = Len(ctx.arguments) /\ found
    BY DEF NextWord, TableDone
  <1>2. /\ i \in 1..Len(line) /\ Word = line[i] /\ argc = 1 + Len(line)
        /\ argv = <<Plain("conbeectrl")>> \o line
    BY <1>1, MainWord
  <1>3. r = 17
    BY <1>1 DEF CtrlInv, Stages, IsMain
  <1>4. Walking
    BY <1>1 DEF CtrlInv, InMain
  <1>5. /\ i' = i + 1 /\ r' = 0 /\ found' = FALSE
        /\ UNCHANGED <<argc, argv, memory, parse>>
    BY DEF NextWord
  <1>6. i % 2 = 0 /\ (i + 1) % 2 = 1 /\ i # 1 /\ i + 1 # 1 /\ i + 1 - 1 = i /\ i % 2 # 1
    <2>1. i % 2 = 0 /\ i \in Nat /\ i >= 1
      BY <1>1, <1>2, <1>4 DEF Walking
    <2> QED
      BY <2>1, Parity
  <1>7. ~IsCommand(line[i])
    <2>1. Passed(line[i])
      BY <1>2, <1>4 DEF Walking
    <2>2. \A k \in 1..15 : k + 2 <= r
      BY <1>3
    <2>3. \A k \in 1..15 : ~(line[i].form = "plain" /\ line[i].name = CommandNames[k])
      BY <2>1, <2>2 DEF Passed
    <2> QED
      BY <2>3, NotNamed
  <1>8. Walking'
    <2>1. (found <=> i % 2 = 0)' /\ (r <= 1 => ~found)'
      BY <1>5, <1>6
    <2>2. (Passed(line[i]))'
      BY <1>5 DEF Passed
    <2>3. (\A k \in 1..Len(line) : k < i => ~IsCommand(line[k]))'
      <3>1. \A k \in 1..Len(line) : k < i + 1 => k < i \/ k = i
        BY <1>2
      <3> QED
        BY <1>4, <1>5, <1>7, <3>1 DEF Walking, IsCommand
    <2>4. (memory.device.word = DeviceAt(i) /\ Behind(i))'
      <3>1. memory.device.word = line[i]
        BY <1>4, <1>6 DEF Walking, DeviceAt
      <3>2. i' # 1 /\ i' % 2 = 1 /\ i' - 1 = i
        <4>1. PICK j : j = i'
          OBVIOUS
        <4>2. j = i + 1 /\ i \in Nat
          BY <1>2, <1>5, <4>1
        <4>3. j \in Nat /\ j # 1 /\ j - 1 = i
          BY <1>6, <4>2
        <4>4. j % 2 = 1
          BY <1>6, <4>2
        <4> QED
          BY <4>1, <4>3, <4>4
      <3>3. DeviceAt(i)' = line'[i' - 1] /\ Behind(i)'
        BY <3>2 DEF DeviceAt, Behind
      <3> QED
        BY <1>5, <3>1, <3>2, <3>3
    <2>5. (argc = 1 + Len(line) /\ argv = <<Plain("conbeectrl")>> \o line)'
      BY <1>2, <1>5
    <2> QED
      BY <2>1, <2>2, <2>3, <2>4, <2>5 DEF Walking
  <1> QED
    BY <1>1, <1>5, <1>8 DEF MainStep

LEMMA MainParse ==
    ASSUME CtrlInv, stage = "main", ParseStep, line' = line
    PROVE  MainStep
  BY MainNullWord, MainNoInt, MainFlag, MainUnknownWord, MainWordsDone, MainCommand, MainString,
     MainPass, MainNextWord DEF ParseStep
-----------------------------------------------------------------------------
(* A step of a setter's parser: the device stays, a setter that comes      *)
(* first goes through the words of the line, and only as explained is      *)
(* there a NULL.                                                           *)
Explained ==
    /\ command \in DOMAIN Setters
    /\ \/ First > 1
       \/ /\ Option.type = "int"
          /\ \/ Last(line) = Short(Option.short)
             \/ \E k \in DOMAIN line : /\ line[k].form = "long" /\ line[k].name = Option.name
                                       /\ line[k].value \in NoValue

SetterStep ==
    /\ memory'.device = memory.device
    /\ First = 1 => argc' = Len(line) /\ (parse' # "crashed" => Own(argv', i', r'))
    /\ parse' = "crashed" => Explained

LEMMA SetterFirst ==
    ASSUME CtrlInv, stage = "setter"
    PROVE  /\ command \in DOMAIN Setters /\ First \in 1..Len(line) /\ Len(line) \in Nat
           /\ First = 1 => /\ argc = Len(line) /\ (parse # "crashed" => Own(argv, i, r))
                           /\ Option = Setters[command].option
  <1>1. command \in DOMAIN Setters
    BY DEF CtrlInv, Stages
  <1>2. command # ""
    BY <1>1, Commands
  <1>3. First \in 1..Len(line) /\ command = line[First].name
    BY <1>2 DEF CtrlInv, Runs
  <1>4. Len(line) \in Nat
    BY LoopFacts, LenProperties
  <1>5. First = 1 => argc = Len(line) /\ (parse # "crashed" => Own(argv, i, r))
    BY DEF CtrlInv, InSetter
  <1> QED
    BY <1>1, <1>3, <1>4, <1>5 DEF Option

LEMMA SetterLater == CtrlInv /\ stage = "setter" /\ First # 1 => Explained
  <1> SUFFICES ASSUME CtrlInv, stage = "setter", First # 1 PROVE Explained
    OBVIOUS
  <1>1. command \in DOMAIN Setters
    BY SetterFirst
  <1>2. PICK n \in Nat : n = Len(line)
    BY SetterFirst
  <1>3. PICK k \in 1..n : k = First
    BY <1>2, SetterFirst
  <1>4. First > 1
    BY <1>2, <1>3
  <1> QED
    BY <1>1, <1>4 DEF Explained

(* Where a setter comes first no word before argc is NULL.                 *)
LEMMA SetterWord ==
    ASSUME CtrlInv, stage = "setter", parse = "loop", First = 1
    PROVE  /\ \A k \in Nat : k < argc => Arg(k) # NULL
           /\ i < argc => /\ Word = argv[i + 1] /\ Word \in Words /\ i + 1 \in 1..Len(line)
                          /\ r <= 1 => Word = line[i + 1]
           /\ i < argc /\ Arg(i + 1) = NULL => i + 1 = Len(line)
  <1>1. PICK n \in Nat : n = Len(line)
    BY SetterFirst
  <1>2. argc = n /\ Len(argv) = n /\ Own(argv, i, r)
    BY <1>1, SetterFirst DEF Own
  <1>3. \A k \in Nat : k < argc => Arg(k) # NULL
    <2> SUFFICES ASSUME NEW k \in Nat, k < argc PROVE Arg(k) # NULL
      OBVIOUS
    <2>1. k \in 0..(Len(argv) - 1) /\ k \in Int
      BY <1>2
    <2> QED
      BY <2>1, ArgIsWord
  <1>4. ASSUME i < argc
        PROVE  /\ Word = argv[i + 1] /\ Word \in Words /\ i + 1 \in 1..Len(line)
               /\ r <= 1 => Word = line[i + 1]
    <2>1. i \in Nat
      BY LoopFacts
    <2>2. Arg(i) # NULL
      BY <1>3, <1>4, <2>1
    <2>3. Arg(i) = argv[i + 1] /\ Arg(i) \in Words /\ i + 1 \in 1..Len(argv)
      BY <2>1, <2>2, ArgIsWord
    <2>4. r <= 1 => argv[i + 1] = line[i + 1]
      BY <1>1, <1>2, <2>3 DEF Own
    <2> QED
      BY <1>1, <1>2, <2>3, <2>4 DEF Word
  <1>5. ASSUME i < argc, Arg(i + 1) = NULL PROVE i + 1 = Len(line)
    <2>1. i \in Nat
      BY LoopFacts
    <2>2. ~(i + 1 < argc)
      BY <1>3, <1>5, <2>1
    <2> QED
      BY <1>1, <1>2, <1>5, <2>1, <2>2
  <1> QED
    BY <1>3, <1>4, <1>5

LEMMA SetterNullWord == CtrlInv /\ stage = "setter" /\ NullWord => SetterStep
  <1> SUFFICES ASSUME CtrlInv, stage = "setter", NullWord PROVE SetterStep
    OBVIOUS
  <1>1. parse = "loop" /\ i < argc /\ Word = NULL /\ memory' = memory
    BY DEF NullWord, Comparing
  <1>2. First # 1
    <2>1. i \in Nat
      BY LoopFacts
    <2> QED
      BY <1>1, <2>1, SetterWord DEF Word
  <1>3. Explained
    BY <1>2, SetterLater
  <1> QED
    BY <1>1, <1>2, <1>3 DEF SetterStep

LEMMA SetterNoCommand == ~(CtrlInv /\ stage = "setter" /\ FoundCommand)
  BY SetterHere DEF FoundCommand, Comparing

LEMMA SetterString == CtrlInv /\ stage = "setter" /\ FoundString => SetterStep
  <1> SUFFICES ASSUME CtrlInv, stage = "setter", FoundString PROVE SetterStep
    OBVIOUS
  <1>1. /\ parse = "loop" /\ i < argc /\ r < Len(ctx.arguments) /\ Here.type = "str"
        /\ argv' = argv
    BY DEF FoundString, Comparing
  <1>2. r = 1 /\ Here.target = "value"
    BY <1>1, SetterHere
  <1>3. CASE Return(-1) /\ memory' = memory
    <2>1. parse' = "returned" /\ UNCHANGED <<argc, i, r>>
      BY <1>3 DEF Return
    <2> QED
      BY <1>1, <1>3, <2>1, SetterFirst DEF SetterStep
  <1>4. CASE /\ i + 1 < argc /\ Arg(i + 1) # NULL
             /\ memory' = [memory EXCEPT ![Here.target] =
                              Copy(Arg(i + 1), Length(Arg(i + 1)) < Here.maxchars)]
             /\ MarkSet /\ GoOn(1)
    <2>1. i' = i + 1 /\ r' = r + 1 /\ argc' = argc /\ parse' = parse
      BY <1>4 DEF GoOn
    <2>2. memory'.device = memory.device
      <3>1. "device" \in DOMAIN memory
        BY LoopFacts
      <3> QED
        BY <1>2, <1>4, <3>1
    <2>3. Own(argv, i, r) => Own(argv', i', r')
      <3>1. \A k \in Nat : (k > i + 1 + 1 \/ (k = i + 1 + 1 /\ r + 1 <= 1)) => k > i + 1
        BY LoopFacts
      <3> QED
        BY <1>1, <2>1, <3>1 DEF Own
    <2> QED
      BY <1>1, <2>1, <2>2, <2>3, SetterFirst DEF SetterStep
  <1>5. CASE i + 1 < argc /\ Arg(i + 1) = NULL /\ memory' = memory
    <2>1. First # 1
      <3>1. i + 1 \in Nat
        BY LoopFacts
      <3> QED
        BY <1>1, <1>5, <3>1, SetterWord
    <2>2. Explained
      BY <2>1, SetterLater
    <2> QED
      BY <1>5, <2>1, <2>2 DEF SetterStep
  <1> QED
    BY <1>3, <1>4, <1>5 DEF FoundString

LEMMA SetterFlag == CtrlInv /\ stage = "setter" /\ FoundFlag => SetterStep
  <1> SUFFICES ASSUME CtrlInv, stage = "setter", FoundFlag PROVE SetterStep
    OBVIOUS
  <1>1. parse = "loop" /\ parse' = "returned" /\ UNCHANGED <<argc, i, r, argv, memory>>
    BY DEF FoundFlag, Comparing, Return
  <1> QED
    BY <1>1, SetterFirst DEF SetterStep

LEMMA SetterShortInt == CtrlInv /\ stage = "setter" /\ FoundShortInt => SetterStep
  <1> SUFFICES ASSUME CtrlInv, stage = "setter", FoundShortInt PROVE SetterStep
    OBVIOUS
  <1>1. /\ parse = "loop" /\ i < argc /\ r < Len(ctx.arguments) /\ Here.type = "int"
        /\ argv' = argv /\ ShortOf(Word)
    BY DEF FoundShortInt, Comparing
  <1>2. /\ r = 1 /\ Here.target = "value" /\ Here.type = Setters[command].option.type
        /\ Here.short = Setters[command].option.short
    BY <1>1, SetterHere
  <1>3. CASE Arg(i + 1) = NULL
    <2>1. parse' = "crashed" /\ UNCHANGED <<argc, i, r, memory>>
      BY <1>3 DEF FoundShortInt, Crash
    <2>2. Explained
      <3>1. CASE First = 1
        <4>1. Option.type = "int" /\ Option.short = Here.short
          BY <1>1, <1>2, <3>1, SetterFirst
        <4>2. Word \in Words /\ Word = line[i + 1] /\ i + 1 = Len(line)
          BY <1>1, <1>2, <1>3, <3>1, SetterWord
        <4>3. Word = Short(Option.short)
          BY <1>1, <4>1, <4>2, WordIs DEF ShortOf
        <4>4. Last(line) = Short(Option.short)
          BY <4>2, <4>3 DEF Last
        <4> QED
          BY <4>1, <4>4, SetterFirst DEF Explained
      <3>2. CASE First # 1
        BY <3>2, SetterLater
      <3> QED
        BY <3>1, <3>2
    <2> QED
      BY <1>1, <2>1, <2>2, SetterFirst DEF SetterStep
  <1>4. CASE Arg(i + 1) # NULL
    <2>1. /\ i' = i + 1 /\ r' = r + 1 /\ argc' = argc /\ parse' = parse
          /\ memory' = [memory EXCEPT ![Here.target] = Copy(Arg(i + 1), TRUE)]
      BY <1>4 DEF FoundShortInt, GoOn
    <2>2. memory'.device = memory.device
      <3>1. "device" \in DOMAIN memory
        BY LoopFacts
      <3> QED
        BY <1>2, <2>1, <3>1
    <2>3. Own(argv, i, r) => Own(argv', i', r')
      <3>1. \A k \in Nat : (k > i + 1 + 1 \/ (k = i + 1 + 1 /\ r + 1 <= 1)) => k > i + 1
        BY LoopFacts
      <3> QED
        BY <1>1, <2>1, <3>1 DEF Own
    <2> QED
      BY <1>1, <2>1, <2>2, <2>3, SetterFirst DEF SetterStep
  <1> QED
    BY <1>3, <1>4

(* The next entry: what is cut is behind us.                               *)
LEMMA CutOwn ==
    ASSUME CtrlInv, stage = "setter", i' = i, r' = r + 1,
           \/ argv' = argv
           \/ r = 1 /\ Len(argv') = Len(argv)
              /\ \A k \in 1..Len(argv) : k # i + 1 => argv'[k] = argv[k]
    PROVE  Own(argv, i, r) => Own(argv', i', r')
  <1> SUFFICES ASSUME Own(argv, i, r) PROVE Own(argv', i', r')
    OBVIOUS
  <1>1. PICK n \in Nat : n = Len(line)
    BY SetterFirst
  <1>2. Len(argv) = n /\ i \in Nat /\ r \in Nat
    BY <1>1, LoopFacts DEF Own
  <1>3. Len(argv') = n
    BY <1>2
  <1>4. ASSUME NEW k \in 1..n, k > i + 1 \/ (k = i + 1 /\ r + 1 <= 1)
        PROVE  argv'[k] = line[k]
    <2>1. argv[k] = line[k]
      <3>1. k > i + 1 \/ (k = i + 1 /\ r <= 1)
        BY <1>2, <1>4
      <3> QED
        BY <1>1, <3>1 DEF Own
    <2>2. CASE argv' = argv
      BY <2>1, <2>2
    <2>3. CASE r = 1 /\ \A j \in 1..Len(argv) : j # i + 1 => argv'[j] = argv[j]
      <3>1. k # i + 1
        BY <1>2, <1>4, <2>3
      <3> QED
        BY <1>2, <2>1, <2>3, <3>1
    <2> QED
      BY <2>2, <2>3
  <1> QED
    BY <1>1, <1>3, <1>4 DEF Own

LEMMA SetterLongInt == CtrlInv /\ stage = "setter" /\ FoundLongInt => SetterStep
  <1> SUFFICES ASSUME CtrlInv, stage = "setter", FoundLongInt PROVE SetterStep
    OBVIOUS
  <1>1. /\ parse = "loop" /\ i < argc /\ r < Len(ctx.arguments) /\ Here.type = "int"
        /\ LongOf(Word) /\ Cut
    BY DEF FoundLongInt, Comparing
  <1>2. /\ r = 1 /\ Here.target = "value" /\ Here.type = Setters[command].option.type
        /\ Here.name = Setters[command].option.name
    BY <1>1, SetterHere
  <1>3. /\ Len(argv') = Len(argv)
        /\ \A k \in 1..Len(argv) : k # i + 1 => argv'[k] = argv[k]
    BY <1>1, CutDoes DEF LongOf
  <1>4. i \in Nat /\ r \in Nat /\ "device" \in DOMAIN memory
    BY LoopFacts
  <1>5. CASE Word.value \in NoValue
    <2>1. parse' = "crashed" /\ UNCHANGED <<argc, i, r, memory>>
      BY <1>5 DEF FoundLongInt, Crash
    <2>2. Explained
      <3>1. CASE First = 1
        <4>1. Option.type = "int" /\ Option.name = Here.name
          BY <1>1, <1>2, <3>1, SetterFirst
        <4>2. Word \in Words /\ Word = line[i + 1] /\ i + 1 \in 1..Len(line)
          BY <1>1, <1>2, <3>1, SetterWord
        <4>3. Word.form = "long" /\ Word.name = Option.name
          BY <1>1, <4>1 DEF LongOf
        <4>4. i + 1 \in DOMAIN line
          BY <4>2, LoopFacts, LenProperties
        <4> QED
          BY <1>5, <4>1, <4>2, <4>3, <4>4, SetterFirst DEF Explained
      <3>2. CASE First # 1
        BY <3>2, SetterLater
      <3> QED
        BY <3>1, <3>2
    <2> QED
      BY <2>1, <2>2, SetterFirst DEF SetterStep
  <1>6. CASE Word.value \notin NoValue
    <2>1. /\ i' = i + 0 /\ r' = r + 1 /\ argc' = argc /\ parse' = parse
          /\ memory' = [memory EXCEPT ![Here.target] = Copy(Plain(Word.value), TRUE)]
      BY <1>6 DEF FoundLongInt, GoOn
    <2>2. memory'.device = memory.device
      BY <1>2, <1>4, <2>1
    <2>3. i' = i
      BY <1>4, <2>1
    <2>4. Own(argv, i, r) => Own(argv', i', r')
      BY <1>2, <1>3, <2>1, <2>3, CutOwn
    <2> QED
      BY <1>1, <2>1, <2>2, <2>4, SetterFirst DEF SetterStep
  <1> QED
    BY <1>5, <1>6

LEMMA SetterPass == CtrlInv /\ stage = "setter" /\ PassEntry => SetterStep
  <1> SUFFICES ASSUME CtrlInv, stage = "setter", PassEntry PROVE SetterStep
    OBVIOUS
  <1>1. parse = "loop" /\ i < argc /\ r < Len(ctx.arguments) /\ memory' = memory
    BY DEF PassEntry, Comparing
  <1>2. i' = i /\ r' = r + 1 /\ argc' = argc /\ parse' = parse
    <2>1. i' = i + 0 /\ r' = r + 1 /\ argc' = argc /\ parse' = parse
      BY DEF PassEntry, GoOn
    <2> QED
      BY <2>1, LoopFacts
  <1>3. Own(argv, i, r) => Own(argv', i', r')
    <2>1. CASE Here.type = "int" /\ Word.form = "long"
      <3>1. Cut
        BY <2>1 DEF PassEntry
      <3>2. /\ Len(argv') = Len(argv)
            /\ \A k \in 1..Len(argv) : k # i + 1 => argv'[k] = argv[k]
        BY <2>1, <3>1, CutDoes
      <3>3. r = 1
        BY <1>1, <2>1, SetterHere
      <3> QED
        BY <1>2, <3>2, <3>3, CutOwn
    <2>2. CASE ~(Here.type = "int" /\ Word.form = "long")
      <3>1. argv' = argv
        BY <2>2 DEF PassEntry
      <3> QED
        BY <1>2, <3>1, CutOwn
    <2> QED
      BY <2>1, <2>2
  <1> QED
    BY <1>1, <1>2, <1>3, SetterFirst DEF SetterStep

LEMMA SetterNextWord == CtrlInv /\ stage = "setter" /\ NextWord => SetterStep
  <1> SUFFICES ASSUME CtrlInv, stage = "setter", NextWord PROVE SetterStep
    OBVIOUS
  <1>1. /\ parse = "loop" /\ i' = i + 1 /\ r' = 0
        /\ UNCHANGED <<argc, argv, memory, parse>>
    BY DEF NextWord, TableDone
  <1>2. Own(argv, i, r) => Own(argv', i', r')
    <2>1. \A k \in Nat : (k > i + 1 + 1 \/ k = i + 1 + 1) => k > i + 1
      BY LoopFacts
    <2> QED
      BY <1>1, <2>1 DEF Own
  <1> QED
    BY <1>1, <1>2, SetterFirst DEF SetterStep

LEMMA SetterReturns == CtrlInv /\ stage = "setter" /\ (UnknownWord \/ WordsDone) => SetterStep
  <1> SUFFICES ASSUME CtrlInv, stage = "setter", UnknownWord \/ WordsDone PROVE SetterStep
    OBVIOUS
  <1>1. parse = "loop" /\ parse' = "returned" /\ UNCHANGED <<argc, i, r, argv, memory>>
    BY DEF UnknownWord, WordsDone, TableDone, Return
  <1> QED
    BY <1>1, SetterFirst DEF SetterStep

LEMMA SetterParse == CtrlInv /\ stage = "setter" /\ ParseStep => SetterStep
  BY SetterNullWord, SetterNoCommand, SetterString, SetterFlag, SetterShortInt, SetterLongInt,
     SetterPass, SetterNextWord, SetterReturns DEF ParseStep
-----------------------------------------------------------------------------
(* The steps of the program.                                               *)
LEMMA DeviceStays == line' = line => \A k : DeviceAt(k)' = DeviceAt(k)
  BY DEF DeviceAt

LEMMA BehindStays == line' = line => \A k : Behind(k)' = Behind(k)
  BY DEF Behind

LEMMA OwnStays == line' = line => \A v, j, q : Own(v, j, q)' = Own(v, j, q)
  BY DEF Own

LEMMA ExplainedStays ==
    ASSUME line' = line, command' = command
    PROVE  Explained => Explained'
  BY FirstStays DEF Explained, Option

LEMMA ParseKeeps == CtrlInv /\ Parse => CtrlInv'
  <1> SUFFICES ASSUME CtrlInv, Parse PROVE CtrlInv'
    OBVIOUS
  <1>1. StepTyped /\ parse = "loop"
    BY ParseTyped
  <1>2. ParseStep /\ UNCHANGED <<stage, line, command, opened, sent, err>>
    BY DEF Parse
  <1>3. Typed'
    BY <1>1, <1>2, TypedKeeps
  <1>4. stage \in {"main", "setter"}
    BY <1>1 DEF CtrlInv, Stages
  <1>5. Stages /\ Runs
    BY DEF CtrlInv
  <1>6. ctx' = ctx \/ SameButSet(ctx, ctx')
    BY <1>1 DEF StepTyped
  <1>7. CASE stage = "main"
    <2>1. MainStep
      BY <1>2, <1>7, MainParse
    <2>2. command = "" /\ opened = "" /\ sent = -1
      BY <1>5, <1>7 DEF Stages
    <2>3. IsMain(ctx')
      BY <1>5, <1>6, <1>7, SameShape DEF Stages
    <2>4. Stages'
      BY <1>2, <1>7, <2>1, <2>2, <2>3 DEF Stages, MainStep
    <2>5. InMain'
      BY <2>1 DEF InMain, MainStep
    <2>6. Runs' /\ InSetter'
      BY <1>2, <1>7, <2>2 DEF Runs, InSetter
    <2>7. CrashesExplained'
      BY <2>1 DEF CrashesExplained, MainStep
    <2> QED
      BY <1>3, <2>4, <2>5, <2>6, <2>7 DEF CtrlInv
  <1>8. CASE stage = "setter"
    <2>1. SetterStep
      BY <1>2, <1>8, SetterParse
    <2>2. command \in DOMAIN Setters /\ command # "" /\ opened = "" /\ sent = -1
      BY <1>5, <1>8, Commands DEF Stages
    <2>3. IsSetter(ctx', Setters[command].option)
      BY <1>5, <1>6, <1>8, SameShape DEF Stages
    <2>4. Stages'
      BY <1>2, <1>8, <2>2, <2>3 DEF Stages
    <2>5. InMain'
      BY <1>2, <1>8 DEF InMain
    <2>6. Runs'
      <3>1. memory'.device.word = memory.device.word
        BY <2>1 DEF SetterStep
      <3>2. line' = line /\ command' = command /\ opened' = ""
        BY <1>2, <2>2
      <3>3. /\ First \in 1..Len(line) /\ command = line[First].name
            /\ memory.device.word = DeviceAt(First) /\ Behind(First)
        BY <1>5, <2>2 DEF Runs
      <3>4. memory'.device.word = DeviceAt(First)
        BY <3>1, <3>3
      <3>5. (First \in 1..Len(line) /\ command = line[First].name)'
        BY <3>2, <3>3, FirstStays
      <3>6. (memory.device.word = DeviceAt(First) /\ Behind(First))'
        BY <3>2, <3>3, <3>4, FirstStays, DeviceStays, BehindStays
      <3>7. (opened \in {"", DeviceAt(First).name})'
        BY <3>2
      <3> QED
        BY <3>5, <3>6, <3>7 DEF Runs
    <2>7. InSetter'
      BY <1>2, <2>1, FirstStays, OwnStays DEF InSetter, SetterStep
    <2>8. CrashesExplained'
      <3>1. parse' = "crashed" => Explained'
        BY <1>2, <2>1, ExplainedStays DEF SetterStep
      <3> QED
        BY <3>1 DEF CrashesExplained, Explained
    <2> QED
      BY <1>3, <2>4, <2>5, <2>6, <2>7, <2>8 DEF CtrlInv
  <1> QED
    BY <1>4, <1>7, <1>8

(* What stays where the parser does not move.                              *)
LEMMA TypedStays ==
    ASSUME CtrlInv, UNCHANGED <<parseVars, line>>,
           stage' \in {"main", "setter", "connect", "call", "close", "exit"},
           err' \in {-2, -1, 0, 255}, command' \in Getters \cup DOMAIN Setters \cup {""},
           sent' # -1 => sent' \in 0..(Setters[command'].mod - 1)
    PROVE  Typed'
  <1>1. UNCHANGED <<ctx, argc, argv, i, r, found, memory, parse, callback, result, line>>
    BY DEF parseVars
  <1>2. Typed
    BY DEF CtrlInv
  <1>3. TypeOK'
    <2>1. /\ parse \in {"loop", "callback", "returned", "crashed"}
          /\ Len(ctx.arguments) <= ctx.size
          /\ i \in 1..(argc + 1) /\ r \in 0..Len(ctx.arguments) /\ found \in BOOLEAN
          /\ result \in {0, -1}
      BY <1>2 DEF Typed, TypeOK
    <2>2. parse' \in {"loop", "callback", "returned", "crashed"} /\ result' \in {0, -1}
      BY <1>1, <2>1
    <2>3. Len(ctx'.arguments) <= ctx'.size /\ r' \in 0..Len(ctx'.arguments)
      BY <1>1, <2>1
    <2>4. i' \in 1..(argc' + 1) /\ found' \in BOOLEAN
      BY <1>1, <2>1
    <2> QED
      BY <2>2, <2>3, <2>4 DEF TypeOK
  <1> QED
    BY <1>1, <1>2, <1>3 DEF Typed

LEMMA RunsStays ==
    ASSUME Runs, command # "", UNCHANGED <<memory, line, command>>,
           opened' \in {"", DeviceAt(First).name}
    PROVE  Runs'
  <1>1. /\ First \in 1..Len(line) /\ command = line[First].name
        /\ memory.device.word = DeviceAt(First) /\ Behind(First)
    BY DEF Runs
  <1>2. (First \in 1..Len(line) /\ command = line[First].name)'
    BY <1>1, FirstStays
  <1>3. (memory.device.word = DeviceAt(First) /\ Behind(First))'
    BY <1>1, FirstStays, DeviceStays, BehindStays
  <1>4. (opened \in {"", DeviceAt(First).name})'
    BY FirstStays, DeviceStays
  <1> QED
    BY <1>2, <1>3, <1>4 DEF Runs

LEMMA LaterKeeps ==
    ASSUME CtrlInv, UNCHANGED <<parseVars, line, command>>, command # "",
           parse \in {"callback", "returned"},
           stage' \in {"connect", "call", "close", "exit"}, err' \in {-2, -1, 0, 255},
           opened' \in {"", DeviceAt(First).name},
           sent' # -1 => sent' \in 0..(Setters[command].mod - 1),
           stage' = "connect" => opened' = "", stage' \in {"connect", "call"} => sent' = -1
    PROVE  CtrlInv'
  <1>1. UNCHANGED <<memory, parse, line, command>>
    BY DEF parseVars
  <1>2. command \in Getters \cup DOMAIN Setters \cup {""}
    BY DEF CtrlInv, Typed, TypeOK
  <1>3. Typed'
    BY <1>1, <1>2, TypedStays
  <1>4. Stages'
    <2>1. stage' \notin {"main", "setter"} /\ command' # "" /\ parse' \in {"callback", "returned"}
      BY <1>1
    <2>2. (stage \in {"setter", "connect"} => opened = "")'
      OBVIOUS
    <2>3. (stage \in {"setter", "connect", "call"} => sent = -1)'
      OBVIOUS
    <2> QED
      BY <2>1, <2>2, <2>3 DEF Stages
  <1>5. InMain' /\ InSetter' /\ CrashesExplained'
    BY <1>1 DEF InMain, InSetter, CrashesExplained
  <1>6. Runs'
    <2>1. Runs
      BY DEF CtrlInv
    <2> QED
      BY <1>1, <2>1, RunsStays
  <1> QED
    BY <1>3, <1>4, <1>5, <1>6 DEF CtrlInv

LEMMA StageFacts ==
    ASSUME CtrlInv
    PROVE  /\ stage \in {"setter", "connect", "call", "close"} => command # ""
           /\ stage \in {"connect", "call", "close"} => parse \in {"callback", "returned"}
           /\ stage \in {"setter", "connect"} => opened = ""
           /\ stage \in {"setter", "connect", "call"} => sent = -1
           /\ command # "" => opened \in {"", DeviceAt(First).name}
                              /\ memory.device.word = DeviceAt(First)
           /\ err \in {-2, -1, 0, 255}
           /\ sent # -1 => sent \in 0..(Setters[command].mod - 1)
  <1>1. Stages /\ Runs /\ TypeOK
    BY DEF CtrlInv, Typed
  <1>2. err \in {-2, -1, 0, 255} /\ (sent # -1 => sent \in 0..(Setters[command].mod - 1))
    BY <1>1 DEF TypeOK
  <1>3. /\ stage \in {"setter", "connect", "call", "close"} => command # ""
        /\ stage \in {"connect", "call", "close"} => parse \in {"callback", "returned"}
        /\ stage \in {"setter", "connect"} => opened = ""
        /\ stage \in {"setter", "connect", "call"} => sent = -1
    BY <1>1 DEF Stages
  <1>4. command # "" => opened \in {"", DeviceAt(First).name}
                        /\ memory.device.word = DeviceAt(First)
    BY <1>1 DEF Runs
  <1> QED
    BY <1>2, <1>3, <1>4

LEMMA SetterParsedKeeps == CtrlInv /\ SetterParsed => CtrlInv'
  <1> SUFFICES ASSUME CtrlInv, SetterParsed PROVE CtrlInv'
    OBVIOUS
  <1>1. /\ stage = "setter" /\ parse = "returned" /\ stage' \in {"connect"}
        /\ UNCHANGED <<parseVars, line, command>>
    BY DEF SetterParsed
  <1>2. /\ command # "" /\ parse \in {"callback", "returned"}
        /\ opened = ""
    BY <1>1, StageFacts
  <1>3. /\ opened' \in {"", DeviceAt(First).name}
        /\ stage' = "connect" => opened' = ""
    BY <1>2 DEF SetterParsed
  <1>4. /\ sent' # -1 => sent' \in 0..(Setters[command].mod - 1)
        /\ stage' \in {"connect", "call"} => sent' = -1
    BY <1>1, StageFacts DEF SetterParsed
  <1>5. err' \in {-2, -1, 0, 255} /\ stage' \in {"connect", "call", "close", "exit"}
    BY <1>1, StageFacts DEF SetterParsed
  <1> QED
    BY <1>1, <1>2, <1>3, <1>4, <1>5, LaterKeeps

LEMMA ConnectKeeps == CtrlInv /\ Connect => CtrlInv'
  <1> SUFFICES ASSUME CtrlInv, Connect PROVE CtrlInv'
    OBVIOUS
  <1>1. /\ stage = "connect" /\ stage' \in {"call", "exit"}
        /\ UNCHANGED <<parseVars, line, command>>
    BY DEF Connect
  <1>2. /\ command # "" /\ parse \in {"callback", "returned"}
        /\ opened \in {"", DeviceAt(First).name} /\ memory.device.word = DeviceAt(First)
    BY <1>1, StageFacts
  <1>3. /\ opened' \in {"", DeviceAt(First).name}
        /\ stage' = "connect" => opened' = ""
    BY <1>1, <1>2 DEF Connect
  <1>4. /\ sent' # -1 => sent' \in 0..(Setters[command].mod - 1)
        /\ stage' \in {"connect", "call"} => sent' = -1
    BY <1>1, StageFacts DEF Connect
  <1>5. err' \in {-2, -1, 0, 255} /\ stage' \in {"connect", "call", "close", "exit"}
    BY <1>1, StageFacts DEF Connect
  <1> QED
    BY <1>1, <1>2, <1>3, <1>4, <1>5, LaterKeeps

LEMMA CallGetterKeeps == CtrlInv /\ CallGetter => CtrlInv'
  <1> SUFFICES ASSUME CtrlInv, CallGetter PROVE CtrlInv'
    OBVIOUS
  <1>1. /\ stage = "call" /\ stage' \in {"close"}
        /\ UNCHANGED <<parseVars, line, command>>
    BY DEF CallGetter
  <1>2. /\ command # "" /\ parse \in {"callback", "returned"}
        /\ opened \in {"", DeviceAt(First).name} /\ memory.device.word = DeviceAt(First)
    BY <1>1, StageFacts
  <1>3. /\ opened' \in {"", DeviceAt(First).name}
        /\ stage' = "connect" => opened' = ""
    BY <1>1, <1>2 DEF CallGetter
  <1>4. /\ sent' # -1 => sent' \in 0..(Setters[command].mod - 1)
        /\ stage' \in {"connect", "call"} => sent' = -1
    BY <1>1, StageFacts DEF CallGetter
  <1>5. err' \in {-2, -1, 0, 255} /\ stage' \in {"connect", "call", "close", "exit"}
    BY <1>1, StageFacts DEF CallGetter
  <1> QED
    BY <1>1, <1>2, <1>3, <1>4, <1>5, LaterKeeps

LEMMA CloseKeeps == CtrlInv /\ Close => CtrlInv'
  <1> SUFFICES ASSUME CtrlInv, Close PROVE CtrlInv'
    OBVIOUS
  <1>1. /\ stage = "close" /\ stage' \in {"exit"}
        /\ UNCHANGED <<parseVars, line, command>>
    BY DEF Close
  <1>2. /\ command # "" /\ parse \in {"callback", "returned"}
        /\ opened \in {"", DeviceAt(First).name} /\ memory.device.word = DeviceAt(First)
    BY <1>1, StageFacts
  <1>3. /\ opened' \in {"", DeviceAt(First).name}
        /\ stage' = "connect" => opened' = ""
    BY <1>1, <1>2 DEF Close
  <1>4. /\ sent' # -1 => sent' \in 0..(Setters[command].mod - 1)
        /\ stage' \in {"connect", "call"} => sent' = -1
    BY <1>1, StageFacts DEF Close
  <1>5. err' \in {-2, -1, 0, 255} /\ stage' \in {"connect", "call", "close", "exit"}
    BY <1>1, StageFacts DEF Close
  <1> QED
    BY <1>1, <1>2, <1>3, <1>4, <1>5, LaterKeeps

(* The number a setter gives the library is an integer.                    *)
LEMMA LongsFacts == LONG_MIN \in Int /\ LONG_MAX \in Int /\ \A n \in Longs : n \in Int
  <1>1. PICK m \in Nat : m = LongMod /\ m # 0
    BY ConbeectrlAssumption
  <1>2. m \div 2 \in Int
    BY <1>1
  <1>3. LONG_MIN \in Int /\ LONG_MAX \in Int
    BY <1>1, <1>2 DEF LONG_MIN, LONG_MAX
  <1> QED
    BY <1>3 DEF Longs

LEMMA NumberInt ==
    \A w : NumberIn(Decimal, w) \in Int /\ NumberIn(Hexadecimal, w) \in Int
  BY ConbeectrlAssumption DEF NumberIn

LEMMA ValuesInt == \A option : \A value \in ValuesOf(option) : value \in Int
  <1> SUFFICES ASSUME NEW option, NEW value \in ValuesOf(option) PROVE value \in Int
    OBVIOUS
  <1>1. CASE value \in Longs
    BY <1>1, LongsFacts
  <1>2. \A w : strtol(Decimal, w) \in Int /\ strtol(Hexadecimal, w) \in Int
    BY LongsFacts, NumberInt DEF strtol
  <1>3. CASE value = strtol(Decimal, memory.value.word) % IntMod
    <2>1. PICK n \in Int : n = strtol(Decimal, memory.value.word)
      BY <1>2
    <2>2. PICK m \in Nat : m = IntMod /\ m # 0
      BY ConbeectrlAssumption
    <2>3. n % m \in Int
      BY <2>2
    <2> QED
      BY <1>3, <2>1, <2>2, <2>3
  <1>4. CASE value = strtol(Hexadecimal, memory.value.word)
    BY <1>2, <1>4
  <1> QED
    BY <1>1, <1>3, <1>4 DEF ValuesOf

LEMMA CallSetterKeeps == CtrlInv /\ CallSetter => CtrlInv'
  <1> SUFFICES ASSUME CtrlInv, CallSetter PROVE CtrlInv'
    OBVIOUS
  <1>1. /\ stage = "call" /\ command \in DOMAIN Setters /\ err' \in {0, -1} /\ stage' = "close"
        /\ UNCHANGED <<parseVars, line, command, opened>>
    BY DEF CallSetter
  <1>2. PICK value \in ValuesOf(Setters[command].option) : sent' = value % Setters[command].mod
    BY DEF CallSetter
  <1>3. sent' \in 0..(Setters[command].mod - 1)
    <2>1. PICK n \in Int : n = value
      BY ValuesInt
    <2>2. PICK m \in Nat : m = Setters[command].mod /\ m # 0
      BY <1>1, SetterFacts
    <2>3. n % m \in 0..(m - 1)
      BY <2>2
    <2> QED
      BY <1>2, <2>1, <2>2, <2>3
  <1>4. /\ command # "" /\ parse \in {"callback", "returned"}
        /\ opened' \in {"", DeviceAt(First).name}
    BY <1>1, StageFacts
  <1> QED
    BY <1>1, <1>3, <1>4, LaterKeeps

(* main's own steps.                                                       *)
LEMMA RunGetterKeeps == CtrlInv /\ RunGetter => CtrlInv'
  <1> SUFFICES ASSUME CtrlInv, RunGetter PROVE CtrlInv'
    OBVIOUS
  <1>1. /\ stage = "main" /\ parse = "callback" /\ callback \in Getters
        /\ command' = callback /\ stage' = "connect"
        /\ UNCHANGED <<parseVars, line, opened, sent, err>>
    BY DEF RunGetter
  <1>2. UNCHANGED <<memory, parse, line>>
    BY <1>1 DEF parseVars
  <1>3. Found /\ command = ""
    BY <1>1 DEF CtrlInv, InMain, Stages
  <1>4. opened = "" /\ sent = -1
    BY <1>3 DEF CtrlInv, Stages
  <1>5. Typed'
    BY <1>1, <1>4, StageFacts, TypedStays
  <1>6. Stages'
    BY <1>1, <1>2, <1>4, Commands DEF Stages
  <1>7. InMain' /\ InSetter' /\ CrashesExplained'
    BY <1>1, <1>2 DEF InMain, InSetter, CrashesExplained
  <1>8. Runs'
    <2>1. /\ First \in 1..Len(line) /\ callback = line[First].name
          /\ memory.device.word = DeviceAt(First) /\ Behind(First)
      BY <1>3 DEF Found
    <2> QED
      BY <1>1, <1>2, <1>4, <2>1, FirstStays, DeviceStays, BehindStays DEF Runs
  <1> QED
    BY <1>5, <1>6, <1>7, <1>8 DEF CtrlInv

LEMMA RunSetterKeeps == CtrlInv /\ RunSetter => CtrlInv'
  <1> SUFFICES ASSUME CtrlInv, RunSetter PROVE CtrlInv'
    OBVIOUS
  <1>1. /\ stage = "main" /\ parse = "callback" /\ callback \in DOMAIN Setters
        /\ command' = callback /\ stage' = "setter"
        /\ memory' = [memory EXCEPT !.value = Uninitialised]
        /\ UNCHANGED <<line, opened, sent, err>>
    BY DEF RunSetter
  <1>2. /\ ctx' = Table(<<Setters[callback].option>>) /\ argc' = argc /\ argv' = argv
        /\ i' = 1 /\ r' = 0 /\ found' = FALSE /\ parse' = "loop" /\ result' = 0
    BY DEF RunSetter, ParseStart
  <1>3. Found /\ command = ""
    BY <1>1 DEF CtrlInv, InMain, Stages
  <1>4. opened = "" /\ sent = -1
    BY <1>3 DEF CtrlInv, Stages
  <1>5. Room(ctx') /\ IsSetter(ctx', Setters[callback].option)
    <2>1. Setters[callback].option \in Entries /\ IsOption(Setters[callback].option)
      BY <1>1, SetterFacts DEF IsOption
    <2> QED
      BY <1>2, <2>1, SetterTableFacts
  <1>6. DOMAIN memory' = {"device", "value"} /\ memory'.device = memory.device
    BY <1>1, LoopFacts
  <1>7. Typed'
    <2>1. Len(ctx'.arguments) \in Nat /\ Len(ctx'.arguments) <= ctx'.size /\ ctx' \in Tables
      BY <1>5, LenProperties DEF Room, Tables
    <2>2. argc' \in Nat /\ 1 <= argc'
      BY <1>2, LoopFacts
    <2>3. i' \in 1..(argc' + 1) /\ i' <= argc' /\ r' \in 0..Len(ctx'.arguments)
      <3>1. \A a \in Nat : 1 <= a => 1 \in 1..(a + 1)
        OBVIOUS
      <3>2. \A a \in Nat : 0 \in 0..a
        OBVIOUS
      <3> QED
        BY <1>2, <2>1, <2>2, <3>1, <3>2
    <2>4. err' \in {-2, -1, 0, 255} /\ sent' = -1 /\ command' \in Getters \cup DOMAIN Setters
      BY <1>1, <1>4, StageFacts
    <2>5. found' \in BOOLEAN
      BY <1>2
    <2>6. TypeOK'
      BY <1>1, <1>2, <2>1, <2>3, <2>4, <2>5 DEF TypeOK
    <2>7. argv' \in Seq(Words) /\ line' \in Seq(Words)
      BY <1>1, <1>2, LoopFacts
    <2> QED
      BY <1>6, <2>1, <2>2, <2>3, <2>6, <2>7 DEF Typed
  <1>8. Stages'
    BY <1>1, <1>2, <1>4, <1>5, Commands DEF Stages
  <1>9. InMain' /\ CrashesExplained'
    BY <1>1, <1>2 DEF InMain, CrashesExplained
  <1>10. Runs'
    <2>1. /\ First \in 1..Len(line) /\ callback = line[First].name
          /\ memory.device.word = DeviceAt(First) /\ Behind(First)
      BY <1>3 DEF Found
    <2>2. memory'.device.word = DeviceAt(First)
      BY <1>6, <2>1
    <2> QED
      BY <1>1, <1>4, <2>1, <2>2, FirstStays, DeviceStays, BehindStays DEF Runs
  <1>11. InSetter'
    <2> SUFFICES ASSUME First = 1
                 PROVE  /\ argc' = Len(line) /\ Len(argv') = Len(line)
                        /\ \A k \in 1..Len(line) : argv'[k] = line[k]
      BY <1>1, FirstStays DEF InSetter, Own
    <2>1. i = 1 /\ argc = Len(line) /\ argv = SubSeq(line, 1, Len(line))
      BY <1>3 DEF Found
    <2>2. SubSeq(line, 1, Len(line)) = line
      BY LoopFacts, SubSeqFull
    <2> QED
      BY <1>2, <2>1, <2>2
  <1> QED
    BY <1>7, <1>8, <1>9, <1>10, <1>11 DEF CtrlInv

LEMMA NoCommandKeeps == CtrlInv /\ NoCommand => CtrlInv'
  <1> SUFFICES ASSUME CtrlInv, NoCommand PROVE CtrlInv'
    OBVIOUS
  <1>1. /\ stage = "main" /\ parse = "returned" /\ stage' = "exit"
        /\ UNCHANGED <<parseVars, line, command, opened, sent, err>>
    BY DEF NoCommand
  <1>2. UNCHANGED <<memory, parse, line>>
    BY <1>1 DEF parseVars
  <1>3. command = "" /\ opened = "" /\ sent = -1
    BY <1>1 DEF CtrlInv, Stages
  <1>4. Typed'
    <2>1. /\ err \in {-2, -1, 0, 255}
          /\ sent # -1 => sent \in 0..(Setters[command].mod - 1)
      BY StageFacts
    <2>2. /\ err' \in {-2, -1, 0, 255}
          /\ sent' # -1 => sent' \in 0..(Setters[command'].mod - 1)
      BY <1>1, <2>1
    <2>3. /\ stage' \in {"main", "setter", "connect", "call", "close", "exit"}
          /\ command' \in Getters \cup DOMAIN Setters \cup {""}
      BY <1>1, <1>3
    <2> QED
      BY <1>1, <2>2, <2>3, TypedStays
  <1>5. Stages'
    BY <1>1, <1>2, <1>3 DEF Stages
  <1>6. InMain' /\ InSetter' /\ CrashesExplained' /\ Runs'
    BY <1>1, <1>2, <1>3 DEF InMain, InSetter, CrashesExplained, Runs
  <1> QED
    BY <1>4, <1>5, <1>6 DEF CtrlInv

LEMMA StutterKeeps == CtrlInv /\ UNCHANGED vars => CtrlInv'
  <1> SUFFICES ASSUME CtrlInv, UNCHANGED vars PROVE CtrlInv'
    OBVIOUS
  <1>1. UNCHANGED <<parseVars, stage, line, command, opened, sent, err>>
    BY DEF vars
  <1>2. UNCHANGED <<ctx, argc, argv, i, r, found, memory, parse, callback, result, line>>
    BY <1>1 DEF parseVars
  <1>3. /\ stage \in {"main", "setter", "connect", "call", "close", "exit"}
        /\ command \in Getters \cup DOMAIN Setters \cup {""}
    BY DEF CtrlInv, Typed, TypeOK
  <1>4. Typed'
    <2>1. /\ err \in {-2, -1, 0, 255}
          /\ sent # -1 => sent \in 0..(Setters[command].mod - 1)
      BY StageFacts
    <2>2. /\ err' \in {-2, -1, 0, 255}
          /\ sent' # -1 => sent' \in 0..(Setters[command'].mod - 1)
      BY <1>1, <2>1
    <2>3. /\ stage' \in {"main", "setter", "connect", "call", "close", "exit"}
          /\ command' \in Getters \cup DOMAIN Setters \cup {""}
      BY <1>1, <1>3
    <2> QED
      BY <1>1, <2>2, <2>3, TypedStays
  <1>5. Stages'
    BY <1>1, <1>2 DEF CtrlInv, Stages
  <1>6. InMain'
    <2>1. (Walking => Walking') /\ (Found => Found')
      BY <1>2, FirstStays, DeviceStays, BehindStays DEF Walking, Found, Passed, IsCommand
    <2> QED
      BY <1>1, <1>2, <2>1 DEF CtrlInv, InMain
  <1>7. Runs'
    BY <1>1, <1>2, FirstStays, DeviceStays, BehindStays DEF CtrlInv, Runs
  <1>8. InSetter'
    BY <1>1, <1>2, FirstStays, OwnStays DEF CtrlInv, InSetter
  <1>9. CrashesExplained'
    <2>1. parse = "crashed" => Explained
      BY DEF CtrlInv, CrashesExplained, Explained
    <2>2. parse' = "crashed" => Explained'
      BY <1>1, <1>2, <2>1, ExplainedStays
    <2> QED
      BY <2>2 DEF CrashesExplained, Explained
  <1> QED
    BY <1>4, <1>5, <1>6, <1>7, <1>8, <1>9 DEF CtrlInv

LEMMA InitHolds == Init => CtrlInv
  <1> SUFFICES ASSUME Init PROVE CtrlInv
    OBVIOUS
  <1>1. line \in Seq(Words)
    BY ConbeectrlAssumption DEF Init
  <1>2. PICK n \in Nat : n = Len(line)
    BY <1>1, LenProperties
  <1>3. /\ ctx = MainTable /\ argv = <<Plain("conbeectrl")>> \o line
        /\ parse = "loop" /\ callback = "" /\ result = 0
        /\ stage = "main" /\ command = "" /\ opened = "" /\ sent = -1 /\ err = -2
    BY DEF Init
  <1>i. i = 1 /\ r = 0 /\ argc = 1 + n
    BY <1>2 DEF Init
  <1>f. found = FALSE
    BY DEF Init
  <1>4. Room(ctx) /\ IsMain(ctx)
    BY <1>3, MainTableFacts
  <1>5. /\ DOMAIN memory = {"device", "value"}
        /\ memory.device.word = Plain(DefaultDevice)
    BY DEF Init, Copy
  <1>6. argv \in Seq(Words)
    BY <1>1, <1>3, ProgramName DEF WordsOf
  <1>7. Typed
    <2>1. Len(ctx.arguments) \in Nat /\ Len(ctx.arguments) <= ctx.size /\ ctx \in Tables
      BY <1>4, LenProperties DEF Room, Tables
    <2>2. argc \in Nat /\ 1 <= argc /\ i <= argc /\ i \in 1..(argc + 1)
      BY <1>2, <1>i
    <2>3. r \in 0..Len(ctx.arguments)
      BY <1>i, <2>1
    <2>4. found \in BOOLEAN
      BY <1>f
    <2>5. TypeOK
      BY <1>3, <2>1, <2>2, <2>3, <2>4 DEF TypeOK
    <2> QED
      BY <1>1, <1>5, <1>6, <2>1, <2>2, <2>5 DEF Typed
  <1>8. Stages
    BY <1>3, <1>4 DEF Stages
  <1>9. InMain
    <2>1. 1 % 2 = 1
      OBVIOUS
    <2>2. found <=> i % 2 = 0
      BY <1>f, <1>i, <2>1
    <2>3. \A k \in 1..Len(line) : k < i => ~IsCommand(line[k])
      BY <1>2, <1>i
    <2>4. i <= Len(line) => Passed(line[i])
      <3>1. \A k \in 1..15 : ~(k + 2 <= r)
        BY <1>i
      <3> QED
        BY <3>1 DEF Passed
    <2>5. memory.device.word = DeviceAt(i) /\ Behind(i)
      BY <1>i, <1>5, <2>1 DEF DeviceAt, Behind
    <2>6. Walking
      BY <1>2, <1>3, <1>f, <1>i, <2>2, <2>3, <2>4, <2>5 DEF Walking
    <2> QED
      BY <1>3, <2>6 DEF InMain
  <1>10. Runs /\ InSetter /\ CrashesExplained
    BY <1>3 DEF Runs, InSetter, CrashesExplained
  <1> QED
    BY <1>7, <1>8, <1>9, <1>10 DEF CtrlInv

LEMMA NextKeeps == CtrlInv /\ [Next]_vars => CtrlInv'
  BY ParseKeeps, RunGetterKeeps, RunSetterKeeps, SetterParsedKeeps, ConnectKeeps,
     CallGetterKeeps, CallSetterKeeps, CloseKeeps, NoCommandKeeps, StutterKeeps DEF Next

LEMMA Inductive == Spec => []CtrlInv
  <1>1. Init => CtrlInv
    BY InitHolds
  <1>2. CtrlInv /\ [Next]_vars => CtrlInv'
    BY NextKeeps
  <1> QED
    BY <1>1, <1>2, PTL DEF Spec
-----------------------------------------------------------------------------
(* Types: the word index of argparse_parse stays inside the line it was    *)
(* given, the table in its memory whatever it grows by, and a setter sends *)
(* a number of its parameter's width, whatever memory it reads.            *)
THEOREM TypeCorrect == Spec => []TypeOK
  <1>1. CtrlInv => TypeOK
    BY DEF CtrlInv, Typed
  <1> QED
    BY <1>1, Inductive, PTL

LEMMA EvenIndex ==
    \A n \in Nat : \A k \in 1..n :
       k > 0 /\ (k % 2 = 1 \/ (k % 2 = 0 /\ k - 1 \in 1..n /\ ~(k - 1 + 1 < k)))
  OBVIOUS

(* For a line of any length that puts its devices in front: the command    *)
(* that runs is the first word that names one, on the device of the last   *)
(* -d, and no other word, nor the setter's own parse, changes either.      *)
THEOREM FirstCommandAlwaysRuns == Spec => []FirstCommandRuns
  <1>1. CtrlInv => FirstCommandRuns
    <2> SUFFICES ASSUME CtrlInv, opened # "", DevicesInFront PROVE
                    /\ First > 0 /\ command = line[First].name
                    /\ opened = IF First = 1 THEN DefaultDevice ELSE line[First - 1].name
      BY DEF FirstCommandRuns
    <2>1. command # ""
      BY DEF CtrlInv, Stages
    <2>2. /\ First \in 1..Len(line) /\ command = line[First].name
          /\ opened = DeviceAt(First).name /\ Behind(First)
      BY <2>1 DEF CtrlInv, Runs
    <2>3. PICK n \in Nat : n = Len(line) /\ DOMAIN line = 1..n
      BY LoopFacts, LenProperties
    <2>4. PICK f \in 1..n : f = First
      BY <2>2, <2>3
    <2>5. f % 2 = 1
      <3> SUFFICES ASSUME f % 2 # 1 PROVE FALSE
        OBVIOUS
      <3>1. f % 2 = 0 /\ f - 1 \in 1..n /\ ~(f - 1 + 1 < f)
        BY EvenIndex
      <3>2. line[f - 1] = Short("d")
        BY <2>2, <2>4, <3>1 DEF Behind
      <3> QED
        BY <2>3, <2>4, <3>1, <3>2 DEF DevicesInFront
    <2>6. Plain(DefaultDevice).name = DefaultDevice
      BY DEF Plain
    <2>7. First > 0
      BY <2>4, EvenIndex
    <2> QED
      BY <2>2, <2>4, <2>5, <2>6, <2>7 DEF DeviceAt
  <1> QED
    BY <1>1, Inductive, PTL

(* For a line of any length: argparse_parse reads a NULL only where a      *)
(* setter does not come first or its integer option has no value; main's   *)
(* own parse never does.                                                   *)
THEOREM CrashesAreExplained == Spec => []CrashesExplained
  <1>1. CtrlInv => CrashesExplained
    BY DEF CtrlInv
  <1> QED
    BY <1>1, Inductive, PTL
-----------------------------------------------------------------------------
(* What a setter that comes first makes of a line that uses its option as  *)
(* documented.  The value it holds for the use that ends with word k:      *)
Value(options, k) ==
    IF k \in options THEN Copy(Plain(line[k].value), TRUE)
    ELSE Copy(line[k], Option.type = "int" \/ Length(line[k]) < Option.maxchars)

(* The loop stands before a use of the option, the last one has been read; *)
(* or it has just read one, which ends with word k.                        *)
BeforeUse(options) == /\ i < Len(line) => i + 1 \in options
                      /\ i > 1 => memory.value = Value(options, i)
BehindUse(options, k) == /\ found /\ k > 1 /\ k <= Len(line)
                         /\ k \in options => line[k].form = "long"
                         /\ memory.value = Value(options, k)
Reading(options) ==
    /\ parse \in {"loop", "returned"}
    /\ parse = "returned" => memory.value = Value(options, Len(line))
    /\ parse = "loop" => /\ r <= 1 => BeforeUse(options)
                         /\ r > 1  => BehindUse(options, i + 1)
GivenInv ==
    /\ \A options \in SUBSET DOMAIN line : Uses(options) =>
          /\ stage = "setter" => Reading(options)
          /\ stage \in {"connect", "call"} => memory.value = Value(options, Len(line))
    /\ GivenIsSent

LEMMA ShortIs == \A t : Short(t).form = "short" /\ Short(t).name = t
  BY DEF Short

LEMMA NoHelp ==
    \A c \in DOMAIN Setters : /\ Setters[c].option.short # "h"
                              /\ Setters[c].option.name # "help"
                              /\ Setters[c].option.type = "int" => Setters[c].mod = ByteMod
  <1>1. /\ set_network_mode.option.short = "m" /\ set_network_mode.option.name = "mode"
        /\ set_network_mode.mod = ByteMod
    BY DEF set_network_mode, ArgInt, Entry
  <1>2. /\ set_security_mode.option.short = "m" /\ set_security_mode.option.name = "mode"
        /\ set_security_mode.mod = ByteMod
    BY DEF set_security_mode, ArgInt, Entry
  <1>3. /\ set_channel_mask.option.short = "m" /\ set_channel_mask.option.name = "mask"
        /\ set_channel_mask.option.type = "str"
    BY DEF set_channel_mask, ArgStr, Entry
  <1>4. /\ set_trust_center.option.short = "a" /\ set_trust_center.option.name = "addr"
        /\ set_trust_center.option.type = "str"
    BY DEF set_trust_center, ArgStr, Entry
  <1>5. /\ set_aps_ext_panid.option.short = "p" /\ set_aps_ext_panid.option.name = "panid"
        /\ set_aps_ext_panid.option.type = "str"
    BY DEF set_aps_ext_panid, ArgStr, Entry
  <1> QED
    BY <1>1, <1>2, <1>3, <1>4, <1>5, SetterNames

(* A line that uses a setter's option has a number of words and starts     *)
(* with the setter.                                                        *)
LEMMA UsesFacts ==
    ASSUME CtrlInv, NEW options, Uses(options)
    PROVE  /\ Len(line) \in Nat /\ Len(line) > 1 /\ First = 1
           /\ stage = "setter" => /\ argc = Len(line)
                                  /\ parse # "crashed" => Own(argv, i, r)
                                  /\ command \in DOMAIN Setters
                                  /\ Option = Setters[command].option
                                  /\ Len(ctx.arguments) = 2
  <1>1. Len(line) \in Nat /\ Len(line) > 1 /\ First = 1
    BY LoopFacts, LenProperties DEF Uses
  <1>2. stage = "setter" => Len(ctx.arguments) = 2
    BY DEF CtrlInv, Stages, IsSetter
  <1> QED
    BY <1>1, <1>2, SetterFirst

(* The word before which the loop stands: -x with its value behind it, or  *)
(* an integer's --name=value.                                              *)
LEMMA UseHere ==
    ASSUME CtrlInv, stage = "setter", NEW options, Uses(options), BeforeUse(options),
           parse = "loop", i < argc, r <= 1
    PROVE  /\ Word = line[i + 1] /\ i + 1 \in options /\ Word # NULL /\ i + 1 \in 1..Len(line)
           /\ \/ /\ Word = Short(Option.short)
                 /\ i + 2 \in 1..Len(line) /\ i + 2 \notin options
                 /\ Arg(i + 1) = line[i + 2] /\ Arg(i + 1) # NULL /\ i + 1 < argc
              \/ /\ Option.type = "int" /\ Word.form = "long" /\ Word.name = Option.name
                 /\ Word.value \notin NoValue
  <1>1. PICK n \in Nat : n = Len(line) /\ n > 1 /\ argc = n
    BY UsesFacts
  <1>2. Own(argv, i, r) /\ First = 1 /\ i \in Nat /\ 1 <= i
    BY UsesFacts, LoopFacts
  <1>3. i + 1 \in options /\ i + 1 \in 1..n
    BY <1>1, <1>2 DEF BeforeUse
  <1>4. Word = line[i + 1] /\ Word \in Words /\ Word # NULL
    BY <1>2, SetterWord, WordForms
  <1>5. CASE line[i + 1] = Short(Option.short) /\ i + 1 # Len(line)
    <2>1. i + 1 \in 1..(n - 1) /\ i + 2 \in 1..n /\ i + 1 + 1 = i + 2 /\ i + 1 < n
      <3>1. PICK j \in Nat : j = i
        BY <1>2
      <3>2. j + 1 \in 1..n /\ j + 1 # n
        BY <1>1, <1>3, <1>5, <3>1
      <3>3. j + 1 \in 1..(n - 1) /\ j + 2 \in 1..n /\ j + 1 + 1 = j + 2 /\ j + 1 < n
        BY <3>2
      <3> QED
        BY <3>1, <3>3
    <2>2. i + 2 \notin options
      <3>1. (i + 1) + 1 \in options <=> (i + 1 \in options => line[i + 1].form = "long")
        BY <1>1, <2>1 DEF Uses
      <3>2. line[i + 1].form = "short"
        BY <1>5, ShortIs
      <3> QED
        BY <1>3, <2>1, <3>1, <3>2
    <2>3. argv[i + 2] = line[i + 2]
      <3>1. i + 2 > i + 1
        BY <1>2
      <3> QED
        BY <1>1, <1>2, <2>1, <3>1 DEF Own
    <2>4. Arg(i + 1) # NULL
      BY <1>1, <1>2, <2>1, SetterWord
    <2>5. Arg(i + 1) = argv[i + 2]
      <3>1. Arg(i + 1) = argv[(i + 1) + 1]
        BY <1>2, <2>4, ArgIsWord
      <3> QED
        BY <2>1, <3>1
    <2> QED
      BY <1>1, <1>3, <1>4, <1>5, <2>1, <2>2, <2>3, <2>4, <2>5
  <1>6. CASE /\ Option.type = "int" /\ line[i + 1].form = "long"
             /\ line[i + 1].name = Option.name /\ line[i + 1].value \notin NoValue
    BY <1>1, <1>3, <1>4, <1>6
  <1> QED
    BY <1>3, <1>5, <1>6 DEF Uses

LEMMA UseStays ==
    ASSUME line' = line
    PROVE  /\ \A options : Uses(options)' = Uses(options)
           /\ \A options, k : Value(options, k)' = Value(options, k)
           /\ Option' = Option
           /\ \A options : Given(options)' = Given(options)
  BY FirstStays DEF Uses, Value, Option, Given

(* A step of the loop over such a line.                                    *)
UseStep(options) == CtrlInv /\ stage = "setter" /\ Uses(options) /\ Reading(options)
                    /\ line' = line /\ parse = "loop"

LEMMA UseFlag == \A options : ~(UseStep(options) /\ FoundFlag)
  <1> SUFFICES ASSUME NEW options, UseStep(options), FoundFlag PROVE FALSE
    OBVIOUS
  <1>1. /\ i < argc /\ r < Len(ctx.arguments) /\ Here.type = "flag"
        /\ ShortOf(Word) \/ (LongOf(Word) /\ Word.value = "")
    BY DEF FoundFlag, Comparing
  <1>2. CtrlInv /\ stage = "setter" /\ Uses(options) /\ parse = "loop"
    BY DEF UseStep
  <1>3. r = 0 /\ Here.short = "h" /\ Here.name = "help" /\ command \in DOMAIN Setters
    BY <1>1, <1>2, SetterHere
  <1>4. BeforeUse(options)
    BY <1>2, <1>3 DEF UseStep, Reading
  <1>5. Option.short # "h" /\ Option.name # "help"
    BY <1>2, <1>3, UsesFacts, NoHelp
  <1>6. r <= 1
    BY <1>3
  <1>7. Word = Short(Option.short) \/ (Word.form = "long" /\ Word.value # "")
    BY <1>1, <1>2, <1>4, <1>6, UseHere DEF NoValue
  <1>8. CASE Word = Short(Option.short)
    <2>1. Word.form = "short" /\ Word.name # "h"
      BY <1>5, <1>8, ShortIs
    <2> QED
      BY <1>1, <1>3, <2>1 DEF ShortOf, LongOf
  <1>9. CASE Word.form = "long" /\ Word.value # ""
    BY <1>1, <1>9 DEF ShortOf
  <1> QED
    BY <1>7, <1>8, <1>9

(* The option is found: one step behind its last word.                     *)
LEMMA UseRead ==
    ASSUME NEW options, UseStep(options), NEW k \in 2..Len(line),
           k \in options => line[k].form = "long", found' = TRUE,
           memory'.value = Value(options, k), parse' = "loop", i' + 1 = k, r' = 2
    PROVE  Reading(options)'
  <1>1. line' = line
    BY DEF UseStep
  <1>2. Len(line) \in Nat
    BY UsesFacts DEF UseStep
  <1>3. k > 1 /\ k <= Len(line) /\ ~(r' <= 1) /\ r' > 1
    BY <1>2
  <1>4. (memory.value = Value(options, i + 1))'
    BY <1>1, UseStays
  <1>5. BehindUse(options, i + 1)'
    BY <1>1, <1>3, <1>4 DEF BehindUse
  <1> QED
    BY <1>3, <1>5 DEF Reading

LEMMA UseString == \A options : UseStep(options) /\ FoundString => Reading(options)'
  <1> SUFFICES ASSUME NEW options, UseStep(options), FoundString PROVE Reading(options)'
    OBVIOUS
  <1>1. /\ i < argc /\ r < Len(ctx.arguments) /\ Here.type = "str" /\ ShortOf(Word)
    BY DEF FoundString, Comparing
  <1>2. CtrlInv /\ stage = "setter" /\ Uses(options) /\ parse = "loop"
    BY DEF UseStep
  <1>3. /\ r = 1 /\ Here.target = "value" /\ command \in DOMAIN Setters
        /\ Here.type = Setters[command].option.type
        /\ Here.maxchars = Setters[command].option.maxchars
    BY <1>1, <1>2, SetterHere
  <1>4. BeforeUse(options) /\ r <= 1
    BY <1>2, <1>3 DEF UseStep, Reading
  <1>5. Option.type = "str" /\ Option.maxchars = Here.maxchars
    BY <1>1, <1>2, <1>3, UsesFacts
  <1>6. /\ i + 2 \in 1..Len(line) /\ i + 2 \notin options
        /\ Arg(i + 1) = line[i + 2] /\ Arg(i + 1) # NULL /\ i + 1 < argc
    BY <1>1, <1>2, <1>4, <1>5, UseHere DEF ShortOf
  <1>7. /\ memory' = [memory EXCEPT ![Here.target] =
                         Copy(Arg(i + 1), Length(Arg(i + 1)) < Here.maxchars)]
        /\ MarkSet /\ GoOn(1)
    BY <1>2, <1>6, UsesFacts, LoopFacts DEF FoundString
  <1>8. i' = i + 1 /\ r' = r + 1 /\ parse' = parse
    BY <1>7 DEF GoOn
  <1>9. memory'.value = Value(options, i + 2)
    <2>1. "value" \in DOMAIN memory
      BY <1>2, LoopFacts
    <2>2. memory'.value = Copy(line[i + 2], Length(line[i + 2]) < Option.maxchars)
      BY <1>3, <1>5, <1>6, <1>7, <2>1
    <2> QED
      BY <1>5, <1>6, <2>2 DEF Value
  <1>10. i \in Nat /\ 1 <= i /\ Len(line) \in Nat
    BY <1>2, LoopFacts, UsesFacts
  <1>11. i + 2 \in 2..Len(line) /\ i' + 1 = i + 2 /\ r' = 2
    BY <1>3, <1>6, <1>8, <1>10
  <1>12. found' = TRUE
    BY <1>7 DEF MarkSet
  <1> QED
    BY <1>2, <1>6, <1>8, <1>9, <1>11, <1>12, UseRead

LEMMA UseShortInt == \A options : UseStep(options) /\ FoundShortInt => Reading(options)'
  <1> SUFFICES ASSUME NEW options, UseStep(options), FoundShortInt PROVE Reading(options)'
    OBVIOUS
  <1>1. /\ i < argc /\ r < Len(ctx.arguments) /\ Here.type = "int" /\ ShortOf(Word) /\ MarkSet
    BY DEF FoundShortInt, Comparing
  <1>2. CtrlInv /\ stage = "setter" /\ Uses(options) /\ parse = "loop"
    BY DEF UseStep
  <1>3. /\ r = 1 /\ Here.target = "value" /\ command \in DOMAIN Setters
        /\ Here.type = Setters[command].option.type
    BY <1>1, <1>2, SetterHere
  <1>4. BeforeUse(options) /\ r <= 1
    BY <1>2, <1>3 DEF UseStep, Reading
  <1>5. Option.type = "int"
    BY <1>1, <1>2, <1>3, UsesFacts
  <1>6. /\ i + 2 \in 1..Len(line) /\ i + 2 \notin options
        /\ Arg(i + 1) = line[i + 2] /\ Arg(i + 1) # NULL
    BY <1>1, <1>2, <1>4, UseHere DEF ShortOf
  <1>7. memory' = [memory EXCEPT ![Here.target] = Copy(Arg(i + 1), TRUE)] /\ GoOn(1)
    BY <1>6 DEF FoundShortInt
  <1>8. i' = i + 1 /\ r' = r + 1 /\ parse' = parse
    BY <1>7 DEF GoOn
  <1>9. memory'.value = Value(options, i + 2)
    <2>1. "value" \in DOMAIN memory
      BY <1>2, LoopFacts
    <2>2. memory'.value = Copy(line[i + 2], TRUE)
      BY <1>3, <1>6, <1>7, <2>1
    <2> QED
      BY <1>5, <1>6, <2>2 DEF Value
  <1>10. i \in Nat /\ 1 <= i /\ Len(line) \in Nat
    BY <1>2, LoopFacts, UsesFacts
  <1>11. i + 2 \in 2..Len(line) /\ i' + 1 = i + 2 /\ r' = 2
    BY <1>3, <1>6, <1>8, <1>10
  <1>12. found' = TRUE
    BY <1>1 DEF MarkSet
  <1> QED
    BY <1>2, <1>6, <1>8, <1>9, <1>11, <1>12, UseRead

LEMMA UseLongInt == \A options : UseStep(options) /\ FoundLongInt => Reading(options)'
  <1> SUFFICES ASSUME NEW options, UseStep(options), FoundLongInt PROVE Reading(options)'
    OBVIOUS
  <1>1. /\ i < argc /\ r < Len(ctx.arguments) /\ Here.type = "int" /\ LongOf(Word) /\ MarkSet
    BY DEF FoundLongInt, Comparing
  <1>2. CtrlInv /\ stage = "setter" /\ Uses(options) /\ parse = "loop"
    BY DEF UseStep
  <1>3. r = 1 /\ Here.target = "value"
    BY <1>1, <1>2, SetterHere
  <1>4. BeforeUse(options) /\ r <= 1
    BY <1>2, <1>3 DEF UseStep, Reading
  <1>5. /\ Word = line[i + 1] /\ i + 1 \in options /\ i + 1 \in 1..Len(line)
        /\ Word = Short(Option.short) \/ Word.value \notin NoValue
    BY <1>1, <1>2, <1>4, UseHere
  <1>6. Word.form = "long" /\ Word.value \notin NoValue
    BY <1>1, <1>5, ShortIs DEF LongOf
  <1>7. memory' = [memory EXCEPT ![Here.target] = Copy(Plain(Word.value), TRUE)] /\ GoOn(0)
    BY <1>6 DEF FoundLongInt
  <1>8. i' = i + 0 /\ r' = r + 1 /\ parse' = parse
    BY <1>7 DEF GoOn
  <1>9. memory'.value = Value(options, i + 1)
    <2>1. "value" \in DOMAIN memory
      BY <1>2, LoopFacts
    <2>2. memory'.value = Copy(Plain(line[i + 1].value), TRUE)
      BY <1>3, <1>5, <1>7, <2>1
    <2> QED
      BY <1>5, <2>2 DEF Value
  <1>10. i \in Nat /\ 1 <= i /\ Len(line) \in Nat
    BY <1>2, LoopFacts, UsesFacts
  <1>11. i + 1 \in 2..Len(line) /\ i' + 1 = i + 1 /\ r' = 2
    <2>1. i' = i /\ r' = 2
      BY <1>3, <1>8, <1>10
    <2>2. i + 1 \in 2..Len(line)
      <3>1. PICK j \in Nat : j = i /\ 1 <= j
        BY <1>10
      <3>2. PICK n \in Nat : n = Len(line)
        BY <1>10
      <3>3. j + 1 \in 1..n => j + 1 \in 2..n
        BY <3>1
      <3> QED
        BY <1>5, <3>1, <3>2, <3>3
    <2> QED
      BY <2>1, <2>2
  <1>12. found' = TRUE
    BY <1>1 DEF MarkSet
  <1> QED
    BY <1>2, <1>5, <1>6, <1>8, <1>9, <1>11, <1>12, UseRead

(* The flag does not fit a use of the option, so the option is next.       *)
LEMMA UsePass == \A options : UseStep(options) /\ PassEntry => Reading(options)'
  <1> SUFFICES ASSUME NEW options, UseStep(options), PassEntry PROVE Reading(options)'
    OBVIOUS
  <1>1. /\ i < argc /\ r < Len(ctx.arguments) /\ ~Fits(Word) /\ memory' = memory
        /\ i' = i + 0 /\ r' = r + 1 /\ parse' = parse
    BY DEF PassEntry, Comparing, GoOn
  <1>2. CtrlInv /\ stage = "setter" /\ Uses(options) /\ parse = "loop" /\ line' = line
    BY DEF UseStep
  <1>3. /\ r \in {0, 1} /\ Here.type \in {"flag", "str", "int"}
        /\ Here.type = "flag" => r = 0
        /\ Here.type \in {"str", "int"} =>
              Here.short = Option.short /\ Here.name = Option.name /\ Here.type = Option.type
    BY <1>1, <1>2, SetterHere, UsesFacts
  <1>4. BeforeUse(options) /\ r <= 1
    <2>1. r <= 1
      BY <1>3
    <2> QED
      BY <1>2, <2>1 DEF UseStep, Reading
  <1>5. /\ Word = Short(Option.short) \/ (/\ Option.type = "int" /\ Word.form = "long"
                                          /\ Word.name = Option.name)
    BY <1>1, <1>2, <1>4, UseHere
  <1>6. r = 0
    <2>1. CASE Here.type = "str"
      <3>1. Word = Short(Option.short)
        BY <1>3, <1>5, <2>1
      <3>2. ShortOf(Word)
        BY <1>3, <2>1, <3>1, ShortIs DEF ShortOf
      <3> QED
        BY <1>1, <2>1, <3>2 DEF Fits
    <2>2. CASE Here.type = "int"
      <3>1. ShortOf(Word) \/ LongOf(Word)
        BY <1>3, <1>5, <2>2, ShortIs DEF ShortOf, LongOf
      <3> QED
        BY <1>1, <2>2, <3>1 DEF Fits
    <2> QED
      BY <1>3, <2>1, <2>2
  <1>7. i' = i /\ r' = 1 /\ parse' = "loop"
    BY <1>1, <1>2, <1>6, LoopFacts
  <1>8. BeforeUse(options)'
    BY <1>1, <1>2, <1>4, <1>7, UseStays DEF BeforeUse
  <1> QED
    BY <1>7, <1>8 DEF Reading

LEMMA UseNextWord == \A options : UseStep(options) /\ NextWord => Reading(options)'
  <1> SUFFICES ASSUME NEW options, UseStep(options), NextWord PROVE Reading(options)'
    OBVIOUS
  <1>1. /\ r = Len(ctx.arguments) /\ i' = i + 1 /\ r' = 0 /\ memory' = memory /\ parse' = parse
    BY DEF NextWord, TableDone
  <1>2. CtrlInv /\ stage = "setter" /\ Uses(options) /\ parse = "loop" /\ line' = line
    BY DEF UseStep
  <1>3. r > 1
    <2>1. r = 2
      BY <1>1, <1>2, UsesFacts
    <2> QED
      BY <2>1
  <1>4. BehindUse(options, i + 1)
    BY <1>2, <1>3 DEF UseStep, Reading
  <1>5. i + 1 < Len(line) => (i + 1) + 1 \in options
    <2>1. i + 1 < Len(line) => i + 1 \in 1..(Len(line) - 1)
      BY <1>2, LoopFacts, UsesFacts
    <2> QED
      BY <1>2, <1>4, <2>1 DEF Uses, BehindUse
  <1>6. BeforeUse(options)'
    BY <1>1, <1>2, <1>4, <1>5, UseStays DEF BeforeUse, BehindUse
  <1>7. ~(r' > 1) /\ parse' = "loop"
    BY <1>1, <1>2
  <1> QED
    BY <1>6, <1>7 DEF Reading

LEMMA UseUnknownWord == \A options : ~(UseStep(options) /\ UnknownWord)
  <1> SUFFICES ASSUME NEW options, UseStep(options), UnknownWord PROVE FALSE
    OBVIOUS
  <1>1. r = Len(ctx.arguments) /\ ~found
    BY DEF UnknownWord, TableDone
  <1>2. r > 1 /\ parse = "loop"
    <2>1. r = 2
      BY <1>1, UsesFacts DEF UseStep
    <2>2. r > 1
      BY <2>1
    <2> QED
      BY <2>2 DEF UseStep
  <1> QED
    BY <1>1, <1>2 DEF UseStep, Reading, BehindUse

LEMMA UseWordsDone == \A options : UseStep(options) /\ WordsDone => Reading(options)'
  <1> SUFFICES ASSUME NEW options, UseStep(options), WordsDone PROVE Reading(options)'
    OBVIOUS
  <1>1. i >= argc /\ parse' = "returned" /\ memory' = memory
    BY DEF WordsDone, Return
  <1>2. CtrlInv /\ stage = "setter" /\ Uses(options) /\ parse = "loop" /\ line' = line
    BY DEF UseStep
  <1>3. /\ i = Len(line) /\ i > 1 /\ ~(i + 1 <= Len(line)) /\ r \in Nat
    BY <1>1, <1>2, LoopFacts, UsesFacts
  <1>4. r <= 1
    <2>1. ~(r > 1)
      BY <1>2, <1>3 DEF UseStep, Reading, BehindUse
    <2> QED
      BY <1>3, <2>1
  <1>5. memory.value = Value(options, Len(line))
    BY <1>2, <1>3, <1>4 DEF UseStep, Reading, BeforeUse
  <1>6. (memory.value = Value(options, Len(line)))'
    BY <1>1, <1>2, <1>5, UseStays
  <1> QED
    BY <1>1, <1>6 DEF Reading

LEMMA UseNull == \A options : ~(UseStep(options) /\ (NullWord \/ FoundCommand))
  <1> SUFFICES ASSUME NEW options, UseStep(options) PROVE ~NullWord /\ ~FoundCommand
    OBVIOUS
  <1>1. CtrlInv /\ stage = "setter" /\ First = 1
    BY UsesFacts DEF UseStep
  <1>2. ~NullWord
    BY <1>1, SetterWord, WordForms DEF NullWord, Comparing
  <1>3. ~FoundCommand
    BY <1>1, SetterNoCommand
  <1> QED
    BY <1>2, <1>3

LEMMA ReadingKeeps == \A options : UseStep(options) /\ ParseStep => Reading(options)'
  BY UseFlag, UseString, UseShortInt, UseLongInt, UsePass, UseNextWord, UseUnknownWord,
     UseWordsDone, UseNull DEF ParseStep
-----------------------------------------------------------------------------
(* From the start of a setter's parse to the number it sends.              *)
LEMMA SentStays ==
    ASSUME GivenIsSent, line' = line, command' = command, sent' = sent
    PROVE  GivenIsSent'
  BY UseStays DEF GivenIsSent, IsSent, Number

LEMMA GivenStays ==
    ASSUME GivenInv, line' = line, command' = command, sent' = sent, memory' = memory,
           stage' # "setter",
           stage' \in {"connect", "call"} => stage \in {"connect", "call"}
    PROVE  GivenInv'
  <1>1. GivenIsSent'
    BY SentStays DEF GivenInv
  <1>2. ASSUME NEW options \in SUBSET DOMAIN line, Uses(options), stage' \in {"connect", "call"}
        PROVE  memory'.value = Value(options, Len(line))'
    BY <1>2, UseStays DEF GivenInv
  <1> QED
    BY <1>1, <1>2, UseStays DEF GivenInv

LEMMA ParseGiven == CtrlInv /\ GivenInv /\ Parse => GivenInv'
  <1> SUFFICES ASSUME CtrlInv, GivenInv, Parse PROVE GivenInv'
    OBVIOUS
  <1>1. ParseStep /\ UNCHANGED <<stage, line, command, opened, sent, err>> /\ parse = "loop"
    BY ParseTyped DEF Parse
  <1>2. GivenIsSent'
    BY <1>1, SentStays DEF GivenInv
  <1>3. ASSUME NEW options \in SUBSET DOMAIN line, Uses(options), stage = "setter"
        PROVE  Reading(options)'
    <2>1. Reading(options)
      BY <1>3 DEF GivenInv
    <2> QED
      BY <1>1, <1>3, <2>1, ReadingKeeps DEF UseStep
  <1>4. stage \notin {"connect", "call"}
    BY <1>1, StageFacts
  <1> QED
    BY <1>1, <1>2, <1>3, <1>4, UseStays DEF GivenInv

LEMMA RunSetterGiven == CtrlInv /\ GivenInv /\ RunSetter => GivenInv'
  <1> SUFFICES ASSUME CtrlInv, GivenInv, RunSetter PROVE GivenInv'
    OBVIOUS
  <1>1. stage = "main" /\ stage' = "setter" /\ UNCHANGED <<line, opened, sent, err>>
    BY DEF RunSetter
  <1>2. i' = 1 /\ r' = 0 /\ parse' = "loop"
    BY DEF RunSetter, ParseStart
  <1>3. sent' = -1
    <2>1. command = ""
      BY <1>1 DEF CtrlInv, Stages
    <2> QED
      BY <1>1, <2>1 DEF CtrlInv, Stages
  <1>4. GivenIsSent'
    BY <1>3 DEF GivenIsSent
  <1>5. ASSUME NEW options, Uses(options) PROVE Reading(options)'
    <2>1. PICK n \in Nat : n = Len(line) /\ n > 1
      BY <1>5, UsesFacts
    <2>2. 1 \notin options /\ (1 + 1 \in options <=> (1 \in options => line[1].form = "long"))
      <3>1. 1 \in 1..(n - 1)
        BY <2>1
      <3> QED
        BY <1>5, <2>1, <3>1 DEF Uses
    <2>3. i' + 1 \in options /\ ~(i' > 1) /\ ~(r' > 1)
      BY <1>2, <2>2
    <2>4. BeforeUse(options)'
      BY <2>3 DEF BeforeUse
    <2> QED
      BY <1>2, <2>3, <2>4 DEF Reading
  <1> QED
    BY <1>1, <1>4, <1>5, UseStays DEF GivenInv

LEMMA SetterParsedGiven == CtrlInv /\ GivenInv /\ SetterParsed => GivenInv'
  <1> SUFFICES ASSUME CtrlInv, GivenInv, SetterParsed PROVE GivenInv'
    OBVIOUS
  <1>1. /\ stage = "setter" /\ parse = "returned" /\ stage' = "connect"
        /\ UNCHANGED <<parseVars, line, command, opened, sent, err>>
    BY DEF SetterParsed
  <1>2. memory' = memory
    BY <1>1 DEF parseVars
  <1>3. GivenIsSent'
    BY <1>1, SentStays DEF GivenInv
  <1>4. ASSUME NEW options \in SUBSET DOMAIN line, Uses(options)
        PROVE  memory.value = Value(options, Len(line))
    BY <1>1, <1>4 DEF GivenInv, Reading
  <1> QED
    BY <1>1, <1>2, <1>3, <1>4, UseStays DEF GivenInv

LEMMA NoSetterGets == \A c \in DOMAIN Setters : c \notin Getters
  BY SetterNames DEF Getters

(* A getter runs only on lines that start with no setter.                  *)
LEMMA RunGetterGiven == CtrlInv /\ GivenInv /\ RunGetter => GivenInv'
  <1> SUFFICES ASSUME CtrlInv, GivenInv, RunGetter PROVE GivenInv'
    OBVIOUS
  <1>1. /\ stage = "main" /\ parse = "callback" /\ callback \in Getters /\ stage' = "connect"
        /\ UNCHANGED <<parseVars, line, opened, sent, err>>
    BY DEF RunGetter
  <1>2. sent' = -1
    <2>1. command = ""
      BY <1>1 DEF CtrlInv, Stages
    <2> QED
      BY <1>1, <2>1 DEF CtrlInv, Stages
  <1>3. GivenIsSent'
    BY <1>2 DEF GivenIsSent
  <1>4. ASSUME NEW options, Uses(options) PROVE FALSE
    <2>1. First = 1 /\ line[1].name \in DOMAIN Setters
      BY <1>4 DEF Uses
    <2>2. callback = line[First].name
      BY <1>1 DEF CtrlInv, InMain, Found
    <2>3. callback \in DOMAIN Setters /\ callback \in Getters
      BY <1>1, <2>1, <2>2
    <2> QED
      BY <2>3, NoSetterGets
  <1> QED
    BY <1>1, <1>3, <1>4, UseStays DEF GivenInv

LEMMA CopyIs == \A w, whole : /\ Copy(w, whole).known = TRUE /\ Copy(w, whole).word = w
                              /\ Copy(w, whole).terminated = whole
  BY DEF Copy

(* The number goes through strtol, int and the parameter's type unchanged  *)
(* when it fits them.                                                      *)
LEMMA NumberPasses ==
    ASSUME NEW c \in DOMAIN Setters, Option = Setters[c].option, command = c,
           NEW w \in Words, NEW value \in ValuesOf(Setters[c].option),
           memory.value = Copy(w, Option.type = "int" \/ Length(w) < Option.maxchars),
           sent' = value % Setters[c].mod
    PROVE  \/ sent' = Number(w)
           \/ Option.type = "str" /\ Length(w) >= Option.maxchars
           \/ Number(w) \notin 0..(Setters[c].mod - 1) \/ Number(w) \notin Longs
  <1> SUFFICES ASSUME ~(Option.type = "str" /\ Length(w) >= Option.maxchars),
                      Number(w) \in 0..(Setters[c].mod - 1), Number(w) \in Longs
               PROVE  sent' = Number(w)
    OBVIOUS
  <1>1. PICK m \in Nat : m = Setters[c].mod /\ m # 0
    BY SetterFacts
  <1>2. PICK x \in 0..(m - 1) : x = Number(w)
    BY <1>1
  <1>3. x \in Nat /\ x < m /\ x % m = x
    BY <1>1
  <1>4. CASE Option.type = "int"
    <2>1. strtol(Decimal, w) = x
      BY <1>2, <1>4 DEF strtol, Number
    <2>2. memory.value.known = TRUE /\ memory.value.word = w
      BY CopyIs
    <2>3. value = x % IntMod
      BY <1>4, <2>1, <2>2 DEF ValuesOf
    <2>4. PICK l \in Nat : l = IntMod /\ l # 0 /\ l % m = 0
      <3>1. m = ByteMod
        BY <1>1, <1>4, NoHelp
      <3> QED
        BY <3>1, ConbeectrlAssumption
    <2>5. m <= l
      <3>1. l < m => l % m = l
        BY <1>1
      <3> QED
        BY <2>4, <3>1
    <2>6. x % l = x
      BY <1>3, <2>4, <2>5
    <2> QED
      BY <1>1, <1>2, <1>3, <2>3, <2>4, <2>6
  <1>5. CASE Option.type = "str"
    <2>1. strtol(Hexadecimal, w) = x
      BY <1>2, <1>5 DEF strtol, Number
    <2>2. Length(w) < Option.maxchars
      <3>1. PICK characters \in Nat : characters = Length(w)
        BY LengthAssumption
      <3>2. PICK max \in Nat : max = Option.maxchars
        BY SetterFacts DEF IsOption, Entries
      <3>3. ~(characters >= max)
        BY <1>5, <3>1, <3>2
      <3>4. characters < max
        BY <3>3
      <3> QED
        BY <3>1, <3>2, <3>4
    <2>3. memory.value.known = TRUE /\ memory.value.word = w /\ memory.value.terminated
      <3>1. PICK whole : whole = (Option.type = "int" \/ Length(w) < Option.maxchars)
        OBVIOUS
      <3>2. memory.value = Copy(w, whole)
        BY <3>1
      <3>3. whole = TRUE
        <4>1. Option.type = "int" \/ Length(w) < Option.maxchars
          BY <2>2
        <4>2. (Option.type = "int" \/ Length(w) < Option.maxchars) = TRUE
          BY <4>1, Zenon
        <4> QED
          BY <3>1, <4>2, Zenon
      <3>4. /\ memory.value.known = TRUE /\ memory.value.word = w
            /\ memory.value.terminated = whole
        <4>1. /\ Copy(w, whole).known = TRUE /\ Copy(w, whole).word = w
              /\ Copy(w, whole).terminated = whole
          BY CopyIs, Zenon
        <4> QED
          BY <3>2, <4>1, Zenon
      <3> QED
        BY <3>3, <3>4, Zenon
    <2>4. value = x
      BY <1>5, <2>1, <2>3 DEF ValuesOf
    <2> QED
      BY <1>1, <1>2, <1>3, <2>4
  <1>6. Option.type \in {"str", "int"}
    BY SetterFacts DEF IsOption
  <1> QED
    BY <1>4, <1>5, <1>6

LEMMA ValueGiven ==
    ASSUME CtrlInv, NEW options, Uses(options)
    PROVE  LET w == Given(options)
           IN /\ Value(options, Len(line)) =
                    Copy(w, Option.type = "int" \/ Length(w) < Option.maxchars)
              /\ w \in Words
  <1>1. PICK n \in Nat : n = Len(line) /\ n > 1
    BY UsesFacts
  <1>2. line[n] \in Words /\ Last(line) = line[n]
    <2>1. n \in 1..n
      BY <1>1
    <2>2. line \in Seq(Words)
      BY LoopFacts
    <2> QED
      BY <1>1, <2>1, <2>2, ElementOfSeq DEF Last
  <1>3. CASE n \in options
    <2>1. Option.type = "int"
      BY <1>1, <1>3 DEF Uses
    <2>2. Given(options) = Plain(line[n].value)
      BY <1>1, <1>2, <1>3 DEF Given
    <2>3. Plain(line[n].value) \in Words
      BY <1>2, WordForms
    <2> QED
      BY <1>1, <1>3, <2>1, <2>2, <2>3 DEF Value
  <1>4. CASE n \notin options
    <2>1. Given(options) = line[n]
      BY <1>1, <1>2, <1>4 DEF Given
    <2> QED
      BY <1>1, <1>2, <1>4, <2>1, WordForms DEF Value
  <1> QED
    BY <1>3, <1>4

LEMMA CallSetterGiven == CtrlInv /\ GivenInv /\ CallSetter => GivenInv'
  <1> SUFFICES ASSUME CtrlInv, GivenInv, CallSetter PROVE GivenInv'
    OBVIOUS
  <1>1. /\ stage = "call" /\ command \in DOMAIN Setters /\ stage' = "close"
        /\ UNCHANGED <<parseVars, line, command, opened>>
    BY DEF CallSetter
  <1>2. PICK value \in ValuesOf(Setters[command].option) : sent' = value % Setters[command].mod
    BY DEF CallSetter
  <1>3. ASSUME NEW options \in SUBSET DOMAIN line, Uses(options)
        PROVE  IsSent(Given(options))'
    <2>1. PICK w : w = Given(options)
      OBVIOUS
    <2>2. /\ memory.value = Copy(w, Option.type = "int" \/ Length(w) < Option.maxchars)
          /\ w \in Words
      BY <1>1, <1>3, <2>1, ValueGiven DEF GivenInv
    <2>3. Option = Setters[command].option
      <3>1. First = 1
        BY <1>3 DEF Uses
      <3>2. command = line[First].name
        BY <1>1, Commands DEF CtrlInv, Runs
      <3> QED
        BY <3>1, <3>2 DEF Option
    <2>4. \/ sent' = Number(w)
          \/ Option.type = "str" /\ Length(w) >= Option.maxchars
          \/ Number(w) \notin 0..(Setters[command].mod - 1) \/ Number(w) \notin Longs
      BY <1>1, <1>2, <2>2, <2>3, NumberPasses
    <2>5. Option' = Option /\ Number(w)' = Number(w) /\ Given(options)' = w /\ command' = command
      BY <1>1, <2>1, UseStays DEF Number
    <2> QED
      BY <2>4, <2>5 DEF IsSent
  <1>4. GivenIsSent'
    BY <1>1, <1>3, UseStays DEF GivenIsSent
  <1> QED
    BY <1>1, <1>4 DEF GivenInv

LEMMA OtherGiven ==
    CtrlInv /\ GivenInv /\ (Connect \/ CallGetter \/ Close \/ NoCommand) => GivenInv'
  <1>1. ASSUME GivenInv, Connect PROVE GivenInv'
    BY <1>1, GivenStays DEF Connect, parseVars
  <1>2. ASSUME GivenInv, CallGetter PROVE GivenInv'
    BY <1>2, GivenStays DEF CallGetter, parseVars
  <1>3. ASSUME GivenInv, Close PROVE GivenInv'
    BY <1>3, GivenStays DEF Close, parseVars
  <1>4. ASSUME GivenInv, NoCommand PROVE GivenInv'
    BY <1>4, GivenStays DEF NoCommand, parseVars
  <1> QED
    BY <1>1, <1>2, <1>3, <1>4

LEMMA StutterGiven == GivenInv /\ UNCHANGED vars => GivenInv'
  <1> SUFFICES ASSUME GivenInv, UNCHANGED vars PROVE GivenInv'
    OBVIOUS
  <1>1. UNCHANGED <<stage, line, command, sent, i, r, found, memory, parse>>
    BY DEF vars, parseVars
  <1>2. GivenIsSent'
    BY <1>1, SentStays DEF GivenInv
  <1>3. ASSUME NEW options, Reading(options) PROVE Reading(options)'
    BY <1>1, <1>3, UseStays DEF Reading, BeforeUse, BehindUse
  <1> QED
    BY <1>1, <1>2, <1>3, UseStays DEF GivenInv

LEMMA InductiveGiven == Spec => []GivenInv
  <1>1. Init => GivenInv
    BY DEF Init, GivenInv, GivenIsSent
  <1>2. CtrlInv /\ GivenInv /\ [Next]_vars => GivenInv'
    BY ParseGiven, RunGetterGiven, RunSetterGiven, SetterParsedGiven, CallSetterGiven,
       OtherGiven, StutterGiven DEF Next
  <1> QED
    BY <1>1, <1>2, Inductive, PTL DEF Spec

(* For a line of any length that uses the option of a setter as its usage  *)
(* says, any number of times and in both forms: what is sent to the stick  *)
(* is the number of the last use, when it fits the parameter and a long    *)
(* and the string has room for its terminator.                             *)
THEOREM LastOptionIsSent == Spec => []GivenIsSent
  <1>1. GivenInv => GivenIsSent
    BY DEF GivenInv
  <1> QED
    BY <1>1, InductiveGiven, PTL
-----------------------------------------------------------------------------
(* Why a parse ends: as long as the loop runs, the word index grows, or it *)
(* stays and the index of the entry grows, and both are bounded.           *)
LoopAdvances ==
    (parse = "loop" /\ parse' = "loop" /\ stage' = stage) =>
        /\ i' > i \/ (i' = i /\ r' > r)
        /\ i' <= argc /\ r' <= Len(ctx.arguments)

LEMMA StepAdvances ==
    ASSUME CtrlInv, ParseStep, parse' = "loop"
    PROVE  argc' = argc /\ (i' > i \/ (i' = i /\ r' > r))
  <1>1. i \in Nat /\ r \in Nat
    BY LoopFacts
  <1>2. CASE GoOn(1)
    BY <1>1, <1>2 DEF GoOn
  <1>3. CASE GoOn(0)
    <2>1. i' = i + 0 /\ r' = r + 1 /\ argc' = argc
      BY <1>3 DEF GoOn
    <2> QED
      BY <1>1, <2>1
  <1>4. CASE NextWord
    BY <1>1, <1>4 DEF NextWord
  <1>5. CASE Crash \/ Return(0) \/ Return(-1) \/ FoundCommand
    BY <1>5 DEF Crash, Return, FoundCommand
  <1>6. ~Crash /\ \A value : ~Return(value)
    BY DEF Crash, Return
  <1>7. ~NullWord
    BY <1>6 DEF NullWord
  <1>8. ~UnknownWord
    BY <1>6 DEF UnknownWord
  <1>9. ~WordsDone
    BY <1>6, Zenon DEF WordsDone
  <1>10. ~FoundFlag
    BY <1>6 DEF FoundFlag
  <1>11. FoundString => GoOn(1)
    BY <1>6, Zenon DEF FoundString
  <1>12. FoundShortInt => GoOn(1)
    BY <1>6, Zenon DEF FoundShortInt
  <1>13. FoundLongInt => GoOn(0)
    BY <1>6, Zenon DEF FoundLongInt
  <1>14. PassEntry => GoOn(0)
    BY DEF PassEntry
  <1> QED
    BY <1>2, <1>3, <1>4, <1>5, <1>7, <1>8, <1>9, <1>10, <1>11, <1>12, <1>13, <1>14
    DEF ParseStep

(* Every step inside either loop of argparse_parse, for a table and a line *)
(* of any length, comes closer to its end, although an option moves the    *)
(* index of the words inside the loop over the table.                      *)
THEOREM ParseComesCloser == Spec => [][LoopAdvances]_vars
  <1>1. CtrlInv /\ [Next]_vars => [LoopAdvances]_vars
    <2> SUFFICES ASSUME CtrlInv, Next, parse = "loop", parse' = "loop", stage' = stage
                 PROVE  /\ i' > i \/ (i' = i /\ r' > r)
                        /\ i' <= argc /\ r' <= Len(ctx.arguments)
      BY DEF LoopAdvances
    <2>1. Parse
      BY DEF Next, RunGetter, RunSetter, SetterParsed, Connect, CallGetter, CallSetter,
             Close, NoCommand
    <2>2. ParseStep
      BY <2>1 DEF Parse
    <2>3. i' <= argc' /\ r' <= Len(ctx.arguments)
      BY <2>1, ParseTyped DEF StepTyped
    <2> QED
      BY <2>2, <2>3, StepAdvances
  <1> QED
    BY <1>1, Inductive, PTL DEF Spec
=============================================================================
