------------------------- MODULE ConbeeQueue_proofs -------------------------
(***************************************************************************)
(* Proofs about ConbeeQueue: its pointers describe the queue, popping      *)
(* never touches a freed item, and the list implements FrameQueue.         *)
(***************************************************************************)
EXTENDS ConbeeQueue, SequenceTheorems, TLAPS

(* ListMatchesChain made inductive: addresses in the queue were handed out *)
(* and are distinct, and previous links lead to the predecessor, or, at    *)
(* the head, nowhere or to an item that has been freed.                    *)
ChainInv ==
  ~wild =>
    /\ \A i \in 1..Len(chain) : chain[i] \in 1..allocated
    /\ \A i, j \in 1..Len(chain) : chain[i] = chain[j] => i = j
    /\ live = {chain[i] : i \in 1..Len(chain)}
    /\ Len(chain) = 0 => head = NULL
    /\ Len(chain) > 0 => head = chain[1] /\ tail = chain[Len(chain)]
    /\ \A i \in 1..Len(chain) :
         /\ i < Len(chain) => node[chain[i]].next = chain[i + 1]
         /\ i = Len(chain) => node[chain[i]].next = NULL
         /\ i > 1 => node[chain[i]].previous = chain[i - 1]
         /\ i = 1 => node[chain[i]].previous \in {NULL} \cup (1..allocated \ live)

QueueInv == TypeOK /\ ChainInv /\ PopNeverWild

LEMMA NodesTypes == NULL \notin Nodes /\ Nodes \subseteq Nat
  BY QueueAssumption DEF Nodes

LEMMA ChainLength ==
    ASSUME QueueInv
    PROVE  /\ Len(chain) \in Nat /\ DOMAIN chain = 1..Len(chain)
           /\ \A i \in 1..Len(chain) : chain[i] \in Nodes
           /\ chain = <<>> <=> Len(chain) = 0
           /\ ~wild => (head = NULL <=> Len(chain) = 0)
           /\ ~wild /\ head # NULL => head \in live /\ tail \in live /\ head = chain[1]
  <1>1. /\ Len(chain) \in Nat /\ DOMAIN chain = 1..Len(chain)
        /\ \A i \in 1..Len(chain) : chain[i] \in Nodes
        /\ chain = <<>> <=> Len(chain) = 0
    BY LenProperties, ElementOfSeq, EmptySeq DEF QueueInv, TypeOK
  <1>2. ASSUME ~wild
        PROVE  /\ head = NULL <=> Len(chain) = 0
               /\ head # NULL => head \in live /\ tail \in live /\ head = chain[1]
    <2>1. CASE Len(chain) = 0
      BY <1>2, <2>1 DEF QueueInv, ChainInv
    <2>2. CASE Len(chain) > 0
      <3>1. 1 \in 1..Len(chain) /\ Len(chain) \in 1..Len(chain)
        BY <1>1, <2>2
      <3>2. head = chain[1] /\ tail = chain[Len(chain)]
        BY <1>2, <2>2 DEF QueueInv, ChainInv
      <3>3. head \in live /\ tail \in live
        BY <1>2, <3>1, <3>2 DEF QueueInv, ChainInv
      <3> QED
        BY <1>1, <2>2, <3>1, <3>2, <3>3, NodesTypes
    <2> QED
      BY <1>1, <2>1, <2>2
  <1> QED
    BY <1>1, <1>2

LEMMA QueueInit == Init => QueueInv
  <1> SUFFICES ASSUME Init PROVE QueueInv
    OBVIOUS
  <1>1. chain \in Seq(Nodes) /\ Len(chain) = 0
    BY EmptySeq DEF Init
  <1>2. TypeOK
    <2>1. NULL \in Links /\ NULL \in Values \cup {NULL}
      BY DEF Links
    <2>2. Unused \in [contents : Values \cup {NULL}, next : Links, previous : Links]
      BY <2>1 DEF Unused
    <2>3. allocated \in 0..MaxItems
      BY QueueAssumption DEF Init
    <2> QED
      BY <1>1, <2>1, <2>2, <2>3 DEF Init, TypeOK
  <1>3. ChainInv
    BY <1>1 DEF Init, ChainInv
  <1> QED
    BY <1>2, <1>3 DEF Init, QueueInv, PopNeverWild

(* What a push makes of the sequence of addresses.                         *)
LEMMA ChainAppended ==
    ASSUME QueueInv, allocated < MaxItems, chain' = Append(chain, allocated + 1)
    PROVE  /\ allocated + 1 \in Nodes
           /\ chain' \in Seq(Nodes)
           /\ Len(chain') = Len(chain) + 1
           /\ \A i \in 1..Len(chain) : chain'[i] = chain[i]
           /\ chain'[Len(chain) + 1] = allocated + 1
  <1>1. allocated \in Nat /\ MaxItems \in Nat /\ chain \in Seq(Nodes)
    BY QueueAssumption DEF QueueInv, TypeOK
  <1>2. allocated + 1 \in Nodes
    BY <1>1 DEF Nodes
  <1> QED
    BY <1>1, <1>2, AppendProperties

(* What a removal makes of it.                                             *)
LEMMA ChainShortened ==
    ASSUME QueueInv, ~wild, head # NULL, chain' = Tail(chain)
    PROVE  /\ chain' \in Seq(Nodes)
           /\ Len(chain') = Len(chain) - 1
           /\ Len(chain) \in Nat \ {0}
           /\ \A i \in 1..Len(chain') : chain'[i] = chain[i + 1]
  <1>1. chain \in Seq(Nodes) /\ chain # <<>> /\ Len(chain) \in Nat \ {0}
    BY ChainLength DEF QueueInv, TypeOK
  <1> QED
    BY <1>1, HeadTailProperties

(* After the first push the queue is the new item alone.                   *)
LEMMA PushFirstKeepsInv ==
    ASSUME QueueInv, NEW v \in Values, Push(v), head = NULL
    PROVE  QueueInv'
  <1> DEFINE new == allocated + 1
  <1>1. /\ ~wild /\ wild' = wild /\ allocated < MaxItems /\ allocated' = new
        /\ node' = [node EXCEPT ![new] = NewItem(v, NULL)]
        /\ head' = new /\ tail' = new
        /\ live' = live \cup {new}
        /\ chain' = Append(chain, new)
        /\ result' = result /\ removal' = removal
    BY DEF Push, PushFirst
  <1>2. allocated \in Nat /\ MaxItems \in Nat /\ new \in Nodes
    BY <1>1, QueueAssumption, ChainAppended DEF QueueInv, TypeOK
  <1>3. Len(chain) = 0 /\ live = {}
    BY <1>1, ChainLength DEF QueueInv, ChainInv
  <1>4. chain' \in Seq(Nodes) /\ Len(chain') = 1 /\ chain'[1] = new
    BY <1>1, <1>3, ChainAppended
  <1>5. NewItem(v, NULL) \in [contents : Values \cup {NULL}, next : Links, previous : Links]
    BY DEF NewItem, Links
  <1>6. TypeOK'
    BY <1>1, <1>2, <1>4, <1>5 DEF QueueInv, TypeOK, Links
  <1>7. node'[new].next = NULL /\ node'[new].previous = NULL
    BY <1>1, <1>2 DEF QueueInv, TypeOK, NewItem
  <1>8. ChainInv'
    BY <1>1, <1>2, <1>3, <1>4, <1>7 DEF ChainInv
  <1> QED
    BY <1>1, <1>6, <1>8 DEF QueueInv, PopNeverWild
(* A push behind the tail changes the next link of the tail and nothing    *)
(* else in the items that are there.                                       *)
LEMMA PushBehindEffect ==
    ASSUME QueueInv, NEW v \in Values, Push(v), head # NULL
    PROVE  /\ wild = FALSE /\ wild' = FALSE /\ allocated < MaxItems /\ allocated' = allocated + 1
           /\ head' = head /\ tail' = allocated + 1
           /\ live' = live \cup {allocated + 1}
           /\ chain' = Append(chain, allocated + 1)
           /\ result' = result /\ removal' = removal
           /\ node' \in [Nodes -> [contents : Values \cup {NULL}, next : Links, previous : Links]]
           /\ node'[allocated + 1] = NewItem(v, tail)
           /\ \A n \in Nodes \ {allocated + 1} :
                /\ node'[n].contents = node[n].contents
                /\ node'[n].previous = node[n].previous
                /\ node'[n].next = IF n = tail THEN allocated + 1 ELSE node[n].next
  <1> DEFINE new == allocated + 1
             Record == [contents : Values \cup {NULL}, next : Links, previous : Links]
  <1>1. /\ ~wild /\ allocated < MaxItems /\ allocated' = new
        /\ head' = head /\ tail' = new
        /\ live' = live \cup {new}
        /\ chain' = Append(chain, new)
        /\ result' = result /\ removal' = removal
        /\ node' = [LinkAfterTail(new) EXCEPT ![new] = NewItem(v, tail)]
        /\ wild' = ~({tail} \subseteq live)
        /\ wild \in BOOLEAN
    BY DEF Push, PushBehind, Dereference, QueueInv, TypeOK
  <1>2. new \in Nodes /\ new \in Links
    BY <1>1, ChainAppended DEF Links
  <1>3. tail \in live /\ tail \in Nodes /\ tail \in Links
    BY <1>1, ChainLength DEF QueueInv, TypeOK
  <1>4. node \in [Nodes -> Record]
    BY DEF QueueInv, TypeOK
  <1>5. WithNext(node[tail], new) \in Record
    BY <1>2, <1>3, <1>4 DEF WithNext
  <1>6. NewItem(v, tail) \in Record
    BY <1>3 DEF NewItem, Links
  <1>7. LinkAfterTail(new) \in [Nodes -> Record]
    BY <1>4, <1>5 DEF LinkAfterTail
  <1>8. node' \in [Nodes -> Record] /\ node'[new] = NewItem(v, tail)
    BY <1>1, <1>2, <1>6, <1>7
  <1>9. ASSUME NEW n \in Nodes \ {new}
        PROVE  /\ node'[n].contents = node[n].contents
               /\ node'[n].previous = node[n].previous
               /\ node'[n].next = IF n = tail THEN new ELSE node[n].next
    <2>1. node'[n] = LinkAfterTail(new)[n]
      BY <1>1, <1>7
    <2>2. node'[n] = IF n = tail THEN WithNext(node[tail], new) ELSE node[n]
      BY <2>1, <1>4 DEF LinkAfterTail
    <2> QED
      BY <2>2 DEF WithNext
  <1> QED
    BY <1>1, <1>3, <1>8, <1>9

LEMMA PushBehindKeepsInv ==
    ASSUME QueueInv, NEW v \in Values, Push(v), head # NULL
    PROVE  QueueInv'
  <1> DEFINE new == allocated + 1
             n == Len(chain)
  <1>1. /\ wild = FALSE /\ wild' = FALSE /\ allocated < MaxItems /\ allocated' = new
        /\ head' = head /\ tail' = new
        /\ live' = live \cup {new}
        /\ chain' = Append(chain, new)
        /\ result' = result /\ removal' = removal
    BY PushBehindEffect
  <1>2. /\ node' \in [Nodes -> [contents : Values \cup {NULL}, next : Links, previous : Links]]
        /\ node'[new] = NewItem(v, tail)
    BY PushBehindEffect
  <1>14. node'[new].next = NULL /\ node'[new].previous = tail
    BY <1>2 DEF NewItem
  <1>3. \A a \in Nodes \ {new} :
          /\ node'[a].previous = node[a].previous
          /\ node'[a].next = IF a = tail THEN new ELSE node[a].next
    BY PushBehindEffect
  <1>4. allocated \in Nat /\ MaxItems \in Nat /\ new \in Nodes
    BY <1>1, QueueAssumption, ChainAppended DEF QueueInv, TypeOK
  <1>5. n \in Nat \ {0} /\ \A i \in 1..n : chain[i] \in Nodes
    BY <1>1, ChainLength
  <1>6. /\ chain' \in Seq(Nodes) /\ Len(chain') = n + 1
        /\ \A i \in 1..n : chain'[i] = chain[i]
        /\ chain'[n + 1] = new
    BY <1>1, ChainAppended
  <1>7. /\ \A i \in 1..n : chain[i] \in 1..allocated
        /\ \A i, j \in 1..n : chain[i] = chain[j] => i = j
        /\ live = {chain[i] : i \in 1..n}
        /\ head = chain[1] /\ tail = chain[n]
        /\ \A i \in 1..n :
             /\ i < n => node[chain[i]].next = chain[i + 1]
             /\ i > 1 => node[chain[i]].previous = chain[i - 1]
             /\ i = 1 => node[chain[i]].previous \in {NULL} \cup (1..allocated \ live)
    BY <1>1, <1>5 DEF QueueInv, ChainInv
  <1>8. TypeOK'
    <2>1. head' \in Links /\ tail' \in Links
      BY <1>1, <1>4 DEF QueueInv, TypeOK, Links
    <2>2. live' \subseteq Nodes /\ result' \in Values \cup {NULL}
      BY <1>1, <1>4 DEF QueueInv, TypeOK
    <2>3. allocated' \in 0..MaxItems
      BY <1>1, <1>4
    <2> QED
      BY <1>1, <1>2, <1>6, <2>1, <2>2, <2>3 DEF QueueInv, TypeOK
  <1>9. ASSUME NEW i \in 1..n
        PROVE  /\ chain'[i] \in 1..allocated' /\ chain'[i] # new
               /\ node'[chain'[i]].next = chain'[i + 1]
               /\ i > 1 => node'[chain'[i]].previous = chain'[i - 1]
               /\ i = 1 => node'[chain'[i]].previous \in {NULL} \cup (1..allocated' \ live')
    <2>1. /\ chain'[i] = chain[i] /\ chain[i] \in 1..allocated
          /\ chain[i] \in Nodes \ {new}
      BY <1>4, <1>5, <1>6, <1>7
    <2>2. chain[i] = tail <=> i = n
      BY <1>5, <1>7
    <2>3. chain'[i] \in 1..allocated' /\ chain'[i] # new
      BY <2>1, <1>1, <1>4
    <2>4. node'[chain'[i]].next = chain'[i + 1]
      <3>1. CASE i = n
        BY <2>1, <2>2, <3>1, <1>3, <1>6
      <3>2. CASE i < n
        <4>1. node'[chain[i]].next = chain[i + 1]
          BY <2>1, <2>2, <3>2, <1>3, <1>7
        <4>2. i + 1 \in 1..n
          BY <3>2, <1>5
        <4> QED
          BY <2>1, <4>1, <4>2, <1>6
      <3> QED
        BY <3>1, <3>2, <1>5
    <2>5. node'[chain'[i]].previous = node[chain[i]].previous
      BY <2>1, <1>3
    <2>6. i > 1 => node'[chain'[i]].previous = chain'[i - 1]
      <3>1. i > 1 => i - 1 \in 1..n
        BY <1>5
      <3> QED
        BY <2>5, <3>1, <1>6, <1>7
    <2>7. i = 1 => node'[chain'[i]].previous \in {NULL} \cup (1..allocated' \ live')
      BY <2>5, <1>1, <1>4, <1>7
    <2> QED
      BY <2>3, <2>4, <2>6, <2>7
  <1>10. live' = {chain'[i] : i \in 1..Len(chain')}
    BY <1>1, <1>5, <1>6, <1>7
  <1>11. \A i, j \in 1..Len(chain') : chain'[i] = chain'[j] => i = j
    BY <1>5, <1>6, <1>7, <1>9
  <1>12. \A i \in 1..Len(chain') :
           /\ chain'[i] \in 1..allocated'
           /\ i < Len(chain') => node'[chain'[i]].next = chain'[i + 1]
           /\ i = Len(chain') => node'[chain'[i]].next = NULL
           /\ i > 1 => node'[chain'[i]].previous = chain'[i - 1]
           /\ i = 1 => node'[chain'[i]].previous \in {NULL} \cup (1..allocated' \ live')
    <2> TAKE i \in 1..Len(chain')
    <2>1. CASE i = n + 1
      BY <2>1, <1>1, <1>14, <1>4, <1>5, <1>6, <1>7
    <2>2. CASE i \in 1..n
      BY <2>2, <1>5, <1>6, <1>9
    <2> QED
      BY <2>1, <2>2, <1>5, <1>6
  <1>13. ChainInv'
    <2>1. Len(chain') \in Nat \ {0} /\ head' = chain'[1] /\ tail' = chain'[Len(chain')]
      BY <1>1, <1>5, <1>6, <1>7
    <2> QED
      BY <2>1, <1>10, <1>11, <1>12 DEF ChainInv
  <1> QED
    BY <1>1, <1>8, <1>13 DEF QueueInv, PopNeverWild

(* Both removals move the head on to the next item; they differ in what    *)
(* happens to the tail when that was the last one.                         *)
LEMMA RemovalKeepsChain ==
    ASSUME QueueInv, ~wild, head # NULL, wild' \in BOOLEAN,
           head' = node[head].next,
           tail' = tail \/ (tail' = NULL /\ node[head].next = NULL),
           node' = node, allocated' = allocated,
           live' = live \ {head}, chain' = Tail(chain),
           removal' = removal, result' = node[head].contents
    PROVE  TypeOK' /\ ChainInv'
  <1> DEFINE n == Len(chain)
  <1>1. /\ chain' \in Seq(Nodes) /\ Len(chain') = n - 1 /\ n \in Nat \ {0}
        /\ \A i \in 1..(n - 1) : chain'[i] = chain[i + 1]
    BY ChainShortened
  <1>2. head = chain[1] /\ head \in Nodes /\ (\A i \in 1..n : chain[i] \in Nodes)
    BY ChainLength, <1>1
  <1>3. /\ \A i \in 1..n : chain[i] \in 1..allocated
        /\ \A i, j \in 1..n : chain[i] = chain[j] => i = j
        /\ live = {chain[i] : i \in 1..n}
        /\ tail = chain[n]
        /\ \A i \in 1..n :
             /\ i < n => node[chain[i]].next = chain[i + 1]
             /\ i = n => node[chain[i]].next = NULL
             /\ i > 1 => node[chain[i]].previous = chain[i - 1]
    <2>1. n > 0 /\ ChainInv
      BY <1>1 DEF QueueInv
    <2> QED
      BY <2>1 DEF ChainInv
  <1>4. node[head] \in [contents : Values \cup {NULL}, next : Links, previous : Links]
    BY <1>2 DEF QueueInv, TypeOK
  <1>5. TypeOK'
    <2>1. head' \in Links /\ result' \in Values \cup {NULL}
      BY <1>4
    <2>2. tail' \in Links
      BY DEF QueueInv, TypeOK, Links
    <2> QED
      BY <1>1, <2>1, <2>2 DEF QueueInv, TypeOK
  <1>6. live' = {chain'[i] : i \in 1..(n - 1)}
    <2>1. ASSUME NEW a \in live' PROVE a \in {chain'[i] : i \in 1..(n - 1)}
      <3>1. PICK i \in 1..n : a = chain[i]
        BY <1>3, <2>1
      <3>2. i # 1
        BY <1>2, <2>1, <3>1
      <3>3. i - 1 \in 1..(n - 1) /\ (i - 1) + 1 = i
        BY <1>1, <3>2
      <3>4. a = chain'[i - 1]
        BY <1>1, <3>1, <3>3
      <3> QED
        BY <3>3, <3>4
    <2>2. ASSUME NEW i \in 1..(n - 1) PROVE chain'[i] \in live'
      <3>1. i + 1 \in 1..n /\ i + 1 # 1 /\ 1 \in 1..n
        BY <1>1
      <3>2. chain[i + 1] \in live /\ chain[i + 1] # chain[1]
        BY <1>3, <3>1
      <3> QED
        BY <1>1, <1>2, <3>2
    <2> QED
      BY <2>1, <2>2
  <1>7. ASSUME NEW i \in 1..(n - 1)
        PROVE  /\ chain'[i] \in 1..allocated'
               /\ i < n - 1 => node'[chain'[i]].next = chain'[i + 1]
               /\ i = n - 1 => node'[chain'[i]].next = NULL
               /\ i > 1 => node'[chain'[i]].previous = chain'[i - 1]
               /\ i = 1 => node'[chain'[i]].previous \in {NULL} \cup (1..allocated' \ live')
    <2>1. /\ i + 1 \in 1..n /\ i + 1 > 1 /\ (i + 1) - 1 = i
          /\ i < n - 1 => i + 1 < n /\ i + 1 \in 1..(n - 1)
          /\ i = n - 1 => i + 1 = n
          /\ i > 1 => i - 1 \in 1..(n - 1) /\ (i - 1) + 1 = i
      <3>1. n \in Nat /\ i \in Nat /\ 1 =< i /\ i =< n - 1
        BY <1>1
      <3> QED
        BY <3>1
    <2>2. chain'[i] = chain[i + 1] /\ node'[chain'[i]] = node[chain[i + 1]]
      BY <1>1
    <2>3. node[chain[i + 1]].previous = chain[i]
      BY <1>3, <2>1
    <2>4. i < n - 1 => node'[chain'[i]].next = chain'[i + 1]
      BY <1>1, <1>3, <2>1, <2>2
    <2>5. i = n - 1 => node'[chain'[i]].next = NULL
      BY <1>3, <2>1, <2>2
    <2>6. i > 1 => node'[chain'[i]].previous = chain'[i - 1]
      BY <1>1, <2>1, <2>2, <2>3
    <2>7. i = 1 => node'[chain'[i]].previous \in {NULL} \cup (1..allocated' \ live')
      <3>1. 1 \in 1..n
        BY <1>1
      <3> QED
        BY <1>2, <1>3, <2>2, <2>3, <3>1
    <2> QED
      BY <1>3, <2>1, <2>2, <2>4, <2>5, <2>6, <2>7
  <1>8. \A i, j \in 1..(n - 1) : chain'[i] = chain'[j] => i = j
    <2> SUFFICES ASSUME NEW i \in 1..(n - 1), NEW j \in 1..(n - 1), chain'[i] = chain'[j]
                 PROVE  i = j
      OBVIOUS
    <2>1. i + 1 \in 1..n /\ j + 1 \in 1..n
      BY <1>1
    <2>2. PICK p, q \in 1..n : p = i + 1 /\ q = j + 1
      BY <2>1
    <2>3. chain[p] = chain[q]
      BY <1>1, <2>2
    <2>4. p = q
      BY <1>3, <2>2, <2>3
    <2> QED
      BY <2>2, <2>4
  <1>9. n - 1 = 0 => head' = NULL
    <2> SUFFICES ASSUME n - 1 = 0 PROVE head' = NULL
      OBVIOUS
    <2>1. n = 1 /\ 1 \in 1..n
      BY <1>1
    <2>2. node[chain[1]].next = NULL
      BY <1>3, <2>1
    <2> QED
      BY <1>2, <2>2
  <1>10. n - 1 > 0 => head' = chain'[1] /\ tail' = chain'[n - 1]
    <2> SUFFICES ASSUME n - 1 > 0 PROVE head' = chain'[1] /\ tail' = chain'[n - 1]
      OBVIOUS
    <2>1. /\ 1 \in 1..n /\ 1 < n /\ 2 \in 1..n
          /\ 1 \in 1..(n - 1) /\ n - 1 \in 1..(n - 1) /\ (n - 1) + 1 = n
      <3>1. n \in Nat /\ n > 1
        BY <1>1
      <3> QED
        BY <3>1
    <2>2. node[chain[1]].next = chain[1 + 1]
      BY <1>3, <2>1
    <2>3. head' = chain[2] /\ chain[2] \in Nodes
      BY <1>2, <2>1, <2>2
    <2>4. head' # NULL
      BY <2>3, NodesTypes
    <2>5. tail' = tail
      BY <2>4
    <2>6. head' = chain'[1]
      BY <1>1, <2>1, <2>3
    <2>7. chain'[n - 1] = chain[(n - 1) + 1]
      BY <1>1, <2>1
    <2>8. chain'[n - 1] = tail
      BY <1>3, <2>1, <2>7
    <2> QED
      BY <2>5, <2>6, <2>8
  <1>11. Len(chain') = n - 1
    BY <1>1
  <1> HIDE DEF n
  <1>12. ChainInv'
    <2>1. (\A i \in 1..Len(chain) : chain[i] \in 1..allocated)'
      BY <1>7, <1>11
    <2>2. (\A i, j \in 1..Len(chain) : chain[i] = chain[j] => i = j)'
      BY <1>8, <1>11
    <2>3. (live = {chain[i] : i \in 1..Len(chain)})'
      BY <1>6, <1>11
    <2>4. /\ (Len(chain) = 0 => head = NULL)'
          /\ (Len(chain) > 0 => head = chain[1] /\ tail = chain[Len(chain)])'
      BY <1>9, <1>10, <1>11
    <2>5. (\A i \in 1..Len(chain) :
             /\ i < Len(chain) => node[chain[i]].next = chain[i + 1]
             /\ i = Len(chain) => node[chain[i]].next = NULL
             /\ i > 1 => node[chain[i]].previous = chain[i - 1]
             /\ i = 1 => node[chain[i]].previous \in {NULL} \cup (1..allocated \ live))'
      BY <1>7, <1>11
    <2> QED
      BY <2>1, <2>2, <2>3, <2>4, <2>5 DEF ChainInv
  <1> QED
    BY <1>5, <1>12

LEMMA PopKeepsInv ==
    ASSUME QueueInv, Pop
    PROVE  QueueInv'
  <1>1. head \in live /\ ~wild /\ head # NULL
    BY ChainLength DEF Pop
  <1>2. wild' = FALSE
    BY <1>1 DEF Pop, Dereference
  <1>3. TypeOK' /\ ChainInv'
    BY <1>1, <1>2, RemovalKeepsChain DEF Pop, AdvanceHead
  <1> QED
    BY <1>2, <1>3 DEF QueueInv, PopNeverWild

(* A head whose previous link is set was pushed behind an item that has    *)
(* been freed since: writing through that link is the wild access.         *)
LEMMA DeleteHeadKeepsInv ==
    ASSUME QueueInv, DeleteHead
    PROVE  QueueInv'
  <1>1. head \in live /\ ~wild /\ head # NULL /\ removal # "pop"
    BY ChainLength DEF DeleteHead
  <1>2. CASE node[head].previous = NULL
    <2>1. wild' = FALSE /\ node' = node /\ head' = node[head].next /\ removal' = removal
      BY <1>1, <1>2 DEF DeleteHead, Dereference
    <2>2. TypeOK' /\ ChainInv'
      BY <1>1, <2>1, RemovalKeepsChain DEF DeleteHead
    <2> QED
      BY <1>1, <2>1, <2>2 DEF QueueInv, PopNeverWild
  <1>3. CASE node[head].previous # NULL
    <2> DEFINE item == node[head]
               Record == [contents : Values \cup {NULL}, next : Links, previous : Links]
    <2>1. /\ node' = [node EXCEPT ![item.previous] = WithNext(@, item.next)]
          /\ head' = head /\ tail' = tail /\ allocated' = allocated /\ removal' = removal
          /\ result' = item.contents /\ live' = live \ {head} /\ chain' = Tail(chain)
          /\ wild' = ~({head, item.previous} \subseteq live)
      BY <1>3 DEF DeleteHead, Dereference
    <2>2. head \in Nodes /\ node \in [Nodes -> Record] /\ item \in Record
      BY <1>1 DEF QueueInv, TypeOK
    <2>3. item.previous \in Nodes
      BY <1>3, <2>2 DEF Links
    <2>4. WithNext(node[item.previous], item.next) \in Record
      BY <2>2, <2>3 DEF WithNext
    <2>5. node' \in [Nodes -> Record]
      BY <2>1, <2>2, <2>4
    <2>6. item.previous \notin live
      <3>1. 1 \in 1..Len(chain) /\ head = chain[1]
        BY <1>1, ChainLength
      <3>2. item.previous \in {NULL} \cup (1..allocated \ live)
        BY <1>1, <3>1 DEF QueueInv, ChainInv
      <3> QED
        BY <1>3, <3>2
    <2>7. chain' \in Seq(Nodes)
      BY <1>1, <2>1, ChainShortened
    <2>8. wild' = TRUE
      BY <2>1, <2>6
    <2>9. result' \in Values \cup {NULL}
      BY <2>1, <2>2
    <2>10. TypeOK'
      BY <2>1, <2>5, <2>7, <2>8, <2>9 DEF QueueInv, TypeOK
    <2> QED
      BY <1>1, <2>1, <2>8, <2>10 DEF QueueInv, ChainInv, PopNeverWild
  <1> QED
    BY <1>2, <1>3

LEMMA PopEmptyKeepsInv ==
    ASSUME QueueInv, PopEmpty
    PROVE  QueueInv'
  <1>1. result' \in Values \cup {NULL}
    BY DEF PopEmpty
  <1> QED
    BY <1>1 DEF PopEmpty, QueueInv, TypeOK, ChainInv, PopNeverWild

LEMMA StutterKeepsInv ==
    ASSUME QueueInv, UNCHANGED vars
    PROVE  QueueInv'
  BY DEF vars, QueueInv, TypeOK, ChainInv, PopNeverWild

THEOREM QueueInvariant == Spec => []QueueInv
  <1>1. Init => QueueInv
    BY QueueInit
  <1>2. QueueInv /\ [Next]_vars => QueueInv'
    <2> SUFFICES ASSUME QueueInv, [Next]_vars PROVE QueueInv'
      OBVIOUS
    <2>1. ASSUME NEW v \in Values, Push(v) PROVE QueueInv'
      BY <2>1, PushFirstKeepsInv, PushBehindKeepsInv
    <2>2. CASE PopEmpty
      BY <2>2, PopEmptyKeepsInv
    <2>3. CASE Pop
      BY <2>3, PopKeepsInv
    <2>4. CASE DeleteHead
      BY <2>4, DeleteHeadKeepsInv
    <2>5. CASE UNCHANGED vars
      BY <2>5, StutterKeepsInv
    <2> QED
      BY <2>1, <2>2, <2>3, <2>4, <2>5 DEF Next
  <1> QED
    BY <1>1, <1>2, PTL DEF Spec

(* Links, contents and results have the types the C structs give them.     *)
THEOREM QueueTypeCorrect == Spec => []TypeOK
  <1>1. QueueInv => TypeOK
    BY DEF QueueInv
  <1> QED
    BY <1>1, QueueInvariant, PTL

(* From the root the next links lead through exactly the items that were   *)
(* pushed and not removed, oldest first, for any number of items and any   *)
(* order of the calls of conbee-queue.c.                                   *)
THEOREM PointersDescribeQueue == Spec => []ListMatchesChain
  <1>1. QueueInv => ListMatchesChain
    <2> SUFFICES ASSUME QueueInv, ~wild PROVE ListMatchesChain
      BY DEF ListMatchesChain
    <2> DEFINE n == Len(chain)
    <2>1. /\ n \in Nat /\ DOMAIN chain = 1..n /\ (chain = <<>> <=> n = 0)
          /\ chain = <<>> <=> head = NULL
      BY ChainLength
    <2>2. live = {chain[i] : i \in DOMAIN chain}
      BY <2>1 DEF QueueInv, ChainInv
    <2>3. chain # <<>> => head = chain[1] /\ tail = chain[n] /\ node[tail].next = NULL
      <3> SUFFICES ASSUME chain # <<>>
                   PROVE  head = chain[1] /\ tail = chain[n] /\ node[tail].next = NULL
        OBVIOUS
      <3>1. n > 0 /\ n \in 1..n
        BY <2>1
      <3>2. head = chain[1] /\ tail = chain[n]
        BY <3>1 DEF QueueInv, ChainInv
      <3>3. node[chain[n]].next = NULL
        BY <3>1 DEF QueueInv, ChainInv
      <3> QED
        BY <3>2, <3>3
    <2>4. \A i \in 1..(n - 1) : node[chain[i]].next = chain[i + 1]
      <3> TAKE i \in 1..(n - 1)
      <3>1. i \in 1..n /\ i < n
        BY <2>1
      <3> QED
        BY <3>1 DEF QueueInv, ChainInv
    <2> QED
      BY <2>1, <2>2, <2>3, <2>4 DEF ListMatchesChain
  <1> QED
    BY <1>1, QueueInvariant, PTL

(* Pushing and popping in any order never touches a freed item, although   *)
(* conbee_queue_pop leaves the new head with a link to the item it frees.  *)
THEOREM PoppingIsSafe == Spec => []PopNeverWild
  <1>1. QueueInv => PopNeverWild
    BY DEF QueueInv
  <1> QED
    BY <1>1, QueueInvariant, PTL
-----------------------------------------------------------------------------
(* The abstract queue that a sequence of addresses and the items at these  *)
(* addresses stand for.                                                    *)
ItemAt(nd, a) == [contents |-> nd[a].contents, linked |-> nd[a].previous # NULL]
ItemsOf(c, nd) == [i \in DOMAIN c |-> ItemAt(nd, c[i])]

ItemRecords == [contents : Values \cup {NULL}, next : Links, previous : Links]
AnyItem == [contents : Values \cup {NULL}, linked : BOOLEAN]

LEMMA ItemsView ==
    ASSUME NEW c \in Seq(Nodes), NEW nd \in [Nodes -> ItemRecords]
    PROVE  /\ ItemsOf(c, nd) \in Seq(AnyItem)
           /\ Len(ItemsOf(c, nd)) = Len(c) /\ Len(c) \in Nat
           /\ \A i \in 1..Len(c) : ItemsOf(c, nd)[i] = ItemAt(nd, c[i])
           /\ ItemsOf(c, nd) = <<>> <=> Len(c) = 0
  <1> DEFINE Items == ItemsOf(c, nd)
  <1>1. Len(c) \in Nat /\ c \in [1..Len(c) -> Nodes] /\ DOMAIN c = 1..Len(c)
    BY LenProperties
  <1>2. ASSUME NEW i \in 1..Len(c) PROVE ItemAt(nd, c[i]) \in AnyItem
    <2>1. nd[c[i]] \in ItemRecords
      BY <1>1
    <2>2. nd[c[i]].contents \in Values \cup {NULL}
      BY <2>1 DEF ItemRecords
    <2> QED
      BY <2>2 DEF ItemAt, AnyItem
  <1>3. Items \in [1..Len(c) -> AnyItem]
    BY <1>1, <1>2 DEF ItemsOf
  <1>4. Items \in Seq(AnyItem)
    BY <1>1, <1>3, SeqDef
  <1>5. Len(Items) = Len(c)
    BY <1>1, <1>3, <1>4, LenProperties
  <1>6. \A i \in 1..Len(c) : Items[i] = ItemAt(nd, c[i])
    BY <1>1 DEF ItemsOf
  <1>7. Items = <<>> <=> Len(c) = 0
    BY <1>1, <1>4, <1>5, EmptySeq
  <1> QED
    BY <1>1, <1>4, <1>5, <1>6, <1>7

(* Pushing an address while the items already there keep their contents    *)
(* and previous links appends one item.                                    *)
LEMMA ItemsAppended ==
    ASSUME NEW c \in Seq(Nodes), NEW nd \in [Nodes -> ItemRecords],
           NEW d \in Seq(Nodes), NEW ne \in [Nodes -> ItemRecords],
           NEW a \in Nodes, d = Append(c, a),
           \A i \in 1..Len(c) : ItemAt(ne, c[i]) = ItemAt(nd, c[i])
    PROVE  ItemsOf(d, ne) = Append(ItemsOf(c, nd), ItemAt(ne, a))
  <1> DEFINE x == ItemAt(ne, a)
             q == ItemsOf(c, nd)
             r == ItemsOf(d, ne)
  <1>1. /\ q \in Seq(AnyItem) /\ Len(q) = Len(c) /\ Len(c) \in Nat
        /\ \A i \in 1..Len(c) : q[i] = ItemAt(nd, c[i])
    BY ItemsView
  <1>2. /\ r \in Seq(AnyItem) /\ Len(r) = Len(d) /\ Len(d) \in Nat
        /\ \A i \in 1..Len(d) : r[i] = ItemAt(ne, d[i])
    BY ItemsView
  <1>3. /\ Len(d) = Len(c) + 1 /\ d[Len(c) + 1] = a
        /\ \A i \in 1..Len(c) : d[i] = c[i]
    BY AppendProperties
  <1>4. x \in AnyItem
    <2>1. ne[a] \in ItemRecords
      OBVIOUS
    <2>2. ne[a].contents \in Values \cup {NULL}
      BY <2>1 DEF ItemRecords
    <2> QED
      BY <2>2 DEF ItemAt, AnyItem
  <1>5. /\ Append(q, x) \in Seq(AnyItem) /\ Len(Append(q, x)) = Len(c) + 1
        /\ \A i \in 1..Len(c) : Append(q, x)[i] = q[i]
        /\ Append(q, x)[Len(c) + 1] = x
    BY <1>1, <1>4, AppendProperties
  <1>6. ASSUME NEW i \in 1..Len(r) PROVE r[i] = Append(q, x)[i]
    <2>1. CASE i = Len(c) + 1
      BY <2>1, <1>1, <1>2, <1>3, <1>5
    <2>2. CASE i \in 1..Len(c)
      BY <2>2, <1>1, <1>2, <1>3, <1>5
    <2> QED
      BY <2>1, <2>2, <1>1, <1>2, <1>3
  <1> HIDE DEF q, r, x
  <1>7. Len(r) = Len(Append(q, x))
    BY <1>2, <1>3, <1>5
  <1>8. r = Append(q, x)
    BY <1>2, <1>5, <1>6, <1>7, SeqEqual
  <1> QED
    BY <1>8 DEF q, r, x

(* Dropping the first address while the other items keep their contents    *)
(* and previous links drops the first item.                                *)
LEMMA ItemsShortened ==
    ASSUME NEW c \in Seq(Nodes), NEW nd \in [Nodes -> ItemRecords],
           NEW d \in Seq(Nodes), NEW ne \in [Nodes -> ItemRecords],
           c # <<>>, d = Tail(c),
           \A i \in 1..Len(c) : ItemAt(ne, c[i]) = ItemAt(nd, c[i])
    PROVE  /\ ItemsOf(d, ne) = Tail(ItemsOf(c, nd))
           /\ Head(ItemsOf(c, nd)) = ItemAt(nd, c[1])
  <1> DEFINE q == ItemsOf(c, nd)
             r == ItemsOf(d, ne)
  <1>1. /\ q \in Seq(AnyItem) /\ Len(q) = Len(c) /\ Len(c) \in Nat
        /\ \A i \in 1..Len(c) : q[i] = ItemAt(nd, c[i])
        /\ q = <<>> <=> Len(c) = 0
    BY ItemsView
  <1>2. /\ r \in Seq(AnyItem) /\ Len(r) = Len(d) /\ Len(d) \in Nat
        /\ \A i \in 1..Len(d) : r[i] = ItemAt(ne, d[i])
    BY ItemsView
  <1>3. Len(c) \in Nat \ {0}
    BY EmptySeq
  <1>4. Len(d) = Len(c) - 1 /\ \A i \in 1..Len(d) : d[i] = c[i + 1]
    BY HeadTailProperties
  <1>5. /\ Tail(q) \in Seq(AnyItem) /\ Len(Tail(q)) = Len(c) - 1
        /\ \A i \in 1..Len(Tail(q)) : Tail(q)[i] = q[i + 1]
    BY <1>1, <1>3, HeadTailProperties
  <1>6. ASSUME NEW i \in 1..Len(r) PROVE r[i] = Tail(q)[i]
    <2>1. i \in 1..Len(d) /\ i \in 1..Len(Tail(q)) /\ i + 1 \in 1..Len(c)
      BY <1>2, <1>3, <1>4, <1>5
    <2> QED
      BY <2>1, <1>1, <1>2, <1>4, <1>5
  <1>7. Head(q) = ItemAt(nd, c[1])
    BY <1>1, <1>3
  <1> HIDE DEF q, r
  <1>8. r = Tail(q)
    BY <1>2, <1>4, <1>5, <1>6, SeqEqual
  <1> QED
    BY <1>7, <1>8 DEF q, r
(* The queue a state of ConbeeQueue stands for; Abstract is FrameQueue     *)
(* with items replaced by it.                                              *)
Items == ItemsOf(chain, node)

LEMMA InvItems ==
    ASSUME QueueInv
    PROVE  /\ chain \in Seq(Nodes) /\ node \in [Nodes -> ItemRecords]
           /\ Items = <<>> <=> chain = <<>>
           /\ ~wild => (head = NULL <=> Items = <<>>)
           /\ ~wild /\ head # NULL => head = chain[1] /\ chain # <<>> /\ head \in Nodes
  <1>1. chain \in Seq(Nodes) /\ node \in [Nodes -> ItemRecords]
    BY DEF QueueInv, TypeOK, ItemRecords
  <1>2. Items = <<>> <=> Len(chain) = 0
    BY <1>1, ItemsView DEF Items
  <1>3. \A i \in 1..Len(chain) : chain[i] \in Nodes
    BY ChainLength
  <1> QED
    BY <1>1, <1>2, <1>3, ChainLength

LEMMA PushRefines ==
    ASSUME QueueInv, NEW v \in Values, Push(v)
    PROVE  Abstract!Push(v)
  <1> DEFINE new == allocated + 1
  <1>1. /\ ~wild /\ allocated < MaxItems /\ allocated' = new /\ result' = result
        /\ chain' = Append(chain, new)
    BY DEF Push
  <1>2. /\ chain' \in Seq(Nodes) /\ new \in Nodes /\ allocated \in Nat
        /\ \A i \in 1..Len(chain) : chain[i] \in 1..allocated /\ chain[i] \in Nodes
    BY <1>1, ChainAppended, ChainLength, QueueAssumption DEF QueueInv, TypeOK, ChainInv
  <1>3. /\ node' \in [Nodes -> ItemRecords]
        /\ node'[new].contents = v
        /\ node'[new].previous # NULL <=> head # NULL
        /\ \A a \in Nodes \ {new} : /\ node'[a].contents = node[a].contents
                                     /\ node'[a].previous = node[a].previous
        /\ wild' = wild
    <2>1. CASE head = NULL
      <3>1. node' = [node EXCEPT ![new] = NewItem(v, NULL)] /\ wild' = wild
        BY <2>1 DEF Push, PushFirst
      <3>2. NewItem(v, NULL) \in ItemRecords
        BY DEF NewItem, ItemRecords, Links
      <3>3. node' \in [Nodes -> ItemRecords] /\ node'[new] = NewItem(v, NULL)
        BY <1>2, <3>1, <3>2, InvItems
      <3>4. \A a \in Nodes \ {new} : node'[a] = node[a]
        BY <3>1, InvItems
      <3>5. node'[new].contents = v /\ node'[new].previous = NULL
        BY <3>3 DEF NewItem
      <3> QED
        BY <2>1, <3>1, <3>3, <3>4, <3>5
    <2>2. CASE head # NULL
      <3>1. /\ wild = FALSE /\ wild' = FALSE
            /\ node' \in [Nodes -> ItemRecords]
            /\ node'[new] = NewItem(v, tail)
        BY <2>2, PushBehindEffect DEF ItemRecords
      <3>2. \A a \in Nodes \ {new} : /\ node'[a].contents = node[a].contents
                                     /\ node'[a].previous = node[a].previous
        BY <2>2, PushBehindEffect
      <3>3. node'[new].contents = v /\ node'[new].previous = tail
        BY <3>1 DEF NewItem
      <3>4. tail # NULL
        <4>1. tail \in Nodes
          BY <1>1, <2>2, ChainLength DEF QueueInv, TypeOK
        <4> QED
          BY <4>1, NodesTypes
      <3> QED
        BY <2>2, <3>1, <3>2, <3>3, <3>4
    <2> QED
      BY <2>1, <2>2
  <1>4. ASSUME NEW i \in 1..Len(chain)
        PROVE  ItemAt(node', chain[i]) = ItemAt(node, chain[i])
    <2>1. chain[i] \in Nodes \ {new}
      BY <1>2
    <2> QED
      BY <1>3, <2>1 DEF ItemAt
  <1>5. ItemAt(node', new) = [contents |-> v, linked |-> Items # <<>>]
    BY <1>1, <1>3, InvItems DEF ItemAt
  <1>6. Items' = Append(Items, [contents |-> v, linked |-> Items # <<>>])
    <2>1. Items' = Append(Items, ItemAt(node', new))
      BY <1>1, <1>2, <1>3, <1>4, InvItems, ItemsAppended DEF Items
    <2> QED
      BY <1>5, <2>1
  <1> QED
    BY <1>1, <1>3, <1>6
    DEF Abstract!Push, Abstract!QueuePush, Items, ItemsOf, ItemAt
LEMMA PopEmptyRefines ==
    ASSUME QueueInv, PopEmpty
    PROVE  Abstract!PopEmpty
  <1>1. ~wild /\ Items = <<>> /\ Items' = Items
    BY InvItems DEF PopEmpty, Items
  <1> QED
    BY <1>1 DEF PopEmpty, Abstract!PopEmpty, Items, ItemsOf, ItemAt

LEMMA PopRefines ==
    ASSUME QueueInv, Pop
    PROVE  Abstract!Pop
  <1>1. /\ ~wild /\ head # NULL /\ node' = node /\ allocated' = allocated
        /\ chain' = Tail(chain) /\ result' = node[head].contents
    BY DEF Pop
  <1>2. wild' = wild
    <2>1. head \in live /\ wild = FALSE
      BY <1>1, ChainLength DEF QueueInv, TypeOK
    <2> QED
      BY <2>1 DEF Pop, Dereference
  <1>3. chain' \in Seq(Nodes) /\ chain # <<>> /\ head = chain[1] /\ Items # <<>>
    BY <1>1, ChainShortened, InvItems
  <1>4. /\ Items' = Tail(Items)
        /\ Head(Items) = ItemAt(node, head)
    BY <1>1, <1>3, InvItems, ItemsShortened DEF Items
  <1>5. result' = Head(Items).contents
    BY <1>1, <1>4 DEF ItemAt
  <1> QED
    BY <1>1, <1>2, <1>3, <1>4, <1>5
    DEF Abstract!Pop, Abstract!QueuePop, Items, ItemsOf, ItemAt

LEMMA DeleteHeadRefines ==
    ASSUME QueueInv, DeleteHead
    PROVE  Abstract!DeleteHead
  <1>1. /\ ~wild /\ head # NULL /\ allocated' = allocated
        /\ chain' = Tail(chain) /\ result' = node[head].contents
    BY DEF DeleteHead
  <1>2. chain' \in Seq(Nodes) /\ chain # <<>> /\ head = chain[1] /\ head \in Nodes /\ Items # <<>>
    BY <1>1, ChainShortened, InvItems
  <1>3. node[head] \in ItemRecords /\ head \in live
    BY <1>1, <1>2, InvItems, ChainLength
  <1>4. /\ node' \in [Nodes -> ItemRecords]
        /\ \A a \in Nodes : ItemAt(node', a) = ItemAt(node, a)
        /\ wild' = (node[head].previous # NULL)
    <2>1. CASE node[head].previous = NULL
      <3>1. node' = node /\ wild' = FALSE
        BY <1>3, <2>1 DEF DeleteHead, Dereference
      <3> QED
        BY <2>1, <3>1, InvItems
    <2>2. CASE node[head].previous # NULL
      <3> DEFINE item == node[head]
      <3>1. /\ node' = [node EXCEPT ![item.previous] = WithNext(@, item.next)]
            /\ wild' = ~({head, item.previous} \subseteq live)
        BY <2>2 DEF DeleteHead, Dereference
      <3>2. item.previous \in Nodes
        BY <1>3, <2>2 DEF ItemRecords, Links
      <3>3. WithNext(node[item.previous], item.next) \in ItemRecords
        BY <1>3, <3>2, InvItems DEF WithNext, ItemRecords
      <3>4. node' \in [Nodes -> ItemRecords]
        BY <3>1, <3>3, InvItems
      <3>5. ASSUME NEW a \in Nodes PROVE ItemAt(node', a) = ItemAt(node, a)
        <4>1. node'[a] = IF a = item.previous THEN WithNext(node[a], item.next) ELSE node[a]
          BY <3>1, InvItems
        <4> QED
          BY <4>1 DEF WithNext, ItemAt
      <3>6. wild' = TRUE
        <4>1. 1 \in 1..Len(chain)
          BY <1>2, ChainLength, EmptySeq, InvItems
        <4>2. item.previous \in {NULL} \cup (1..allocated \ live)
          BY <1>1, <1>2, <4>1 DEF QueueInv, ChainInv
        <4> QED
          BY <2>2, <3>1, <4>2
      <3> QED
        BY <2>2, <3>4, <3>5, <3>6
    <2> QED
      BY <2>1, <2>2
  <1>5. \A i \in 1..Len(chain) : ItemAt(node', chain[i]) = ItemAt(node, chain[i])
    BY <1>4, ChainLength
  <1>6. /\ Items' = Tail(Items)
        /\ Head(Items) = ItemAt(node, head)
    BY <1>1, <1>2, <1>4, <1>5, InvItems, ItemsShortened DEF Items
  <1>7. result' = Head(Items).contents /\ wild' = Head(Items).linked
    BY <1>1, <1>4, <1>6 DEF ItemAt
  <1> QED
    BY <1>1, <1>2, <1>6, <1>7
    DEF Abstract!DeleteHead, Abstract!QueueDeleteHead, Abstract!DeleteIsStale,
        Items, ItemsOf, ItemAt

(* conbee-queue.c keeps what its callers count on: contents leave in the   *)
(* order of the pushes, each once, until a head is deleted whose           *)
(* predecessor has been freed, for any number of items and any order of    *)
(* the calls.                                                              *)
THEOREM ListImplementsQueue == Spec => ImplementsFrameQueue
  <1>1. Init => Abstract!Init
    <2> SUFFICES ASSUME Init PROVE Abstract!Init
      OBVIOUS
    <2>1. QueueInv /\ chain = <<>>
      BY QueueInit DEF Init
    <2>2. Items = <<>>
      BY <2>1, InvItems
    <2> QED
      BY <2>2 DEF Init, Abstract!Init, Items, ItemsOf, ItemAt
  <1>2. QueueInv /\ [Next]_vars => [Abstract!Next]_(Abstract!vars)
    <2> SUFFICES ASSUME QueueInv, [Next]_vars
                 PROVE  [Abstract!Next]_(Abstract!vars)
      OBVIOUS
    <2>1. ASSUME NEW v \in Values, Push(v) PROVE Abstract!Next
      BY <2>1, PushRefines DEF Abstract!Next
    <2>2. CASE PopEmpty
      BY <2>2, PopEmptyRefines DEF Abstract!Next
    <2>3. CASE Pop
      BY <2>3, PopRefines DEF Abstract!Next
    <2>4. CASE DeleteHead
      BY <2>4, DeleteHeadRefines DEF Abstract!Next
    <2>5. CASE UNCHANGED vars
      BY <2>5 DEF vars, Abstract!vars
    <2> QED
      BY <2>1, <2>2, <2>3, <2>4, <2>5 DEF Next
  <1> QED
    BY <1>1, <1>2, QueueInvariant, PTL DEF Spec, ImplementsFrameQueue, Abstract!Spec
=============================================================================
