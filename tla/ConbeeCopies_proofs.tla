------------------------ MODULE ConbeeCopies_proofs ------------------------
(***************************************************************************)
(* Proof that no request is sent twice and no answer handed out twice      *)
(* (AtMostOneCopy), and that the device implements RequestService.  The    *)
(* copies of a request are counted place by place.                         *)
(***************************************************************************)
EXTENDS ConbeeAnswer_proofs, FunctionTheorems

(* The places of a sequence that hold an element of P, counted.            *)
At(q, P) == {k \in DOMAIN q : q[k] \in P}

One(condition) == IF condition THEN 1 ELSE 0

LEMMA AtFinite ==
    ASSUME NEW S, NEW q \in Seq(S), NEW P
    PROVE  /\ IsFiniteSet(At(q, P)) /\ Cardinality(At(q, P)) \in Nat
           /\ Cardinality(At(q, P)) = 0 <=> At(q, P) = {}
  <1>1. At(q, P) \in SUBSET (1..Len(q)) /\ Len(q) \in Nat
    BY LenProperties DEF At
  <1>2. IsFiniteSet(1..Len(q))
    BY <1>1, FS_Interval
  <1> QED
    BY <1>1, <1>2, FS_Subset, FS_CardinalityType, FS_EmptySet

LEMMA AtAppend ==
    ASSUME NEW S, NEW q \in Seq(S), NEW x \in S, NEW P
    PROVE  Cardinality(At(Append(q, x), P)) = Cardinality(At(q, P)) + One(x \in P)
  <1> DEFINE n == Len(q) + 1
  <1>1. DOMAIN q = 1..Len(q) /\ Len(q) \in Nat
    BY LenProperties
  <1>2. /\ DOMAIN Append(q, x) = 1..n
        /\ \A k \in 1..Len(q) : Append(q, x)[k] = q[k]
        /\ Append(q, x)[n] = x
    BY AppendProperties, LenProperties
  <1>3. 1..n = (1..Len(q)) \cup {n} /\ n \notin 1..Len(q)
    BY <1>1
  <1> HIDE DEF n
  <1>4. CASE x \in P
    <2>1. At(Append(q, x), P) = At(q, P) \cup {n} /\ n \notin At(q, P)
      BY <1>1, <1>2, <1>3, <1>4 DEF At
    <2> QED
      <3>1. IsFiniteSet(At(q, P))
        BY AtFinite
      <3>2. Cardinality(At(q, P) \cup {n}) = Cardinality(At(q, P)) + 1
        BY <2>1, <3>1, FS_AddElement
      <3> QED
        BY <1>4, <2>1, <3>2 DEF One
  <1>5. CASE x \notin P
    <2>1. At(Append(q, x), P) = At(q, P)
      BY <1>1, <1>2, <1>3, <1>5 DEF At
    <2>2. Cardinality(At(q, P)) \in Nat
      BY AtFinite
    <2> QED
      BY <1>5, <2>1, <2>2 DEF One
  <1> QED
    BY <1>4, <1>5

LEMMA AtTail ==
    ASSUME NEW S, NEW q \in Seq(S), q # <<>>, NEW P
    PROVE  Cardinality(At(q, P)) = Cardinality(At(Tail(q), P)) + One(Head(q) \in P)
  <1> DEFINE T == At(q, P) \ {1}
             f == [k \in At(Tail(q), P) |-> k + 1]
  <1>1. DOMAIN q = 1..Len(q) /\ Len(q) \in Nat /\ Len(q) > 0
    BY LenProperties, EmptySeq
  <1>2. /\ DOMAIN Tail(q) = 1..Len(q) - 1 /\ Tail(q) \in Seq(S)
        /\ \A k \in 1..Len(q) - 1 : Tail(q)[k] = q[k + 1]
        /\ Head(q) = q[1]
    BY <1>1, HeadTailProperties, LenProperties
  <1>3. f \in Bijection(At(Tail(q), P), T)
    <2>1. \A k \in At(Tail(q), P) : k \in Nat /\ k + 1 \in T
      BY <1>1, <1>2 DEF At
    <2>2. \A m \in T : m - 1 \in At(Tail(q), P) /\ m = (m - 1) + 1
      BY <1>1, <1>2 DEF At
    <2>3. f \in [At(Tail(q), P) -> T]
      BY <2>1
    <2>4. \A a, b \in At(Tail(q), P) : f[a] = f[b] => a = b
      BY <2>1
    <2>5. \A m \in T : f[m - 1] = m
      BY <2>2
    <2> HIDE DEF f, T
    <2> QED
      BY <2>2, <2>3, <2>4, <2>5, Fun_IsBij
  <1>4. Cardinality(T) = Cardinality(At(Tail(q), P))
    <2>1. IsFiniteSet(At(Tail(q), P))
      BY <1>2, AtFinite
    <2>2. ExistsBijection(At(Tail(q), P), T)
      BY <1>3 DEF ExistsBijection
    <2> HIDE DEF T
    <2> QED
      BY <2>1, <2>2, FS_Bijection
  <1>5. 1 \in At(q, P) <=> Head(q) \in P
    BY <1>1, <1>2 DEF At
  <1>6. Cardinality(T) = IF 1 \in At(q, P) THEN Cardinality(At(q, P)) - 1
                                           ELSE Cardinality(At(q, P))
    BY AtFinite, FS_RemoveElement
  <1>7. Cardinality(At(q, P)) \in Nat
    BY AtFinite
  <1> QED
    BY <1>4, <1>5, <1>6, <1>7 DEF One

-----------------------------------------------------------------------------
(* The copies of request i: under way, place by place, and with clients.   *)
Pushing(i)  == {c \in Clients : pc[c] = "push" /\ call[c].id = i}
AtStick(i)  == {r \in stick : r.id = i}
OnWire(l, i) == {k \in DOMAIN l : l[k].frame.id = i}
Holding(i)  == {c \in Clients : got[c].id = i}

Moving(i) == Cardinality(Indices(send_queue, i)) + One(frame.id = i)
               + Cardinality(AtStick(i)) + Cardinality(OnWire(line, i))
               + Cardinality(Indices(receive_queue, i))
Under(i) == Cardinality(Pushing(i)) + Moving(i)
Held(i) == Cardinality(Holding(i))

LEMMA QueueCounts ==
    ASSUME NEW q \in Seq(Item(Frame)), NEW i
    PROVE  /\ Cardinality(Indices(q, i)) \in Nat
           /\ Cardinality(Indices(q, i)) = 0 <=> Indices(q, i) = {}
           /\ \A x \in Frame : Cardinality(Indices(QueuePush(q, x), i))
                                = Cardinality(Indices(q, i)) + One(x.id = i)
           /\ q # <<>> => Cardinality(Indices(q, i))
                            = Cardinality(Indices(Tail(q), i)) + One(Head(q).contents.id = i)
  <1> DEFINE P == {x \in Item(Frame) : x.contents.id = i}
  <1>1. ASSUME NEW s \in Seq(Item(Frame)) PROVE Indices(s, i) = At(s, P)
    <2>1. \A k \in DOMAIN s : s[k] \in Item(Frame)
      BY LenProperties, ElementOfSeq
    <2> QED
      BY <2>1 DEF Indices, At
  <1>2. \A x \in Item(Frame) : x \in P <=> x.contents.id = i
    OBVIOUS
  <1> HIDE DEF P
  <1>3. /\ Cardinality(Indices(q, i)) \in Nat
        /\ Cardinality(Indices(q, i)) = 0 <=> Indices(q, i) = {}
    BY <1>1, AtFinite
  <1>4. ASSUME NEW x \in Frame
        PROVE  Cardinality(Indices(QueuePush(q, x), i))
                 = Cardinality(Indices(q, i)) + One(x.id = i)
    <2> DEFINE item == [contents |-> x, linked |-> q # <<>>]
    <2>1. item \in Item(Frame) /\ item.contents = x
      BY DEF Item
    <2>2. QueuePush(q, x) = Append(q, item)
      BY DEF QueuePush
    <2> HIDE DEF item
    <2>3. Append(q, item) \in Seq(Item(Frame))
      BY <2>1, AppendProperties
    <2>4. Cardinality(At(Append(q, item), P)) = Cardinality(At(q, P)) + One(item \in P)
      BY <2>1, AtAppend
    <2>5. item \in P <=> x.id = i
      BY <1>2, <2>1
    <2> QED
      BY <1>1, <2>2, <2>3, <2>4, <2>5 DEF One
  <1>5. ASSUME q # <<>>
        PROVE  Cardinality(Indices(q, i))
                 = Cardinality(Indices(Tail(q), i)) + One(Head(q).contents.id = i)
    <2>1. Tail(q) \in Seq(Item(Frame)) /\ Head(q) \in Item(Frame)
      BY <1>5, HeadTailProperties
    <2>2. Cardinality(At(q, P)) = Cardinality(At(Tail(q), P)) + One(Head(q) \in P)
      BY <1>5, AtTail
    <2>3. Head(q) \in P <=> Head(q).contents.id = i
      BY <1>2, <2>1
    <2> QED
      BY <1>1, <2>1, <2>2, <2>3 DEF One
  <1> QED
    BY <1>3, <1>4, <1>5

LEMMA LineCounts ==
    ASSUME NEW l \in Seq(Packet), NEW i
    PROVE  /\ Cardinality(OnWire(l, i)) \in Nat
           /\ Cardinality(OnWire(l, i)) = 0 <=> OnWire(l, i) = {}
           /\ \A x \in Packet : Cardinality(OnWire(Append(l, x), i))
                                 = Cardinality(OnWire(l, i)) + One(x.frame.id = i)
           /\ l # <<>> => Cardinality(OnWire(l, i))
                            = Cardinality(OnWire(Tail(l), i)) + One(Head(l).frame.id = i)
  <1> DEFINE P == {x \in Packet : x.frame.id = i}
  <1>1. ASSUME NEW s \in Seq(Packet) PROVE OnWire(s, i) = At(s, P)
    <2>1. \A k \in DOMAIN s : s[k] \in Packet
      BY LenProperties, ElementOfSeq
    <2> QED
      BY <2>1 DEF OnWire, At
  <1>2. \A x \in Packet : x \in P <=> x.frame.id = i
    OBVIOUS
  <1> HIDE DEF P
  <1>3. /\ Cardinality(OnWire(l, i)) \in Nat
        /\ Cardinality(OnWire(l, i)) = 0 <=> OnWire(l, i) = {}
    BY <1>1, AtFinite
  <1>4. ASSUME NEW x \in Packet
        PROVE  Cardinality(OnWire(Append(l, x), i))
                 = Cardinality(OnWire(l, i)) + One(x.frame.id = i)
    <2>1. Append(l, x) \in Seq(Packet)
      BY AppendProperties
    <2>2. Cardinality(At(Append(l, x), P)) = Cardinality(At(l, P)) + One(x \in P)
      BY AtAppend
    <2> QED
      BY <1>1, <1>2, <2>1, <2>2 DEF One
  <1>5. ASSUME l # <<>>
        PROVE  Cardinality(OnWire(l, i))
                 = Cardinality(OnWire(Tail(l), i)) + One(Head(l).frame.id = i)
    <2>1. Tail(l) \in Seq(Packet) /\ Head(l) \in Packet
      BY <1>5, HeadTailProperties
    <2>2. Cardinality(At(l, P)) = Cardinality(At(Tail(l), P)) + One(Head(l) \in P)
      BY <1>5, AtTail
    <2> QED
      BY <1>1, <1>2, <2>1, <2>2 DEF One
  <1> QED
    BY <1>3, <1>4, <1>5

LEMMA EmptyCounts ==
    \A i : Cardinality(Indices(<<>>, i)) = 0 /\ Cardinality(OnWire(<<>>, i)) = 0
  <1>1. \A i : Indices(<<>>, i) = {} /\ OnWire(<<>>, i) = {}
    BY EmptySeq DEF Indices, OnWire
  <1> QED
    BY <1>1, FS_EmptySet

(* Subsets of the clients and of the requests at the stick are counted.    *)
LEMMA SetCounts ==
    ASSUME NEW T, NEW U \in SUBSET T, IsFiniteSet(T)
    PROVE  /\ IsFiniteSet(U)
           /\ Cardinality(U) \in Nat /\ Cardinality(T) \in Nat
           /\ Cardinality(U) <= Cardinality(T)
           /\ Cardinality(U) = 0 <=> U = {}
  BY FS_Subset, FS_CardinalityType, FS_EmptySet

Parts(i) ==
    /\ Cardinality(Pushing(i)) \in Nat /\ Cardinality(Indices(send_queue, i)) \in Nat
    /\ Cardinality(AtStick(i)) \in Nat /\ Cardinality(OnWire(line, i)) \in Nat
    /\ Cardinality(Indices(receive_queue, i)) \in Nat /\ Cardinality(Holding(i)) \in Nat
    /\ One(frame.id = i) \in Nat

(* The summands of Moving, as numbers.                                     *)
Amounts(i, s, o, k, l, q) ==
    /\ Cardinality(Indices(send_queue, i)) = s /\ One(frame.id = i) = o
    /\ Cardinality(AtStick(i)) = k /\ Cardinality(OnWire(line, i)) = l
    /\ Cardinality(Indices(receive_queue, i)) = q

LEMMA AmountsExist ==
    \A i : Parts(i) => \E s, o, k, l, q \in Nat : Amounts(i, s, o, k, l, q)
  BY DEF Parts, Amounts

LEMMA AmountsExistNext ==
    \A i : Parts(i)' => \E s, o, k, l, q \in Nat : Amounts(i, s, o, k, l, q)'
  BY DEF Parts, Amounts

LEMMA MovingIs ==
    \A i, s, o, k, l, q : Amounts(i, s, o, k, l, q) => Moving(i) = s + o + k + l + q
  BY DEF Amounts, Moving

LEMMA MovingIsNext ==
    \A i, s, o, k, l, q : Amounts(i, s, o, k, l, q)' => Moving(i)' = s + o + k + l + q
  BY DEF Amounts, Moving

LEMMA PartsNat == TypeOK /\ IsFiniteSet(stick) => \A i : Parts(i)
  <1> SUFFICES ASSUME TypeOK, IsFiniteSet(stick), NEW i PROVE Parts(i)
    OBVIOUS
  <1>1. /\ Cardinality(Indices(send_queue, i)) \in Nat
        /\ Cardinality(Indices(receive_queue, i)) \in Nat
    BY QueueCounts DEF TypeOK
  <1>2. Cardinality(OnWire(line, i)) \in Nat
    BY LineCounts DEF TypeOK
  <1>3. /\ Cardinality(Pushing(i)) \in Nat /\ Cardinality(AtStick(i)) \in Nat
        /\ Cardinality(Holding(i)) \in Nat
    <2>1. /\ Pushing(i) \in SUBSET Clients /\ AtStick(i) \in SUBSET stick
          /\ Holding(i) \in SUBSET Clients
      BY DEF Pushing, AtStick, Holding
    <2> QED
      BY <2>1, SetCounts, DeviceAssumption
  <1> QED
    BY <1>1, <1>2, <1>3 DEF Parts, One

LEMMA PartsNatNext == (TypeOK /\ IsFiniteSet(stick))' => (\A i : Parts(i))'
  BY PartsNat, PTL

LEMMA CopiesAre ==
    TypeOK /\ IsFiniteSet(stick) =>
        \A i : /\ Under(i) \in Nat /\ Held(i) \in Nat
               /\ Copies(i) = Under(i) + Held(i)
  <1> SUFFICES ASSUME TypeOK, IsFiniteSet(stick), NEW i
               PROVE  /\ Under(i) \in Nat /\ Held(i) \in Nat
                      /\ Copies(i) = Under(i) + Held(i)
    OBVIOUS
  <1>1. Parts(i)
    BY PartsNat
  <1>2. Copies(i) = Cardinality(Pushing(i)) + Cardinality(Indices(send_queue, i))
                      + One(frame.id = i) + Cardinality(AtStick(i))
                      + Cardinality(OnWire(line, i)) + Cardinality(Indices(receive_queue, i))
                      + Cardinality(Holding(i))
    BY DEF Copies, Pushing, One, AtStick, OnWire, Holding
  <1> QED
    BY <1>1, <1>2 DEF Parts, Under, Moving, Held

LEMMA CopiesAreNext ==
    (TypeOK /\ IsFiniteSet(stick))' =>
        (\A i : /\ Under(i) \in Nat /\ Held(i) \in Nat
                /\ Copies(i) = Under(i) + Held(i))'
  BY CopiesAre, PTL

-----------------------------------------------------------------------------
(* What a step does to the copies: it keeps or loses some, numbers a new   *)
(* request, or moves one to a client.                                      *)
Ids == Nat \ {0}

Fades ==
    /\ issued' = issued
    /\ \A i \in Ids : Under(i)' <= Under(i) /\ Held(i)' <= Held(i)
Numbers ==
    /\ issued' = issued + 1
    /\ \A i \in Ids : Under(i)' = Under(i) + One(i = issued + 1) /\ Held(i)' = Held(i)
Answers ==
    /\ issued' = issued
    /\ \E n \in Nat : \A i \in Ids : /\ Under(i) = Under(i)' + One(i = n)
                                    /\ Held(i)' = Held(i) + One(i = n)

(* A client holds a frame only from the search to the end of its call.     *)
HeldByGot == \A c \in Clients : pc[c] # "got" => got[c] = BlankFrame

CopiesInv == AnswerInv /\ IsFiniteSet(stick) /\ HeldByGot

(* A step that starts no request and hands none out fades copies if the    *)
(* frames that move do.                                                    *)
LEMMA FadesWhen ==
    ASSUME CopiesInv, TypeOK', IsFiniteSet(stick'), issued' = issued,
           \A c \in Clients : /\ pc'[c] = "push" => pc[c] = "push" /\ call'[c] = call[c]
                              /\ got'[c] \in {got[c], BlankFrame},
           \A i \in Ids : Moving(i)' <= Moving(i)
    PROVE  Fades
  <1> SUFFICES ASSUME NEW i \in Ids PROVE Under(i)' <= Under(i) /\ Held(i)' <= Held(i)
    BY DEF Fades
  <1>1. Parts(i) /\ Parts(i)'
    BY PartsNat, PartsNatNext DEF CopiesInv, AnswerInv
  <1>2. Cardinality(Pushing(i)') <= Cardinality(Pushing(i))
    <2>1. Pushing(i)' \in SUBSET Pushing(i) /\ Pushing(i) \in SUBSET Clients
      BY DEF Pushing
    <2>2. IsFiniteSet(Pushing(i))
      BY <2>1, SetCounts, DeviceAssumption
    <2> QED
      BY <2>1, <2>2, SetCounts
  <1>3. Cardinality(Holding(i)') <= Cardinality(Holding(i))
    <2>1. Holding(i)' \in SUBSET Holding(i) /\ Holding(i) \in SUBSET Clients
      BY DEF Holding, BlankFrame, Ids
    <2>2. IsFiniteSet(Holding(i))
      BY <2>1, SetCounts, DeviceAssumption
    <2> QED
      BY <2>1, <2>2, SetCounts
  <1>4. Moving(i) \in Nat /\ Moving(i)' \in Nat
    BY <1>1 DEF Parts, Moving
  <1>5. Under(i)' <= Under(i)
    BY <1>1, <1>2, <1>4 DEF Under, Parts
  <1> QED
    BY <1>3, <1>5 DEF Held

LEMMA CopiesMain ==
    ASSUME CopiesInv, TypeOK',
           ConnectOpen \/ ConnectFail \/ CloseRequest \/ MainStep \/ Restart
    PROVE  Fades /\ stick' = stick
  <1>1. /\ issued' = issued /\ stick' = stick
        /\ send_queue' \in {send_queue, <<>>} /\ receive_queue' \in {receive_queue, <<>>}
        /\ line' \in {line, <<>>} /\ frame' \in {frame, BlankFrame}
    BY DEF ConnectOpen, ConnectFail, ConnectReset, CloseRequest, MainStep, ConnectReturn,
           ClosePollDone, CloseJoin, Restart, DropLine, workerVars, sendVars, recvVars,
           clientVars, seqVars, stickVars
  <1>2. \A c \in Clients : /\ pc'[c] = "push" => pc[c] = "push" /\ call'[c] = call[c]
                           /\ got'[c] \in {got[c], BlankFrame}
    BY DEF ConnectOpen, ConnectFail, ConnectReset, CloseRequest, MainStep, ConnectReturn,
           ClosePollDone, CloseJoin, Restart, clientVars
  <1>3. ASSUME NEW i \in Ids PROVE Moving(i)' <= Moving(i)
    <2>1. Parts(i)
      BY PartsNat DEF CopiesInv, AnswerInv
    <2>2. /\ Cardinality(Indices(send_queue', i)) <= Cardinality(Indices(send_queue, i))
          /\ Cardinality(Indices(receive_queue', i)) <= Cardinality(Indices(receive_queue, i))
          /\ Cardinality(OnWire(line', i)) <= Cardinality(OnWire(line, i))
      BY <1>1, <2>1, EmptyCounts DEF Parts
    <2>3. One(frame'.id = i) <= One(frame.id = i) /\ One(frame'.id = i) \in Nat
      BY <1>1 DEF One, BlankFrame, Ids
    <2>4. AtStick(i)' = AtStick(i)
      BY <1>1 DEF AtStick
    <2>5. Parts(i)'
      BY <1>1, PartsNatNext DEF CopiesInv
    <2> QED
      BY <2>1, <2>2, <2>3, <2>4, <2>5 DEF Moving, Parts
  <1> QED
    BY <1>1, <1>2, <1>3, FadesWhen DEF CopiesInv

LEMMA CopiesWorker ==
    ASSUME CopiesInv, TypeOK', WorkerStep
    PROVE  Fades /\ IsFiniteSet(stick')
  <1>0. TypeOK /\ IsFiniteSet(stick)
    BY DEF CopiesInv, AnswerInv
  <1>1. issued' = issued /\ UNCHANGED <<call, got>>
    BY DEF WorkerStep, WorkerStart, WorkerCheck, SelectInput, SelectWakeUp, SelectTimeout,
           ReadUnconnected, ReadPacket, WorkerDeliver, WorkerPop, WorkerWrite, WorkerExit,
           clientVars, seqVars
  <1>2. \A c \in Clients : pc'[c] = "push" => pc[c] = "push"
    BY <1>0 DEF WorkerStep, WorkerStart, WorkerCheck, SelectInput, SelectWakeUp,
                SelectTimeout, ReadUnconnected, ReadPacket, WorkerDeliver, WorkerPop,
                WorkerWrite, WorkerExit, Signal, clientVars, TypeOK
  <1>3. stick' = stick \/ stick' = stick \cup {frame}
    BY DEF WorkerStep, WorkerStart, WorkerCheck, SelectInput, SelectWakeUp, SelectTimeout,
           ReadUnconnected, ReadPacket, WorkerDeliver, WorkerPop, WorkerWrite, WorkerExit,
           stickVars
  <1>4. IsFiniteSet(stick')
    BY <1>0, <1>3, FS_AddElement
  <1>5. ASSUME NEW i \in Ids PROVE Moving(i)' <= Moving(i)
    <2>1. Parts(i) /\ Parts(i)'
      BY <1>0, <1>4, PartsNat, PartsNatNext
    <2>2. One(BlankFrame.id = i) = 0
      BY DEF BlankFrame, One, Ids
    <2>3. CASE ReadPacket
      <3>1. /\ line # <<>> /\ line' = Tail(line)
            /\ frame' \in {frame, Head(line).frame}
            /\ UNCHANGED <<send_queue, receive_queue, stick>>
        BY <2>3 DEF ReadPacket, sendVars, recvVars
      <3>2. Cardinality(OnWire(line, i))
              = Cardinality(OnWire(line', i)) + One(Head(line).frame.id = i)
        <4>1. line \in Seq(Packet)
          BY <1>0 DEF TypeOK
        <4> QED
          BY <3>1, <4>1, LineCounts
      <3>3. AtStick(i)' = AtStick(i)
        BY <3>1 DEF AtStick
      <3>4. One((frame.id = i)') <= One(frame.id = i) + One(Head(line).frame.id = i)
        <4>1. frame' = frame \/ frame' = Head(line).frame
          BY <3>1
        <4> QED
          BY <4>1 DEF One
      <3>5. One(Head(line).frame.id = i) \in Nat
        BY DEF One
      <3>6. /\ Indices(send_queue, i)' = Indices(send_queue, i)
            /\ Indices(receive_queue, i)' = Indices(receive_queue, i)
        BY <3>1
      <3> QED
        BY <2>1, <3>2, <3>3, <3>4, <3>5, <3>6 DEF Moving, Parts
    <2>4. CASE WorkerDeliver
      <3>1. /\ receive_queue' = QueuePush(receive_queue, frame) /\ frame' = BlankFrame
            /\ UNCHANGED <<send_queue, line, stick>>
        BY <2>4 DEF WorkerDeliver, sendVars, stickVars
      <3>2. Cardinality(Indices(receive_queue', i))
              = Cardinality(Indices(receive_queue, i)) + One(frame.id = i)
        <4>1. receive_queue \in Seq(Item(Frame)) /\ frame \in Frame
          BY <1>0 DEF TypeOK
        <4> QED
          BY <3>1, <4>1, QueueCounts
      <3>3. AtStick(i)' = AtStick(i)
        BY <3>1 DEF AtStick
      <3> QED
        BY <2>1, <2>2, <3>1, <3>2, <3>3 DEF Moving, Parts, One
    <2>5. CASE WorkerPop /\ send_queue # <<>>
      <3>1. /\ send_queue' = Tail(send_queue) /\ frame' = Head(send_queue).contents
            /\ UNCHANGED <<receive_queue, line, stick>>
        BY <2>5 DEF WorkerPop, QueuePop, recvVars, stickVars
      <3>2. Cardinality(Indices(send_queue, i))
              = Cardinality(Indices(send_queue', i)) + One(frame'.id = i)
        <4>1. send_queue \in Seq(Item(Frame))
          BY <1>0 DEF TypeOK
        <4> QED
          BY <2>5, <3>1, <4>1, QueueCounts
      <3>3. AtStick(i)' = AtStick(i)
        BY <3>1 DEF AtStick
      <3>4. PICK s, o, k, l, q \in Nat : Amounts(i, s, o, k, l, q)
        BY <2>1, AmountsExist
      <3>5. PICK m, n \in Nat : m = Cardinality(Indices(send_queue', i)) /\ n = One(frame'.id = i)
        BY <2>1 DEF Parts
      <3>6. s = m + n
        BY <3>2, <3>4, <3>5 DEF Amounts
      <3>7. Amounts(i, m, n, k, l, q)'
        BY <3>1, <3>3, <3>4, <3>5 DEF Amounts
      <3>8. m + n + k + l + q <= s + o + k + l + q
        BY <3>6
      <3> QED
        BY <3>4, <3>7, <3>8, MovingIs, MovingIsNext
    <2>6. CASE WorkerWrite
      <3>1. /\ stick' \in {stick, stick \cup {frame}} /\ frame' = BlankFrame
            /\ UNCHANGED <<receive_queue, send_queue, line>>
        BY <2>6 DEF WorkerWrite, sendVars, recvVars
      <3>2. Cardinality(AtStick(i)') <= Cardinality(AtStick(i)) + One(frame.id = i)
        <4>1. AtStick(i)' = AtStick(i) \/ (AtStick(i)' = AtStick(i) \cup {frame} /\ frame.id = i)
          BY <3>1 DEF AtStick
        <4>2. IsFiniteSet(AtStick(i))
          <5>1. AtStick(i) \in SUBSET stick
            BY DEF AtStick
          <5> QED
            BY <1>0, <5>1, SetCounts
        <4>3. Cardinality(AtStick(i) \cup {frame}) <= Cardinality(AtStick(i)) + 1
          <5>1. Cardinality(AtStick(i)) \in Nat
            BY <2>1 DEF Parts
          <5>2. Cardinality(AtStick(i) \cup {frame})
                  = IF frame \in AtStick(i) THEN Cardinality(AtStick(i))
                                            ELSE Cardinality(AtStick(i)) + 1
            BY <4>2, FS_AddElement
          <5> QED
            BY <5>1, <5>2
        <4>4. CASE AtStick(i)' = AtStick(i)
          BY <2>1, <4>4 DEF One, Parts
        <4>5. CASE AtStick(i)' = AtStick(i) \cup {frame} /\ frame.id = i
          BY <4>3, <4>5 DEF One
        <4> QED
          BY <4>1, <4>4, <4>5
      <3> QED
        BY <2>1, <2>2, <3>1, <3>2 DEF Moving, Parts, One
    <2>7. CASE SelectInput
      <3>1. frame' = BlankFrame /\ UNCHANGED <<receive_queue, send_queue, line, stick>>
        BY <2>7 DEF SelectInput, sendVars, recvVars, stickVars
      <3>2. AtStick(i)' = AtStick(i)
        BY <3>1 DEF AtStick
      <3> QED
        BY <2>1, <2>2, <3>1, <3>2 DEF Moving, Parts, One
    <2>8. CASE \/ WorkerStart \/ WorkerCheck \/ SelectWakeUp \/ SelectTimeout
               \/ ReadUnconnected \/ WorkerExit \/ (WorkerPop /\ send_queue = <<>>)
      <3>1. UNCHANGED <<frame, receive_queue, send_queue, line, stick>>
        BY <2>8 DEF WorkerStart, WorkerCheck, SelectWakeUp, SelectTimeout, ReadUnconnected,
                    WorkerExit, WorkerPop, sendVars, recvVars, stickVars
      <3>2. Moving(i)' = Moving(i)
        BY <3>1 DEF Moving, AtStick
      <3> QED
        BY <2>1, <3>2 DEF Moving, Parts
    <2> QED
      BY <2>3, <2>4, <2>5, <2>6, <2>7, <2>8 DEF WorkerStep
  <1> QED
    BY <1>1, <1>2, <1>4, <1>5, FadesWhen

LEMMA CopiesStick ==
    ASSUME CopiesInv, TypeOK', StickStep
    PROVE  Fades /\ IsFiniteSet(stick')
  <1>0. TypeOK /\ IsFiniteSet(stick)
    BY DEF CopiesInv, AnswerInv
  <1>1. UNCHANGED <<issued, call, got, pc, frame, send_queue, receive_queue>>
    BY DEF StickStep, StickAnswer, StickNotice, LineNoise, LineSplit, LineResume, workerVars, sendVars,
           recvVars, clientVars, seqVars
  <1>2. stick' \in SUBSET stick
    BY DEF StickStep, StickAnswer, StickNotice, LineNoise, LineSplit, LineResume
  <1>3. IsFiniteSet(stick')
    BY <1>0, <1>2, FS_Subset
  <1>4. ASSUME NEW f \in Frame, NEW i \in Ids, Arrives(f)
        PROVE  Cardinality(OnWire(line', i)) <= Cardinality(OnWire(line, i)) + One(f.id = i)
    <2> DEFINE p == [kind |-> "good", frame |-> f]
    <2>1. p \in Packet /\ p.frame = f
      BY DEF Packet
    <2>2. line' = line \/ line' = Append(line, p)
      BY <1>4 DEF Arrives
    <2> HIDE DEF p
    <2>3. Cardinality(OnWire(line, i)) \in Nat
      BY <1>0, LineCounts DEF TypeOK
    <2>4. Cardinality(OnWire(Append(line, p), i))
            = Cardinality(OnWire(line, i)) + One(p.frame.id = i)
      <3>1. line \in Seq(Packet)
        BY <1>0 DEF TypeOK
      <3> QED
        BY <2>1, <3>1, LineCounts
    <2>5. CASE line' = line
      BY <2>3, <2>5 DEF One
    <2>6. CASE line' = Append(line, p)
      BY <2>1, <2>3, <2>4, <2>6 DEF One
    <2> QED
      BY <2>2, <2>5, <2>6
  <1>5. ASSUME NEW kind \in {"good", "damaged", "cut"}, LastBecomes(kind), NEW i \in Ids
        PROVE  OnWire(line', i) = OnWire(line, i)
    BY <1>5 DEF OnWire, LastBecomes, LastAs
  <1>7. ASSUME LineSplit, NEW i \in Ids
        PROVE  Cardinality(OnWire(line', i)) = Cardinality(OnWire(line, i))
    <2> DEFINE p == [kind |-> "damaged", frame |-> BlankFrame]
    <2>1. PICK b : b = LastAs("damaged")
      OBVIOUS
    <2>2. b \in Seq(Packet)
      BY <1>0, <1>7, <2>1, LineTypes DEF LineSplit, TypeOK
    <2>3. OnWire(b, i) = OnWire(line, i)
      BY <2>1 DEF OnWire, LastAs
    <2>4. p \in Packet /\ p.frame.id # i
      BY ValueTypes DEF Packet, BlankFrame, Ids
    <2>5. line' = Append(b, p)
      BY <1>7, <2>1 DEF LineSplit
    <2> HIDE DEF p
    <2>6. Cardinality(OnWire(line', i)) = Cardinality(OnWire(b, i)) + One(p.frame.id = i)
      BY <2>2, <2>4, <2>5, LineCounts
    <2>7. Cardinality(OnWire(b, i)) \in Nat /\ One(p.frame.id = i) = 0
      BY <2>2, <2>4, LineCounts DEF One
    <2> QED
      BY <2>3, <2>6, <2>7
  <1>6. ASSUME NEW i \in Ids PROVE Moving(i)' <= Moving(i)
    <2>1. Parts(i) /\ Parts(i)'
      BY <1>0, <1>3, PartsNat, PartsNatNext
    <2>2. ASSUME NEW r \in stick, StickAnswer(r)
          PROVE  Cardinality(AtStick(i)') + Cardinality(OnWire(line', i))
                   <= Cardinality(AtStick(i)) + Cardinality(OnWire(line, i))
      <3>1. Cardinality(OnWire(line', i)) <= Cardinality(OnWire(line, i)) + One(r.id = i)
        BY <1>0, <1>4, <2>2 DEF StickAnswer, TypeOK
      <3>2. stick' = stick \ {r}
        BY <2>2 DEF StickAnswer
      <3>3. AtStick(i)' = AtStick(i) \ {r} /\ (r.id = i => r \in AtStick(i))
        BY <3>2 DEF AtStick
      <3>4. AtStick(i) \in SUBSET stick
        BY DEF AtStick
      <3>5. Cardinality(AtStick(i)') = IF r \in AtStick(i) THEN Cardinality(AtStick(i)) - 1
                                                          ELSE Cardinality(AtStick(i))
        BY <1>0, <3>3, <3>4, FS_RemoveElement, SetCounts
      <3>6. Cardinality(AtStick(i)') + One(r.id = i) <= Cardinality(AtStick(i))
        BY <2>1, <3>3, <3>5 DEF One, Parts
      <3> QED
        BY <2>1, <3>1, <3>6 DEF One, Parts
    <2>3. ASSUME NEW s \in Sequences8, StickNotice(s)
          PROVE  AtStick(i)' = AtStick(i)
                 /\ Cardinality(OnWire(line', i)) <= Cardinality(OnWire(line, i))
      <3> DEFINE n == [id |-> 0, command |-> COMMAND_DEVICE_STATE_CHANGED, seq |-> s]
      <3>1. n \in Frame /\ n.id # i
        BY DEF Frame, AllCommands, Ids
      <3>2. Arrives(n) /\ stick' = stick
        BY <2>3 DEF StickNotice
      <3> HIDE DEF n
      <3>3. Cardinality(OnWire(line', i)) <= Cardinality(OnWire(line, i)) + One(n.id = i)
        BY <1>4, <3>1, <3>2
      <3> QED
        BY <2>1, <3>1, <3>2, <3>3 DEF One, AtStick, Parts
    <2>4. CASE LineResume \/ \E kind \in {"damaged", "cut"} : LineNoise(kind)
      <3>1. OnWire(line', i) = OnWire(line, i) /\ stick' = stick
        BY <1>5, <2>4 DEF LineResume, LineNoise
      <3> QED
        BY <1>1, <2>1, <3>1 DEF Moving, AtStick, Parts
    <2>5. CASE \/ \E r \in stick : StickAnswer(r)
               \/ \E s \in Sequences8 : StickNotice(s)
      <3>1. Cardinality(AtStick(i)') + Cardinality(OnWire(line', i))
              <= Cardinality(AtStick(i)) + Cardinality(OnWire(line, i))
        BY <2>1, <2>2, <2>3, <2>5 DEF Parts
      <3> QED
        BY <1>1, <2>1, <3>1 DEF Moving, Parts
    <2>6. CASE LineSplit
      <3>1. /\ Cardinality(OnWire(line', i)) = Cardinality(OnWire(line, i))
            /\ AtStick(i)' = AtStick(i)
        BY <1>7, <2>6 DEF LineSplit, AtStick
      <3> QED
        BY <1>1, <2>1, <3>1 DEF Moving, Parts
    <2> QED
      BY <2>4, <2>5, <2>6 DEF StickStep
  <1> QED
    BY <1>1, <1>3, <1>6, FadesWhen

(* A frame found moves to its client, any other step of a client loses or  *)
(* keeps copies.                                                           *)
LEMMA CopiesClient ==
    ASSUME CopiesInv, TypeOK', NEW c \in Clients, ClientStep(c) \/ WaitSpurious(c)
    PROVE  stick' = stick /\ (Fades \/ Answers)
  <1>0. TypeOK /\ IsFiniteSet(stick)
    BY DEF CopiesInv, AnswerInv
  <1>1. stick' = stick
    BY DEF ClientStep, EnqueuePush, EnqueueWakeUp, WaitFound, WaitStuck, WaitEmpty, WaitSleep,
           WaitSpurious, Finish, stickVars
  <1>2. \A i \in Ids : Parts(i) /\ Parts(i)'
    BY <1>0, <1>1, PartsNat, PartsNatNext
  <1>3. CASE EnqueuePush(c)
    <2>1. /\ UNCHANGED <<issued, call, got, receive_queue, frame, line, stick>>
          /\ send_queue' = QueuePush(send_queue, Request(call[c]))
          /\ pc[c] = "push" /\ pc' = [pc EXCEPT ![c] = "wake"]
      BY <1>3 DEF EnqueuePush, workerVars, recvVars, seqVars, stickVars
    <2> SUFFICES ASSUME NEW i \in Ids PROVE Under(i)' <= Under(i) /\ Held(i)' <= Held(i)
      BY <1>1, <2>1 DEF Fades
    <2>2. Request(call[c]) \in Frame /\ Request(call[c]).id = call[c].id
      BY <1>0, ValueTypes DEF TypeOK, Request
    <2>3. Cardinality(Indices(send_queue', i))
            = Cardinality(Indices(send_queue, i)) + One(call[c].id = i)
      <3>1. send_queue \in Seq(Item(Frame))
        BY <1>0 DEF TypeOK
      <3> QED
        BY <2>1, <2>2, <3>1, QueueCounts
    <2>4. Pushing(i)' = Pushing(i) \ {c} /\ (c \in Pushing(i) <=> call[c].id = i)
      BY <1>0, <2>1 DEF Pushing, TypeOK
    <2>5. Pushing(i) \in SUBSET Clients
      BY DEF Pushing
    <2>6. Cardinality(Pushing(i)') = IF c \in Pushing(i) THEN Cardinality(Pushing(i)) - 1
                                                         ELSE Cardinality(Pushing(i))
      BY <2>4, <2>5, FS_RemoveElement, SetCounts, DeviceAssumption
    <2>7. Parts(i) /\ Parts(i)'
      BY <1>2
    <2>8. Cardinality(Pushing(i)') + One(call[c].id = i) = Cardinality(Pushing(i))
      BY <2>4, <2>6, <2>7 DEF One, Parts
    <2>9. Moving(i)' = Moving(i) + One(call[c].id = i)
      <3>1. /\ AtStick(i)' = AtStick(i) /\ OnWire(line, i)' = OnWire(line, i)
            /\ Indices(receive_queue, i)' = Indices(receive_queue, i)
            /\ One(frame.id = i)' = One(frame.id = i)
        BY <2>1 DEF AtStick
      <3>2. One(call[c].id = i) \in Nat
        BY DEF One
      <3> QED
        BY <2>3, <2>7, <3>1, <3>2 DEF Moving, Parts
    <2>10. Holding(i)' = Holding(i)
      BY <2>1 DEF Holding
    <2>11. Moving(i) \in Nat /\ One(call[c].id = i) \in Nat
      BY <2>7 DEF Moving, Parts, One
    <2> QED
      BY <2>7, <2>8, <2>9, <2>10, <2>11 DEF Under, Held, Parts
  <1>4. CASE WaitFound(c)
    <2> DEFINE n == Head(receive_queue).contents.id
    <2>1. /\ UNCHANGED <<issued, call, send_queue, frame, line, stick>>
          /\ receive_queue # <<>> /\ receive_queue' = Tail(receive_queue)
          /\ got' = [got EXCEPT ![c] = Head(receive_queue).contents]
          /\ pc[c] \in {"search", "woken"} /\ pc' = [pc EXCEPT ![c] = "got"]
      BY <1>4 DEF WaitFound, Searching, QueueDeleteHead, workerVars, sendVars, seqVars,
                  stickVars
    <2>2. n \in Nat
      BY <1>0, <2>1, QueueTypes DEF TypeOK, Frame
    <2>3. ASSUME NEW i \in Ids
          PROVE  Under(i) = Under(i)' + One(i = n) /\ Held(i)' = Held(i) + One(i = n)
      <3>1. Parts(i) /\ Parts(i)'
        BY <1>2
      <3>2. Cardinality(Indices(receive_queue, i))
              = Cardinality(Indices(receive_queue', i)) + One(n = i)
        BY <1>0, <2>1, QueueCounts DEF TypeOK
      <3>3. Pushing(i)' = Pushing(i) /\ AtStick(i)' = AtStick(i)
            /\ OnWire(line, i)' = OnWire(line, i)
            /\ Indices(send_queue, i)' = Indices(send_queue, i)
            /\ One(frame.id = i)' = One(frame.id = i)
        BY <1>0, <2>1 DEF Pushing, AtStick, TypeOK
      <3>4. One(n = i) = One(i = n) /\ One(i = n) \in Nat
        BY DEF One
      <3>5. Under(i) = Under(i)' + One(i = n)
        BY <3>1, <3>2, <3>3, <3>4 DEF Under, Moving, Parts
      <3>6. got[c].id # i
        BY <2>1 DEF CopiesInv, HeldByGot, BlankFrame, Ids
      <3>7. Holding(i) \in SUBSET Clients
        BY DEF Holding
      <3>8. CASE i = n
        <4>1. Holding(i)' = Holding(i) \cup {c} /\ c \notin Holding(i)
          BY <1>0, <2>1, <3>6, <3>8 DEF Holding, TypeOK
        <4>2. Cardinality(Holding(i)') = Cardinality(Holding(i)) + 1
          BY <3>7, <4>1, FS_AddElement, SetCounts, DeviceAssumption
        <4> QED
          BY <3>5, <3>8, <4>2 DEF Held, One
      <3>9. CASE i # n
        <4>1. Holding(i)' = Holding(i)
          BY <1>0, <2>1, <3>6, <3>9 DEF Holding, TypeOK
        <4> QED
          BY <3>1, <3>5, <3>9, <4>1 DEF Held, One, Parts
      <3> QED
        BY <3>8, <3>9
    <2> HIDE DEF n
    <2> QED
      BY <1>1, <2>1, <2>2, <2>3 DEF Answers
  <1>5. CASE \/ EnqueueWakeUp(c) \/ WaitStuck(c) \/ WaitEmpty(c) \/ WaitSleep(c)
             \/ WaitSpurious(c) \/ Finish(c)
    <2>1. UNCHANGED <<issued, send_queue, receive_queue, frame, line, stick>>
      BY <1>5 DEF EnqueueWakeUp, WaitStuck, WaitEmpty, WaitSleep, WaitSpurious, Finish,
                  workerVars, sendVars, recvVars, seqVars, stickVars
    <2>2. \A d \in Clients : /\ pc'[d] = "push" => pc[d] = "push" /\ call'[d] = call[d]
                             /\ got'[d] \in {got[d], BlankFrame}
      BY <1>0, <1>5 DEF EnqueueWakeUp, WaitStuck, WaitEmpty, WaitSleep, WaitSpurious, Finish,
                        Searching, TypeOK
    <2>3. \A i \in Ids : Moving(i)' = Moving(i)
      BY <2>1 DEF Moving, AtStick
    <2>4. \A i \in Ids : Moving(i) \in Nat
      BY <1>2 DEF Moving, Parts
    <2>5. Fades
      BY <1>0, <2>1, <2>2, <2>3, <2>4, FadesWhen
    <2> QED
      BY <1>1, <2>5
  <1> QED
    BY <1>3, <1>4, <1>5 DEF ClientStep

(* A request is numbered: a new copy, with its client.                     *)
LEMMA CopiesEnqueue ==
    ASSUME CopiesInv, TypeOK',
           NEW c \in Clients, NEW command \in Commands, NEW want \in Wanted(command),
           EnqueueTakeSequence(c, command, want)
    PROVE  stick' = stick /\ Numbers /\ issued < MaxRequests
  <1>0. TypeOK /\ IsFiniteSet(stick)
    BY DEF CopiesInv, AnswerInv
  <1>1. /\ issued' = issued + 1 /\ issued < MaxRequests
        /\ UNCHANGED <<got, send_queue, receive_queue, frame, line, stick>>
        /\ pc[c] = "idle" /\ pc' = [pc EXCEPT ![c] = "push"]
        /\ \A d \in Clients : d # c => call'[d] = call[d]
        /\ call'[c].id = issued + 1
    BY <1>0 DEF EnqueueTakeSequence, workerVars, sendVars, recvVars, stickVars, TypeOK
  <1>2. ASSUME NEW i \in Ids
        PROVE  Under(i)' = Under(i) + One(i = issued + 1) /\ Held(i)' = Held(i)
    <2>1. Parts(i) /\ Parts(i)'
      BY <1>0, <1>1, PartsNat, PartsNatNext
    <2>2. Holding(i)' = Holding(i) /\ AtStick(i)' = AtStick(i)
          /\ OnWire(line, i)' = OnWire(line, i)
          /\ Indices(send_queue, i)' = Indices(send_queue, i)
          /\ Indices(receive_queue, i)' = Indices(receive_queue, i)
          /\ One(frame.id = i)' = One(frame.id = i)
      BY <1>1 DEF Holding, AtStick
    <2>3. Pushing(i) \in SUBSET Clients
      BY DEF Pushing
    <2>4. Cardinality(Pushing(i)') = Cardinality(Pushing(i)) + One(i = issued + 1)
      <3>1. CASE i = issued + 1
        <4>1. Pushing(i)' = Pushing(i) \cup {c} /\ c \notin Pushing(i)
          BY <1>0, <1>1, <3>1 DEF Pushing, TypeOK
        <4>2. Cardinality(Pushing(i)') = Cardinality(Pushing(i)) + 1
          BY <2>3, <4>1, FS_AddElement, SetCounts, DeviceAssumption
        <4> QED
          BY <3>1, <4>2 DEF One
      <3>2. CASE i # issued + 1
        <4>1. Pushing(i)' = Pushing(i)
          BY <1>0, <1>1, <3>2 DEF Pushing, TypeOK
        <4> QED
          BY <2>1, <3>2, <4>1 DEF One, Parts
      <3> QED
        BY <3>1, <3>2
    <2>5. One(i = issued + 1) \in Nat
      BY DEF One
    <2> QED
      BY <2>1, <2>2, <2>4, <2>5 DEF Under, Moving, Held, Parts
  <1> QED
    BY <1>1, <1>2 DEF Numbers

LEMMA StepKinds ==
    ASSUME CopiesInv, TypeOK', [Next]_vars
    PROVE  /\ IsFiniteSet(stick')
           /\ Fades \/ (Numbers /\ issued < MaxRequests) \/ Answers
  <1>1. CASE UNCHANGED vars
    <2>1. UNCHANGED <<issued, pc, call, got, send_queue, receive_queue, frame, line, stick>>
      BY <1>1 DEF vars, workerVars, sendVars, recvVars, clientVars, seqVars, stickVars
    <2>2. \A i \in Ids : Under(i)' = Under(i) /\ Held(i)' = Held(i)
      BY <2>1 DEF Under, Moving, Held, Pushing, AtStick, Holding
    <2>3. \A i \in Ids : Under(i) \in Nat /\ Held(i) \in Nat
      BY CopiesAre DEF CopiesInv, AnswerInv
    <2> QED
      BY <2>1, <2>2, <2>3 DEF Fades, CopiesInv
  <1>2. CASE ConnectOpen \/ ConnectFail \/ CloseRequest \/ MainStep \/ Restart
    BY <1>2, CopiesMain DEF CopiesInv
  <1>3. ASSUME NEW c \in Clients, ClientStep(c) \/ WaitSpurious(c)
        PROVE  IsFiniteSet(stick') /\ (Fades \/ Answers)
    BY <1>3, CopiesClient DEF CopiesInv
  <1>4. ASSUME NEW c \in Clients, NEW command \in Commands, NEW want \in Wanted(command),
               EnqueueTakeSequence(c, command, want)
        PROVE  IsFiniteSet(stick') /\ Numbers /\ issued < MaxRequests
    BY <1>4, CopiesEnqueue DEF CopiesInv
  <1> QED
    BY <1>1, <1>2, <1>3, <1>4, CopiesWorker, CopiesStick DEF Next

LEMMA HeldNext == CopiesInv /\ [Next]_vars => HeldByGot'
  <1> SUFFICES ASSUME CopiesInv, [Next]_vars PROVE HeldByGot'
    OBVIOUS
  <1>0. TypeOK
    BY DEF CopiesInv, AnswerInv
  <1>1. ASSUME NEW c \in Clients, ClientStep(c) \/ WaitSpurious(c)
        PROVE  HeldByGot'
    <2>1. CASE WaitFound(c)
      BY <1>0, <2>1 DEF WaitFound, HeldByGot, CopiesInv, TypeOK
    <2>2. CASE Finish(c)
      BY <1>0, <2>2 DEF Finish, HeldByGot, CopiesInv, TypeOK
    <2>3. CASE \/ EnqueuePush(c) \/ EnqueueWakeUp(c) \/ WaitStuck(c) \/ WaitEmpty(c)
               \/ WaitSleep(c) \/ WaitSpurious(c)
      <3>1. got' = got /\ pc[c] # "got" /\ \A d \in Clients : d # c => pc'[d] = pc[d]
        BY <1>0, <2>3 DEF EnqueuePush, EnqueueWakeUp, WaitStuck, WaitEmpty, WaitSleep,
                          WaitSpurious, Searching, TypeOK
      <3> QED
        BY <3>1 DEF HeldByGot, CopiesInv
    <2> QED
      BY <1>1, <2>1, <2>2, <2>3 DEF ClientStep
  <1>2. ASSUME NEW c \in Clients, NEW command \in Commands, NEW want \in Wanted(command),
               EnqueueTakeSequence(c, command, want)
        PROVE  HeldByGot'
    BY <1>0, <1>2 DEF EnqueueTakeSequence, HeldByGot, CopiesInv, TypeOK
  <1>3. CASE WorkerStep
    <2>1. \A c \in Clients : got'[c] = got[c] /\ (pc'[c] # "got" => pc[c] # "got")
      BY <1>0, <1>3 DEF WorkerStep, WorkerStart, WorkerCheck, SelectInput, SelectWakeUp,
                        SelectTimeout, ReadUnconnected, ReadPacket, WorkerDeliver, WorkerPop,
                        WorkerWrite, WorkerExit, Signal, clientVars, TypeOK
    <2> QED
      BY <2>1 DEF HeldByGot, CopiesInv
  <1>4. CASE \/ ConnectOpen \/ ConnectFail \/ CloseRequest \/ MainStep \/ Restart
             \/ StickStep \/ UNCHANGED vars
    BY <1>4 DEF ConnectOpen, ConnectFail, ConnectReset, CloseRequest, MainStep, ConnectReturn,
                ClosePollDone, CloseJoin, Restart, StickStep, StickAnswer, StickNotice,
                LineNoise, LineSplit, LineResume, vars, clientVars, HeldByGot, CopiesInv
  <1> QED
    BY <1>1, <1>2, <1>3, <1>4 DEF Next

LEMMA CopiesInvNext == CopiesInv /\ [Next]_vars => CopiesInv' /\ TypeOK'
  BY AnswerNext, HeldNext, StepKinds DEF CopiesInv, AnswerInv

(* Nothing of a request exists before it is numbered.                      *)
LEMMA FreshNumber ==
    ASSUME CopiesInv, NEW i \in Ids, i > issued
    PROVE  Under(i) = 0 /\ Held(i) = 0
  <1>0. TypeOK /\ Parts(i) /\ issued \in Nat /\ base \in Nat
    BY PartsNat, DeviceAssumption DEF CopiesInv, AnswerInv, TypeOK
  <1>1. \A f \in Everywhere : f.id # i
    BY <1>0 DEF CopiesInv, AnswerInv, FramesTraced, Traced, Ids
  <1>2. Pushing(i) = {}
    BY <1>0 DEF CopiesInv, AnswerInv, CallsTraced, Pushing, Ids
  <1>3. Indices(send_queue, i) = {} /\ Indices(receive_queue, i) = {}
    BY <1>1 DEF Indices, Everywhere, Frames
  <1>4. AtStick(i) = {} /\ OnWire(line, i) = {} /\ Holding(i) = {}
    BY <1>1 DEF AtStick, OnWire, Holding, Everywhere, OnLine, Given
  <1>5. One(frame.id = i) = 0
    BY <1>1 DEF Everywhere, One
  <1> QED
    BY <1>2, <1>3, <1>4, <1>5, FS_EmptySet DEF Under, Moving, Held

LEMMA CopiesInit == Init => CopiesInv /\ AtMostOneCopy
  <1> SUFFICES ASSUME Init PROVE CopiesInv /\ AtMostOneCopy
    OBVIOUS
  <1>1. AnswerInv
    BY AnswerInit
  <1>2. IsFiniteSet(stick) /\ HeldByGot
    BY FS_EmptySet DEF Init, HeldByGot
  <1>3. 1..issued = {}
    BY DEF Init
  <1> QED
    BY <1>1, <1>2, <1>3 DEF CopiesInv, AtMostOneCopy

LEMMA OneCopyNext == CopiesInv /\ AtMostOneCopy /\ [Next]_vars => AtMostOneCopy'
  <1> SUFFICES ASSUME CopiesInv, AtMostOneCopy, [Next]_vars, NEW i \in 1..issued'
               PROVE  Copies(i)' <= 1
    BY DEF AtMostOneCopy
  <1>1. CopiesInv' /\ TypeOK' /\ TypeOK /\ IsFiniteSet(stick) /\ IsFiniteSet(stick')
    BY CopiesInvNext DEF CopiesInv, AnswerInv
  <1>2. (\A k : Under(k) \in Nat /\ Held(k) \in Nat /\ Copies(k) = Under(k) + Held(k))'
    BY <1>1, CopiesAreNext
  <1>3. /\ Under(i) \in Nat /\ Held(i) \in Nat /\ Copies(i) = Under(i) + Held(i)
        /\ Under(i)' \in Nat /\ Held(i)' \in Nat /\ Copies(i)' = Under(i)' + Held(i)'
    BY <1>1, <1>2, CopiesAre
  <1>4. issued \in Nat /\ issued' \in Nat /\ i \in Ids
    BY <1>1, DeviceAssumption DEF TypeOK, Ids
  <1>5. i \in 1..issued => Under(i) + Held(i) <= 1
    BY <1>3 DEF AtMostOneCopy
  <1>6. CASE Fades
    BY <1>3, <1>4, <1>5, <1>6 DEF Fades
  <1>7. CASE Answers
    <2>1. PICK n \in Nat : Under(i) = Under(i)' + One(i = n) /\ Held(i)' = Held(i) + One(i = n)
      BY <1>4, <1>7 DEF Answers
    <2>2. i \in 1..issued
      BY <1>7 DEF Answers
    <2> QED
      BY <1>3, <1>5, <2>1, <2>2 DEF One
  <1>8. CASE Numbers
    <2>1. Under(i)' = Under(i) + One(i = issued + 1) /\ Held(i)' = Held(i)
      BY <1>4, <1>8 DEF Numbers
    <2>2. CASE i = issued + 1
      <3>1. Under(i) = 0 /\ Held(i) = 0
        BY <1>4, <2>2, FreshNumber
      <3> QED
        BY <1>3, <2>1, <2>2, <3>1 DEF One
    <2>3. CASE i # issued + 1
      <3>1. i \in 1..issued
        BY <1>4, <1>8, <2>3 DEF Numbers
      <3> QED
        BY <1>3, <1>5, <2>1, <2>3, <3>1 DEF One
    <2> QED
      BY <2>2, <2>3
  <1> QED
    BY <1>1, <1>6, <1>7, <1>8, StepKinds

(* Whatever the order of threads, losses, restarts and connections, a      *)
(* request is at one place at a time and so is its answer: neither is sent *)
(* or handed out again.                                                    *)
THEOREM NothingTwice == Spec => []AtMostOneCopy
  BY CopiesInit, CopiesInvNext, OneCopyNext, PTL DEF Spec

-----------------------------------------------------------------------------
(* The device implements RequestService: what a request has come to is     *)
(* read off the numbers of its copies.                                     *)
View(i) == IF i > issued THEN "unused"
           ELSE IF Held(i) # 0 THEN "answered"
           ELSE IF Under(i) # 0 THEN "pending"
           ELSE "over"

Views == ServiceState = [k \in 1..MaxRequests |-> View(k)]

LEMMA ExistsCounted ==
    TypeOK /\ IsFiniteSet(stick) =>
        \A i : /\ (\E c \in Clients : got[c].id = i) <=> Held(i) # 0
               /\ Exists(i) <=> Under(i) # 0
  <1> SUFFICES ASSUME TypeOK, IsFiniteSet(stick), NEW i
               PROVE  /\ (\E c \in Clients : got[c].id = i) <=> Held(i) # 0
                      /\ Exists(i) <=> Under(i) # 0
    OBVIOUS
  <1>1. Parts(i)
    BY PartsNat
  <1>2. /\ Pushing(i) \in SUBSET Clients /\ AtStick(i) \in SUBSET stick
        /\ Holding(i) \in SUBSET Clients
    BY DEF Pushing, AtStick, Holding
  <1>3. /\ Cardinality(Pushing(i)) = 0 <=> Pushing(i) = {}
        /\ Cardinality(AtStick(i)) = 0 <=> AtStick(i) = {}
        /\ Cardinality(Holding(i)) = 0 <=> Holding(i) = {}
    BY <1>2, SetCounts, DeviceAssumption
  <1>4. /\ Cardinality(Indices(send_queue, i)) = 0 <=> Indices(send_queue, i) = {}
        /\ Cardinality(Indices(receive_queue, i)) = 0 <=> Indices(receive_queue, i) = {}
    BY QueueCounts DEF TypeOK
  <1>5. Cardinality(OnWire(line, i)) = 0 <=> OnWire(line, i) = {}
    BY LineCounts DEF TypeOK
  <1>6. Holding(i) # {} <=> \E c \in Clients : got[c].id = i
    BY DEF Holding
  <1>7. /\ Pushing(i) # {} <=> \E c \in Clients : pc[c] = "push" /\ call[c].id = i
        /\ AtStick(i) # {} <=> \E f \in stick : f.id = i
        /\ OnWire(line, i) # {} <=> \E k \in DOMAIN line : line[k].frame.id = i
        /\ One(frame.id = i) # 0 <=> frame.id = i
    BY DEF Pushing, AtStick, OnWire, One
  <1>8. Exists(i) <=> \/ Pushing(i) # {} \/ AtStick(i) # {} \/ OnWire(line, i) # {}
                      \/ One(frame.id = i) # 0
                      \/ Indices(send_queue, i) # {} \/ Indices(receive_queue, i) # {}
    <2>1. Indices(send_queue, i) \cup Indices(receive_queue, i) # {}
            <=> Indices(send_queue, i) # {} \/ Indices(receive_queue, i) # {}
      OBVIOUS
    <2> QED
      BY <1>7, <2>1 DEF Exists
  <1>9. Under(i) # 0 <=> \/ Cardinality(Pushing(i)) # 0 \/ Cardinality(AtStick(i)) # 0
                         \/ Cardinality(OnWire(line, i)) # 0 \/ One(frame.id = i) # 0
                         \/ Cardinality(Indices(send_queue, i)) # 0
                         \/ Cardinality(Indices(receive_queue, i)) # 0
    <2> DEFINE p == Cardinality(Pushing(i))
               s == Cardinality(AtStick(i))
               w == Cardinality(OnWire(line, i))
               q == Cardinality(Indices(send_queue, i))
               r == Cardinality(Indices(receive_queue, i))
               f == One(frame.id = i)
    <2>1. p \in Nat /\ s \in Nat /\ w \in Nat /\ q \in Nat /\ r \in Nat /\ f \in Nat
      BY <1>1 DEF Parts
    <2>2. Under(i) = p + (q + f + s + w + r)
      BY DEF Under, Moving
    <2> HIDE DEF p, s, w, q, r, f
    <2>3. Under(i) # 0 <=> p # 0 \/ s # 0 \/ w # 0 \/ f # 0 \/ q # 0 \/ r # 0
      BY <2>1, <2>2
    <2> QED
      BY <2>3 DEF p, s, w, q, r, f
  <1>10. Exists(i) <=> Under(i) # 0
    BY <1>3, <1>4, <1>5, <1>8, <1>9
  <1> QED
    BY <1>3, <1>6, <1>10 DEF Held

LEMMA StateIsView == TypeOK /\ IsFiniteSet(stick) => Views
  <1> SUFFICES ASSUME TypeOK, IsFiniteSet(stick) PROVE Views
    OBVIOUS
  <1>1. \A k \in 1..MaxRequests :
           View(k) = IF k > issued THEN "unused"
                     ELSE IF \E c \in Clients : got[c].id = k THEN "answered"
                     ELSE IF Exists(k) THEN "pending"
                     ELSE "over"
    BY ExistsCounted DEF View
  <1> QED
    BY <1>1 DEF Views, ServiceState

(* A request whose answer a client holds exists nowhere else.              *)
LEMMA HeldIsGone ==
    CopiesInv /\ AtMostOneCopy =>
        \A c \in Clients : got[c].id \in 1..issued => ~Exists(got[c].id)
  <1> SUFFICES ASSUME CopiesInv, AtMostOneCopy, NEW c \in Clients, got[c].id \in 1..issued
               PROVE  ~Exists(got[c].id)
    OBVIOUS
  <1>1. TypeOK /\ IsFiniteSet(stick)
    BY DEF CopiesInv, AnswerInv
  <1>2. Under(got[c].id) \in Nat /\ Held(got[c].id) \in Nat
        /\ Under(got[c].id) + Held(got[c].id) <= 1
    BY <1>1, CopiesAre DEF AtMostOneCopy
  <1>3. Held(got[c].id) # 0
    BY <1>1, ExistsCounted
  <1>4. Under(got[c].id) = 0
    BY <1>2, <1>3
  <1> QED
    BY <1>1, <1>4, ExistsCounted

LEMMA StateIsViewNext == (TypeOK /\ IsFiniteSet(stick))' => Views'
  BY StateIsView, PTL

(* At most one copy: a request whose answer a client holds is nowhere else.*)
LEMMA OneView ==
    ASSUME CopiesInv, AtMostOneCopy, NEW i \in 1..MaxRequests
    PROVE  /\ Under(i) \in Nat /\ Held(i) \in Nat
           /\ i <= issued => Under(i) + Held(i) <= 1
           /\ i > issued => Under(i) = 0 /\ Held(i) = 0
  <1>1. TypeOK /\ IsFiniteSet(stick) /\ issued \in Nat /\ i \in Ids
    BY DeviceAssumption DEF CopiesInv, AnswerInv, TypeOK, Ids
  <1>2. Under(i) \in Nat /\ Held(i) \in Nat /\ Copies(i) = Under(i) + Held(i)
    BY <1>1, CopiesAre
  <1>3. ASSUME i <= issued PROVE Under(i) + Held(i) <= 1
    <2>1. i \in 1..issued
      BY <1>1, <1>3 DEF Ids
    <2> QED
      BY <1>2, <2>1 DEF AtMostOneCopy
  <1> QED
    BY <1>1, <1>2, <1>3, FreshNumber

LEMMA OneViewNext ==
    ASSUME CopiesInv', AtMostOneCopy', NEW i \in 1..MaxRequests
    PROVE  Under(i)' \in Nat /\ Held(i)' \in Nat
  <1>1. (TypeOK /\ IsFiniteSet(stick))'
    BY DEF CopiesInv, AnswerInv
  <1> QED
    BY <1>1, CopiesAreNext

(* Copies that fade end what they were copies of.                          *)
LEMMA FadesEnds ==
    ASSUME CopiesInv, AtMostOneCopy, CopiesInv', AtMostOneCopy', Views, Views', Fades
    PROVE  Service!Next \/ UNCHANGED ServiceState
  <1> DEFINE ks == {k \in 1..MaxRequests : View(k)' # View(k)}
  <1>0. issued \in Nat /\ issued' = issued
    BY DeviceAssumption DEF CopiesInv, AnswerInv, TypeOK, Fades
  <1>1. ASSUME NEW k \in 1..MaxRequests
        PROVE  \/ View(k)' = View(k)
               \/ View(k)' = "over" /\ View(k) \in {"pending", "answered"}
    <2>1. /\ Under(k) \in Nat /\ Held(k) \in Nat
          /\ k <= issued => Under(k) + Held(k) <= 1
      BY OneView
    <2>2. Under(k)' \in Nat /\ Held(k)' \in Nat
      BY OneViewNext
    <2>3. Under(k)' <= Under(k) /\ Held(k)' <= Held(k)
      BY DEF Fades, Ids
    <2>4. CASE k > issued
      BY <1>0, <2>4 DEF View
    <2>5. CASE k <= issued
      <3>1. \/ Held(k) = 0 /\ Held(k)' = 0
            \/ Held(k) = 1 /\ Held(k)' = 1
            \/ Held(k) = 1 /\ Held(k)' = 0 /\ Under(k)' = 0
        BY <2>1, <2>2, <2>3, <2>5
      <3>2. \/ Under(k) = 0 /\ Under(k)' = 0
            \/ Under(k) # 0 /\ Under(k)' # 0
            \/ Under(k) # 0 /\ Under(k)' = 0
        BY <2>1, <2>2, <2>3
      <3> QED
        BY <1>0, <2>5, <3>1, <3>2 DEF View
    <2> QED
      BY <1>0, <2>4, <2>5
  <1>2. CASE ks = {}
    <2>1. \A k \in 1..MaxRequests : View(k)' = View(k)
      BY <1>2
    <2> QED
      BY <2>1 DEF Views
  <1>3. CASE ks # {}
    <2>1. ServiceState = [k \in 1..MaxRequests |-> View(k)]
      BY DEF Views
    <2>2. ServiceState' = [k \in 1..MaxRequests |-> View(k)']
      BY DEF Views
    <2>3. ServiceState' = [k \in 1..MaxRequests |-> IF k \in ks THEN "over" ELSE ServiceState[k]]
      BY <1>1, <2>1, <2>2
    <2>4. \A k \in ks : ServiceState[k] \in {"pending", "answered"}
      BY <1>1, <2>1
    <2>5. ks \in SUBSET (1..MaxRequests)
      OBVIOUS
    <2> HIDE DEF ks
    <2>6. Service!End(ks)
      BY <1>3, <2>3, <2>4 DEF Service!End, Service!Requests
    <2> QED
      BY <2>5, <2>6 DEF Service!Next, Service!Requests
  <1> QED
    BY <1>2, <1>3

(* A number handed out is a request submitted.                             *)
LEMMA NumbersSubmits ==
    ASSUME CopiesInv, AtMostOneCopy, CopiesInv', AtMostOneCopy', Views, Views', Numbers,
           issued < MaxRequests
    PROVE  Service!Next
  <1> DEFINE n == issued + 1
  <1>0. /\ issued \in Nat /\ MaxRequests \in Nat /\ n \in Nat /\ n = issued + 1
        /\ issued' = n /\ n \in 1..MaxRequests
    BY DeviceAssumption DEF CopiesInv, AnswerInv, TypeOK, Numbers
  <1>1. ServiceState = [k \in 1..MaxRequests |-> View(k)]
    BY DEF Views
  <1>2. ServiceState' = [k \in 1..MaxRequests |-> View(k)']
    BY DEF Views
  <1>3. \A k \in 1..MaxRequests :
           Under(k)' = Under(k) + One(k = n) /\ Held(k)' = Held(k)
    BY DEF Numbers, Ids
  <1> HIDE DEF n
  <1>4. /\ View(n) = "unused"
        /\ \A k \in 1..MaxRequests : k = n => View(k)' = "pending"
    <2>1. n > issued
      BY <1>0
    <2>2. Under(n) = 0 /\ Held(n) = 0
      BY <1>0, <2>1, OneView
    <2>3. \A k \in 1..MaxRequests : k = n => Under(k)' = 1 /\ Held(k)' = 0
      BY <1>3, <2>2 DEF One
    <2>4. \A k \in 1..MaxRequests : k = n => View(k)' = "pending"
      BY <1>0, <2>3 DEF View
    <2> QED
      BY <1>0, <2>1, <2>4 DEF View
  <1>5. ASSUME NEW k \in 1..MaxRequests, k # n
        PROVE  View(k)' = View(k)
    <2>1. Under(k)' = Under(k) /\ Held(k)' = Held(k)
      BY <1>3, <1>5, OneView DEF One
    <2>2. k > issued' <=> k > issued
      BY <1>0, <1>5
    <2> QED
      BY <2>1, <2>2 DEF View
  <1>6. \A earlier \in 1..(n - 1) : View(earlier) # "unused" /\ earlier \in 1..MaxRequests
    BY <1>0 DEF View
  <1>7. ServiceState' = [ServiceState EXCEPT ![n] = "pending"]
    <2>1. \A k \in 1..MaxRequests : View(k)' = IF k = n THEN "pending" ELSE View(k)
      BY <1>4, <1>5
    <2> QED
      BY <1>0, <1>1, <1>2, <2>1
  <1>8. Service!Submit(n)
    BY <1>0, <1>1, <1>4, <1>6, <1>7 DEF Service!Submit
  <1> QED
    BY <1>0, <1>8 DEF Service!Next, Service!Requests

(* A frame handed to a client is a request answered, or a frame of none.   *)
LEMMA AnswersAnswer ==
    ASSUME CopiesInv, AtMostOneCopy, CopiesInv', AtMostOneCopy', Views, Views', Answers
    PROVE  Service!Next \/ UNCHANGED ServiceState
  <1>0. issued \in 0..MaxRequests /\ MaxRequests \in Nat /\ issued' = issued
    BY DeviceAssumption DEF CopiesInv, AnswerInv, TypeOK, Answers
  <1>1. ServiceState = [k \in 1..MaxRequests |-> View(k)]
    BY DEF Views
  <1>2. ServiceState' = [k \in 1..MaxRequests |-> View(k)']
    BY DEF Views
  <1>3. PICK n \in Nat : \A i \in Ids : /\ Under(i) = Under(i)' + One(i = n)
                                       /\ Held(i)' = Held(i) + One(i = n)
    BY DEF Answers
  <1>4. ASSUME NEW k \in 1..MaxRequests, k # n
        PROVE  View(k)' = View(k)
    <2>1. Under(k)' = Under(k) /\ Held(k)' = Held(k)
      BY <1>3, <1>4, OneView, OneViewNext DEF One, Ids
    <2> QED
      BY <1>0, <2>1 DEF View
  <1>5. CASE n \notin 1..MaxRequests
    BY <1>1, <1>2, <1>4, <1>5
  <1>6. CASE n \in 1..MaxRequests
    <2>1. /\ Under(n) \in Nat /\ Held(n) \in Nat /\ Under(n)' \in Nat
          /\ n <= issued => Under(n) + Held(n) <= 1
          /\ n > issued => Under(n) = 0
      BY <1>6, OneView, OneViewNext
    <2>2. Under(n) = Under(n)' + 1 /\ Held(n)' = Held(n) + 1
      BY <1>3, <1>6 DEF One, Ids
    <2>3. n <= issued
      BY <1>0, <1>6, <2>1, <2>2
    <2>4. Under(n) = 1 /\ Held(n) = 0 /\ Held(n)' = 1
      BY <2>1, <2>2, <2>3
    <2>5. View(n) = "pending" /\ View(n)' = "answered"
      BY <1>0, <2>3, <2>4 DEF View
    <2>6. ServiceState' = [ServiceState EXCEPT ![n] = "answered"]
      BY <1>1, <1>2, <1>4, <1>6, <2>5
    <2>7. Service!Answer(n)
      BY <1>1, <1>6, <2>5, <2>6 DEF Service!Answer
    <2> QED
      BY <1>6, <2>7 DEF Service!Next, Service!Requests
  <1> QED
    BY <1>5, <1>6

(* The device is a request service: every step submits a request, answers  *)
(* one, ends some or is invisible, in any order of threads, losses,        *)
(* restarts and connections.                                               *)
THEOREM DeviceImplementsService == Spec => ImplementsRequestService
  <1>1. Init => Service!Init
    BY DEF Init, Service!Init, Service!Requests, ServiceState
  <1>2. /\ CopiesInv /\ AtMostOneCopy /\ CopiesInv' /\ AtMostOneCopy' /\ Views /\ Views'
        /\ [Next]_vars
        => [Service!Next]_ServiceState
    <2> SUFFICES ASSUME CopiesInv, AtMostOneCopy, CopiesInv', AtMostOneCopy', Views, Views',
                        [Next]_vars
                 PROVE  Service!Next \/ UNCHANGED ServiceState
      OBVIOUS
    <2>1. TypeOK'
      BY DEF CopiesInv, AnswerInv
    <2> QED
      BY <2>1, StepKinds, FadesEnds, NumbersSubmits, AnswersAnswer
  <1>3. CopiesInv => Views
    BY StateIsView DEF CopiesInv, AnswerInv
  <1> QED
    BY <1>1, <1>2, <1>3, CopiesInit, CopiesInvNext, OneCopyNext, PTL
       DEF Spec, ImplementsRequestService, Service!Spec
=============================================================================
