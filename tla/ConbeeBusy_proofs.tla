------------------------- MODULE ConbeeBusy_proofs -------------------------
(***************************************************************************)
(* Proof that a program that waits for each answer before its next request *)
(* meets neither a full receive queue nor a search that spins              *)
(* (OneAtATimeIsSafe).  While nothing disturbs the connection, every frame *)
(* under way belongs to a client that still waits for it.                  *)
(***************************************************************************)
EXTENDS ConbeeCopies_proofs

Waiting == {c \in Clients : pc[c] \notin {"idle", "got"}}
Pushers == {c \in Clients : pc[c] = "push"}
Carrying == worker \in {"write", "deliver"}
Carried == IF Carrying THEN {frame} ELSE {}

InFlight == Frames(send_queue) \cup Frames(receive_queue) \cup stick \cup OnLine \cup Carried

Outstanding == Cardinality(Pushers) + Len(send_queue) + One(Carrying) + Cardinality(stick)
                 + Len(line) + Len(receive_queue)

(* A client that holds the mutex goes round a head it does not want.       *)
LockInv ==
    receive_lock # "none" =>
        /\ receive_lock \in Clients /\ pc[receive_lock] = "spin"
        /\ receive_queue # <<>>
        /\ ~Matches(Head(receive_queue).contents, call[receive_lock])

WantInv == \A c \in Clients : pc[c] # "idle" => call[c].want \in {call[c].command, COMMAND_ANY}

Accounted == Outstanding <= Cardinality(Waiting)
StartsQuiet == main = "starting" => worker # "read"
GoodLine == \A k \in DOMAIN line : line[k].kind = "good"
Owned == \A f \in InFlight : \E c \in Waiting : f = Request(call[c])
Unlinked == \A k \in DOMAIN receive_queue : ~receive_queue[k].linked

Quiet == /\ Accounted /\ StartsQuiet /\ GoodLine
         /\ NothingTaken => Owned
         /\ Cardinality(Clients) <= 1 => ~wild /\ Unlinked

BusyInv == LockInv /\ WantInv /\ (Undisturbed => Quiet)

(* What is known from the earlier proofs.                                  *)
Known == CopiesInv /\ AtMostOneCopy /\ ThreadOrder

LEMMA KnownNext == Known /\ [Next]_vars => Known'
  BY CopiesInvNext, OneCopyNext, OrderNext DEF Known, CopiesInv, AnswerInv

-----------------------------------------------------------------------------
(* The elements of a sequence shortened or extended.                       *)
LEMMA TailElements ==
    ASSUME NEW S, NEW q \in Seq(S), q # <<>>
    PROVE  \A k \in DOMAIN Tail(q) : \E m \in DOMAIN q : Tail(q)[k] = q[m]
  <1>1. Len(q) \in Nat /\ DOMAIN q = 1..Len(q) /\ Len(q) > 0
    BY LenProperties, EmptySeq
  <1>2. DOMAIN Tail(q) = 1..Len(q) - 1 /\ \A k \in 1..Len(q) - 1 : Tail(q)[k] = q[k + 1]
    BY <1>1, HeadTailProperties, LenProperties
  <1> QED
    BY <1>1, <1>2

LEMMA AppendElements ==
    ASSUME NEW S, NEW q \in Seq(S), NEW x \in S
    PROVE  \A k \in DOMAIN Append(q, x) :
              Append(q, x)[k] = x \/ \E m \in DOMAIN q : Append(q, x)[k] = q[m]
  <1>1. Len(q) \in Nat /\ DOMAIN q = 1..Len(q)
    BY LenProperties
  <1>2. /\ DOMAIN Append(q, x) = 1..Len(q) + 1
        /\ \A k \in 1..Len(q) : Append(q, x)[k] = q[k]
        /\ Append(q, x)[Len(q) + 1] = x
    BY AppendProperties, LenProperties
  <1> QED
    BY <1>1, <1>2

LEMMA Counts ==
    ASSUME TypeOK, IsFiniteSet(stick)
    PROVE  /\ Cardinality(Pushers) \in Nat /\ Len(send_queue) \in Nat
           /\ One(Carrying) \in Nat /\ Cardinality(stick) \in Nat
           /\ Len(line) \in Nat /\ Len(receive_queue) \in Nat
           /\ Cardinality(Waiting) \in Nat /\ Cardinality(Busy) \in Nat
           /\ Cardinality(Clients) \in Nat
           /\ Cardinality(Waiting) <= Cardinality(Busy)
           /\ Cardinality(Busy) <= Cardinality(Clients)
  <1>1. /\ Pushers \in SUBSET Clients /\ Busy \in SUBSET Clients
        /\ Waiting \in SUBSET Clients /\ Waiting \in SUBSET Busy
    BY DEF Pushers, Waiting, Busy
  <1>2. /\ Cardinality(Pushers) \in Nat /\ Cardinality(Waiting) \in Nat
        /\ Cardinality(Busy) \in Nat /\ IsFiniteSet(Busy) /\ Cardinality(Clients) \in Nat
        /\ Cardinality(Busy) <= Cardinality(Clients)
    BY <1>1, SetCounts, DeviceAssumption
  <1>3. Cardinality(Waiting) <= Cardinality(Busy)
    BY <1>1, <1>2, SetCounts
  <1>4. /\ Len(send_queue) \in Nat /\ Len(receive_queue) \in Nat /\ Len(line) \in Nat
    BY LenProperties DEF TypeOK
  <1>5. Cardinality(stick) \in Nat /\ One(Carrying) \in Nat
    BY FS_CardinalityType DEF One
  <1> QED
    BY <1>2, <1>3, <1>4, <1>5

(* The numbers that Accounted compares, and what it says of them.          *)
Sizes(p, s, o, k, l, q, w) ==
    /\ Cardinality(Pushers) = p /\ Len(send_queue) = s /\ One(Carrying) = o
    /\ Cardinality(stick) = k /\ Len(line) = l /\ Len(receive_queue) = q
    /\ Cardinality(Waiting) = w

LEMMA SizesExist ==
    TypeOK /\ IsFiniteSet(stick) => \E p, s, o, k, l, q, w \in Nat : Sizes(p, s, o, k, l, q, w)
  BY Counts DEF Sizes

LEMMA AccountedIs ==
    \A p, s, o, k, l, q, w :
        Sizes(p, s, o, k, l, q, w) => (Accounted <=> p + s + o + k + l + q <= w)
  BY DEF Sizes, Accounted, Outstanding

LEMMA AccountedIsNext ==
    \A p, s, o, k, l, q, w :
        Sizes(p, s, o, k, l, q, w)' => (Accounted' <=> p + s + o + k + l + q <= w)
  BY DEF Sizes, Accounted, Outstanding

LEMMA CountsNext ==
    (TypeOK /\ IsFiniteSet(stick))' =>
        (/\ Cardinality(Pushers) \in Nat /\ Len(send_queue) \in Nat
         /\ One(Carrying) \in Nat /\ Cardinality(stick) \in Nat
         /\ Len(line) \in Nat /\ Len(receive_queue) \in Nat
         /\ Cardinality(Waiting) \in Nat)'
  <1>1. TypeOK /\ IsFiniteSet(stick) =>
          /\ Cardinality(Pushers) \in Nat /\ Len(send_queue) \in Nat
          /\ One(Carrying) \in Nat /\ Cardinality(stick) \in Nat
          /\ Len(line) \in Nat /\ Len(receive_queue) \in Nat
          /\ Cardinality(Waiting) \in Nat
    BY Counts
  <1> QED
    BY <1>1, PTL

(* With every client idle nothing is under way.                            *)
LEMMA IdleIsEmpty ==
    ASSUME Known, Quiet, \A c \in Clients : pc[c] = "idle"
    PROVE  /\ Waiting = {} /\ Pushers = {}
           /\ send_queue = <<>> /\ receive_queue = <<>> /\ line = <<>> /\ stick = {}
           /\ ~Carrying
  <1>0. TypeOK /\ IsFiniteSet(stick)
    BY DEF Known, CopiesInv, AnswerInv
  <1>1. Waiting = {} /\ Pushers = {}
    BY DEF Waiting, Pushers
  <1>2. Cardinality(Waiting) = 0
    BY <1>1, FS_EmptySet
  <1>3. /\ Len(send_queue) = 0 /\ Len(receive_queue) = 0 /\ Len(line) = 0
        /\ One(Carrying) = 0 /\ Cardinality(stick) = 0
    BY <1>0, <1>2, Counts DEF Quiet, Accounted, Outstanding
  <1>4. send_queue = <<>> /\ receive_queue = <<>> /\ line = <<>>
    BY <1>0, <1>3, EmptySeq DEF TypeOK
  <1> QED
    BY <1>0, <1>1, <1>3, <1>4, FS_EmptySet DEF One

(* Nothing disturbed the connection before if nothing has now.             *)
LEMMA UndisturbedBefore ==
    ASSUME TypeOK, [Next]_vars, Undisturbed'
    PROVE  Undisturbed /\ issued' \in Nat /\ (NothingTaken' => NothingTaken)
  <1>1. issued \in Nat /\ base \in 0..issued /\ notices \in Nat /\ noise \in Nat
    BY DeviceAssumption DEF TypeOK
  <1>2. CASE UNCHANGED vars
    BY <1>1, <1>2 DEF vars, mainVars, seqVars, stickVars, Undisturbed, NothingTaken
  <1>3. CASE ConnectOpen \/ ConnectFail \/ CloseRequest \/ MainStep \/ Restart
    <2>1. /\ UNCHANGED <<issued, notices, noise>>
          /\ base' \in {base, issued}
      BY <1>3 DEF ConnectOpen, ConnectFail, ConnectReset, CloseRequest, MainStep,
                  ConnectReturn, ClosePollDone, CloseJoin, Restart, seqVars, stickVars
    <2> QED
      BY <1>1, <2>1 DEF Undisturbed, NothingTaken
  <1>4. ASSUME NEW c \in Clients, NEW command \in Commands, NEW want \in Wanted(command),
               EnqueueTakeSequence(c, command, want)
        PROVE  Undisturbed /\ issued' \in Nat /\ (NothingTaken' => NothingTaken)
    <2>1. issued' = issued + 1 /\ UNCHANGED <<base, notices, noise>>
      BY <1>4 DEF EnqueueTakeSequence, mainVars, stickVars
    <2> QED
      BY <1>1, <2>1, DeviceAssumption DEF Undisturbed, NothingTaken
  <1>5. ASSUME NEW c \in Clients, ClientStep(c) \/ WaitSpurious(c)
        PROVE  UNCHANGED <<issued, base, notices, noise>>
    BY <1>5 DEF ClientStep, EnqueuePush, EnqueueWakeUp, WaitFound, WaitStuck, WaitEmpty,
                WaitSleep, WaitSpurious, Finish, mainVars, seqVars, stickVars
  <1>6. CASE WorkerStep
    BY <1>1, <1>6 DEF WorkerStep, WorkerStart, WorkerCheck, SelectInput, SelectWakeUp,
                SelectTimeout, ReadUnconnected, ReadPacket, WorkerDeliver, WorkerPop,
                WorkerWrite, WorkerExit, mainVars, seqVars, stickVars, Undisturbed,
                NothingTaken
  <1>7. CASE StickStep
    <2>1. /\ UNCHANGED <<issued, base>>
          /\ notices' \in {notices, notices + 1} /\ noise' \in {noise, noise + 1}
      BY <1>7 DEF StickStep, StickAnswer, StickNotice, LineNoise, LineSplit, LineResume, mainVars, seqVars
    <2> QED
      BY <1>1, <2>1 DEF Undisturbed, NothingTaken
  <1> QED
    BY <1>1, <1>2, <1>3, <1>4, <1>5, <1>6, <1>7 DEF Next, Undisturbed, NothingTaken

-----------------------------------------------------------------------------
(* Steps that move no frame and change no client's mind.                   *)
SameFlow ==
    /\ UNCHANGED <<send_queue, receive_queue, stick, line>> /\ Carrying' = Carrying
    /\ (Carrying => frame' = frame)
    /\ \A c \in Clients : /\ pc'[c] = "push" <=> pc[c] = "push"
                          /\ pc'[c] \in {"idle", "got"} <=> pc[c] \in {"idle", "got"}
                          /\ pc[c] \notin {"idle", "got"} => call'[c] = call[c]

LEMMA QuietKept ==
    ASSUME Quiet, SameFlow, ~wild', main' = "starting" => worker' # "read",
           NothingTaken' => NothingTaken
    PROVE  Quiet'
  <1>1. Pushers' = Pushers /\ Waiting' = Waiting
    BY DEF SameFlow, Pushers, Waiting
  <1>2. Outstanding' = Outstanding
    BY <1>1 DEF Outstanding, SameFlow, One
  <1>3. InFlight' = InFlight
    BY DEF SameFlow, InFlight, Carried, Frames, OnLine
  <1>4. Owned => Owned'
    BY <1>1, <1>3 DEF Owned, Waiting, SameFlow
  <1>5. GoodLine' /\ (Unlinked => Unlinked')
    BY DEF Quiet, GoodLine, Unlinked, SameFlow
  <1> QED
    BY <1>1, <1>2, <1>4, <1>5 DEF Quiet, Accounted, StartsQuiet

(* Connecting and killing the process leave nothing: no request was made.  *)
LEMMA QuietMain ==
    ASSUME Known, Quiet, Known', Undisturbed, Undisturbed',
           ConnectOpen \/ ConnectFail \/ CloseRequest \/ MainStep \/ Restart
    PROVE  Quiet'
  <1>0. /\ TypeOK /\ issued \in Nat /\ base = 0 /\ ThreadOrder /\ ~wild' /\ ~wild
        /\ (NothingTaken' => NothingTaken)
    BY DEF Known, CopiesInv, AnswerInv, TypeOK, Undisturbed, ConnectOpen, ConnectFail,
           ConnectReset, CloseRequest, MainStep, ConnectReturn, ClosePollDone, CloseJoin,
           Restart, NothingTaken, seqVars, recvVars
  <1>1. CASE CloseRequest \/ ConnectReturn \/ ClosePollDone
    <2>1. /\ UNCHANGED <<send_queue, receive_queue, stick, line, worker, frame, pc, call>>
          /\ main' # "starting"
      BY <1>1 DEF CloseRequest, ConnectReturn, ClosePollDone, sendVars, recvVars,
                  stickVars, workerVars, clientVars
    <2>2. SameFlow
      BY <2>1 DEF SameFlow, Carrying
    <2> QED
      BY <1>0, <2>1, <2>2, QuietKept
  <1>2. CASE CloseJoin
    <2>1. /\ UNCHANGED <<send_queue, receive_queue, stick, worker, frame, pc, call>>
          /\ line' = <<>> /\ main' = "closed"
      BY <1>2 DEF CloseJoin, DropLine, sendVars, recvVars, workerVars, clientVars
    <2>2. Pushers' = Pushers /\ Waiting' = Waiting /\ Carrying' = Carrying
      BY <2>1 DEF Pushers, Waiting, Carrying
    <2>3. Outstanding' <= Outstanding
      <3>1. Len(line) \in Nat /\ Len(line') = 0
        BY <1>0, <2>1, EmptySeq, LenProperties DEF TypeOK
      <3>2. /\ Cardinality(Pushers) \in Nat /\ Len(send_queue) \in Nat
            /\ One(Carrying) \in Nat /\ Cardinality(stick) \in Nat
            /\ Len(receive_queue) \in Nat
        BY Counts DEF Known, CopiesInv, AnswerInv
      <3> QED
        BY <2>1, <2>2, <3>1, <3>2 DEF Outstanding
    <2>4. Outstanding \in Nat /\ Outstanding' \in Nat /\ Cardinality(Waiting) \in Nat
      <3>1. (TypeOK /\ IsFiniteSet(stick)) /\ (TypeOK /\ IsFiniteSet(stick))'
        BY DEF Known, CopiesInv, AnswerInv
      <3>2. Outstanding \in Nat /\ Cardinality(Waiting) \in Nat
        BY <3>1, Counts DEF Outstanding
      <3>3. Outstanding' \in Nat
        BY <3>1, CountsNext DEF Outstanding
      <3> QED
        BY <3>2, <3>3
    <2>5. InFlight' \subseteq InFlight
      BY <2>1, <2>2, EmptySeq DEF InFlight, Carried, Frames, OnLine
    <2>6. Owned => Owned'
      BY <2>1, <2>2, <2>5 DEF Owned
    <2>7. GoodLine' /\ (Unlinked => Unlinked')
      BY <2>1, EmptySeq DEF GoodLine, Unlinked
    <2> QED
      BY <1>0, <2>1, <2>2, <2>3, <2>4, <2>6, <2>7 DEF Quiet, Accounted, StartsQuiet
  <1>3. CASE ConnectOpen \/ ConnectFail \/ Restart
    <2>1. issued = 0
      BY <1>3 DEF ConnectOpen, ConnectFail, ConnectReset, Restart, Undisturbed
    <2>2. \A c \in Clients : pc[c] = "idle"
      <3>1. \A c \in Clients : pc[c] # "idle" => call[c].id \in (base + 1)..issued
        BY DEF Known, CopiesInv, AnswerInv, CallsTraced
      <3>2. (base + 1)..issued = {}
        BY <1>0, <2>1
      <3> QED
        BY <3>1, <3>2
    <2>3. /\ send_queue = <<>> /\ receive_queue = <<>> /\ line = <<>> /\ stick = {}
          /\ ~Carrying
      BY <2>2, IdleIsEmpty
    <2>4. /\ send_queue' = <<>> /\ receive_queue' = <<>> /\ line' = <<>> /\ stick' = {}
          /\ ~Carrying' /\ \A c \in Clients : pc'[c] = "idle"
      BY <1>3, <2>2, <2>3 DEF ConnectOpen, ConnectFail, ConnectReset, Restart, Carrying,
                              workerVars, clientVars, stickVars, DropLine
    <2>5. main' = "starting" => worker' # "read"
      BY <1>0, <1>3 DEF ConnectOpen, ConnectFail, ConnectReset, Restart
    <2>6. Pushers' = {} /\ Waiting' = {} /\ InFlight' = {}
      BY <2>4, EmptySeq DEF Pushers, Waiting, InFlight, Carried, Frames, OnLine
    <2>7. Accounted'
      BY <2>4, <2>6, EmptySeq, FS_EmptySet DEF Accounted, Outstanding, One
    <2> QED
      BY <1>0, <2>4, <2>5, <2>6, <2>7, EmptySeq
         DEF Quiet, StartsQuiet, GoodLine, Unlinked, Owned
  <1> QED
    BY <1>1, <1>2, <1>3 DEF MainStep

(* A client numbers its request and queues it.                             *)
LEMMA QuietEnqueue ==
    ASSUME Known, Quiet, Known', ~wild', NothingTaken' => NothingTaken,
           NEW c \in Clients, NEW command \in Commands, NEW want \in Wanted(command),
           EnqueueTakeSequence(c, command, want)
    PROVE  Quiet'
  <1>0. TypeOK /\ IsFiniteSet(stick)
    BY DEF Known, CopiesInv, AnswerInv
  <1>1. /\ UNCHANGED <<send_queue, receive_queue, stick, line, worker, frame, main>>
        /\ pc[c] = "idle" /\ pc' = [pc EXCEPT ![c] = "push"]
        /\ \A d \in Clients : d # c => call'[d] = call[d]
    BY <1>0 DEF EnqueueTakeSequence, TypeOK, sendVars, recvVars, stickVars, workerVars, mainVars
  <1>2. /\ Pushers' = Pushers \cup {c} /\ c \notin Pushers /\ Pushers \in SUBSET Clients
        /\ Waiting' = Waiting \cup {c} /\ c \notin Waiting /\ Waiting \in SUBSET Clients
    BY <1>0, <1>1 DEF Pushers, Waiting, TypeOK
  <1>3. /\ Cardinality(Pushers') = Cardinality(Pushers) + 1
        /\ Cardinality(Waiting') = Cardinality(Waiting) + 1
    <2>1. IsFiniteSet(Pushers) /\ IsFiniteSet(Waiting)
      BY <1>2, SetCounts, DeviceAssumption
    <2> QED
      BY <1>2, <2>1, FS_AddElement
  <1>4. Accounted'
    <2>1. One(Carrying)' = One(Carrying)
      BY <1>1 DEF Carrying
    <2>2. PICK p, s, o, k, l, q, w \in Nat : Sizes(p, s, o, k, l, q, w)
      BY <1>0, SizesExist
    <2>3. p + s + o + k + l + q <= w
      BY <2>2, AccountedIs DEF Quiet
    <2>4. Sizes(p + 1, s, o, k, l, q, w + 1)'
      BY <1>1, <1>3, <2>1, <2>2 DEF Sizes
    <2>5. (p + 1) + s + o + k + l + q <= w + 1
      BY <2>3
    <2> QED
      BY <2>4, <2>5, AccountedIsNext
  <1>5. InFlight' = InFlight
    BY <1>1 DEF InFlight, Carried, Carrying, Frames, OnLine
  <1>6. Owned => Owned'
    BY <1>1, <1>2, <1>5 DEF Owned
  <1> QED
    BY <1>1, <1>4, <1>6 DEF Quiet, StartsQuiet, GoodLine, Unlinked

LEMMA QuietPush ==
    ASSUME Known, Quiet, Known', ~wild', NothingTaken' => NothingTaken,
           NEW c \in Clients, EnqueuePush(c)
    PROVE  Quiet'
  <1>0. TypeOK /\ IsFiniteSet(stick)
    BY DEF Known, CopiesInv, AnswerInv
  <1>1. /\ UNCHANGED <<call, receive_queue, stick, line, worker, frame, main>>
        /\ pc[c] = "push" /\ pc' = [pc EXCEPT ![c] = "wake"]
        /\ send_queue' = QueuePush(send_queue, Request(call[c]))
        /\ Request(call[c]) \in Frame
    BY <1>0, ValueTypes DEF EnqueuePush, TypeOK, recvVars, stickVars, workerVars, mainVars
  <1>2. /\ Pushers' = Pushers \ {c} /\ c \in Pushers /\ Pushers \in SUBSET Clients
        /\ Waiting' = Waiting /\ c \in Waiting
    BY <1>0, <1>1 DEF Pushers, Waiting, TypeOK
  <1>3. Cardinality(Pushers') = Cardinality(Pushers) - 1
    <2>1. IsFiniteSet(Pushers)
      BY <1>2, SetCounts, DeviceAssumption
    <2> QED
      BY <1>2, <2>1, FS_RemoveElement
  <1>4. Accounted'
    <2>1. One(Carrying)' = One(Carrying)
      BY <1>1 DEF Carrying
    <2>2. Len(send_queue') = Len(send_queue) + 1
      <3>1. send_queue \in Seq(Item(Frame))
        BY <1>0 DEF TypeOK
      <3> QED
        BY <1>1, <3>1, QueueTypes
    <2>3. PICK p, s, o, k, l, q, w \in Nat : Sizes(p, s, o, k, l, q, w)
      BY <1>0, SizesExist
    <2>4. p + s + o + k + l + q <= w
      BY <2>3, AccountedIs DEF Quiet
    <2>5. Sizes(p - 1, s + 1, o, k, l, q, w)'
      BY <1>1, <1>2, <1>3, <2>1, <2>2, <2>3 DEF Sizes
    <2>6. (p - 1) + (s + 1) + o + k + l + q <= w
      BY <2>4
    <2> QED
      BY <2>5, <2>6, AccountedIsNext
  <1>5. Frames(send_queue') = Frames(send_queue) \cup {Request(call[c])}
    BY <1>0, <1>1, QueueFrames DEF TypeOK
  <1>6. InFlight' \subseteq InFlight \cup {Request(call[c])}
    <2>1. Frames(receive_queue') = Frames(receive_queue) /\ OnLine' = OnLine
          /\ Carried' = Carried
      BY <1>1 DEF Frames, OnLine, Carried, Carrying
    <2> QED
      BY <1>1, <1>5, <2>1 DEF InFlight
  <1>7. Owned => Owned'
    BY <1>1, <1>2, <1>6 DEF Owned
  <1> QED
    BY <1>1, <1>4, <1>7 DEF Quiet, StartsQuiet, GoodLine, Unlinked

(* What is under way exists, in the sense of the copies.                   *)
LEMMA FlowExists == \A f \in InFlight : Exists(f.id)
  <1>1. \A f \in Carried \cup stick : Exists(f.id)
    BY DEF Carried, Exists
  <1>2. \A f \in OnLine : Exists(f.id)
    BY DEF OnLine, Exists
  <1>3. ASSUME NEW f \in Frames(send_queue) \cup Frames(receive_queue)
        PROVE  Exists(f.id)
    <2>1. Indices(send_queue, f.id) \cup Indices(receive_queue, f.id) # {}
      BY DEF Frames, Indices
    <2> QED
      BY <2>1 DEF Exists
  <1> QED
    BY <1>1, <1>2, <1>3 DEF InFlight

LEMMA FlowExistsNext == (\A f \in InFlight : Exists(f.id))'
  BY FlowExists, PTL

LEMMA HeldIsGoneNext ==
    (CopiesInv /\ AtMostOneCopy)' =>
        (\A c \in Clients : got[c].id \in 1..issued => ~Exists(got[c].id))'
  BY HeldIsGone, PTL

(* The frame a client takes is the answer to its own request: no other     *)
(* client waits for one of the same number, or there is no other client.   *)
LEMMA TakesOwn ==
    ASSUME Known, Undisturbed, NothingTaken,
           NEW c \in Waiting, NEW e \in Waiting, Matches(Request(call[e]), call[c])
    PROVE  call[e].id = call[c].id
  <1>0. /\ issued \in Nat /\ base = 0 /\ SeqMod \in Nat /\ Known
        /\ c \in Clients /\ e \in Clients /\ pc[c] # "idle" /\ pc[e] # "idle"
    BY DeviceAssumption DEF Known, CopiesInv, AnswerInv, TypeOK, Undisturbed, Waiting
  <1>1. CASE issued <= SeqMod
    <2>1. \A d \in Clients : pc[d] # "idle" =>
             /\ call[d].id \in (base + 1)..issued
             /\ Traced(Request(call[d]))
      BY DEF Known, CopiesInv, AnswerInv, CallsTraced
    <2>2. \A d \in {c, e} : call[d].id \in Nat /\ call[d].seq = call[d].id - 1
      BY <1>0, <1>1, <2>1 DEF Traced, InSession, Request
    <2>3. call[e].seq = call[c].seq
      BY DEF Matches, Request
    <2> QED
      BY <2>2, <2>3
  <1>2. CASE Cardinality(Clients) = 1
    <2>1. PICK d : Clients = {d}
      BY <1>2, FS_Singleton, DeviceAssumption
    <2> QED
      BY <1>0, <2>1
  <1> QED
    BY <1>1, <1>2 DEF NothingTaken

LEMMA QuietFound ==
    ASSUME Known, Quiet, Known', Undisturbed, NothingTaken' => NothingTaken,
           NEW c \in Clients, WaitFound(c)
    PROVE  Quiet'
  <1>0. TypeOK /\ IsFiniteSet(stick) /\ issued' \in Nat /\ issued' = issued
    BY DeviceAssumption DEF Known, CopiesInv, AnswerInv, TypeOK, WaitFound, seqVars
  <1>1. /\ UNCHANGED <<call, send_queue, stick, line, worker, frame, main>>
        /\ pc[c] \in {"search", "woken"} /\ pc' = [pc EXCEPT ![c] = "got"]
        /\ receive_queue # <<>> /\ receive_queue' = Tail(receive_queue)
        /\ ~wild /\ wild' = Head(receive_queue).linked
        /\ got' = [got EXCEPT ![c] = Head(receive_queue).contents]
        /\ Matches(Head(receive_queue).contents, call[c])
    BY DEF WaitFound, Searching, DeleteIsStale, QueueDeleteHead, sendVars, stickVars,
           workerVars, mainVars
  <1>2. /\ Pushers' = Pushers
        /\ Waiting' = Waiting \ {c} /\ c \in Waiting /\ Waiting \in SUBSET Clients
    BY <1>0, <1>1 DEF Pushers, Waiting, TypeOK
  <1>3. Cardinality(Waiting') = Cardinality(Waiting) - 1
    <2>1. IsFiniteSet(Waiting)
      BY <1>2, SetCounts, DeviceAssumption
    <2> QED
      BY <1>2, <2>1, FS_RemoveElement
  <1>4. Accounted'
    <2>1. One(Carrying)' = One(Carrying)
      BY <1>1 DEF Carrying
    <2>2. Len(receive_queue') = Len(receive_queue) - 1
      <3>1. Len(QueuePop(receive_queue)) = Len(receive_queue) - 1
        BY <1>0, <1>1, QueueTypes DEF TypeOK
      <3> QED
        BY <1>1, <3>1 DEF QueuePop
    <2>3. PICK p, s, o, k, l, q, w \in Nat : Sizes(p, s, o, k, l, q, w)
      BY <1>0, SizesExist
    <2>4. p + s + o + k + l + q <= w
      BY <2>3, AccountedIs DEF Quiet
    <2>5. Sizes(p, s, o, k, l, q - 1, w - 1)'
      BY <1>1, <1>2, <1>3, <2>1, <2>2, <2>3 DEF Sizes
    <2>6. p + s + o + k + l + (q - 1) <= w - 1
      BY <2>4
    <2> QED
      BY <2>5, <2>6, AccountedIsNext
  <1>5. InFlight' \subseteq InFlight
    <2>1. Frames(receive_queue') \subseteq Frames(receive_queue)
      BY <1>0, <1>1, QueueFrames DEF TypeOK, QueueDeleteHead
    <2>2. Frames(send_queue') = Frames(send_queue) /\ OnLine' = OnLine /\ Carried' = Carried
      BY <1>1 DEF Frames, OnLine, Carried, Carrying
    <2> QED
      BY <1>1, <2>1, <2>2 DEF InFlight
  <1>6. ASSUME NothingTaken, Owned PROVE Owned'
    <2> SUFFICES ASSUME NEW f \in InFlight' PROVE \E d \in Waiting' : f = Request(call'[d])
      BY DEF Owned
    <2>1. PICK d \in Waiting : f = Request(call[d])
      BY <1>5, <1>6 DEF Owned
    <2>2. Head(receive_queue).contents \in InFlight
      BY <1>0, <1>1, QueueFrames DEF InFlight, TypeOK
    <2>3. PICK e \in Waiting : Head(receive_queue).contents = Request(call[e])
      BY <1>6, <2>2 DEF Owned
    <2>4. call[e].id = call[c].id
      BY <1>1, <1>2, <1>6, <2>3, TakesOwn
    <2>5. got'[c].id = call[c].id
      BY <1>0, <1>1, <2>3, <2>4 DEF Request, TypeOK
    <2>6. call[c].id \in 1..issued'
      <3>1. call[c].id \in (base + 1)..issued
        BY <1>1 DEF Known, CopiesInv, AnswerInv, CallsTraced
      <3> QED
        BY <1>0, <3>1 DEF Undisturbed
    <2>7. f.id # call[c].id
      BY <2>5, <2>6, HeldIsGoneNext, FlowExistsNext DEF Known
    <2>8. d # c
      BY <2>1, <2>7 DEF Request
    <2> QED
      BY <1>1, <1>2, <2>1, <2>8
  <1>7. ASSUME Unlinked PROVE ~wild' /\ Unlinked'
    <2>1. 1 \in DOMAIN receive_queue /\ Head(receive_queue) = receive_queue[1]
      BY <1>0, <1>1, HeadTailProperties, LenProperties, EmptySeq DEF TypeOK
    <2>2. \A k \in DOMAIN receive_queue' :
             \E m \in DOMAIN receive_queue : receive_queue'[k] = receive_queue[m]
      BY <1>0, <1>1, TailElements DEF TypeOK
    <2> QED
      BY <1>1, <1>7, <2>1, <2>2 DEF Unlinked
  <1> QED
    BY <1>1, <1>4, <1>6, <1>7 DEF Quiet, StartsQuiet, GoodLine

LEMMA QuietClient ==
    ASSUME Known, Quiet, NothingTaken' => NothingTaken,
           NEW c \in Clients,
           \/ EnqueueWakeUp(c) \/ WaitStuck(c) \/ WaitEmpty(c) \/ WaitSleep(c)
           \/ WaitSpurious(c) \/ Finish(c)
    PROVE  Quiet'
  <1>0. TypeOK
    BY DEF Known, CopiesInv, AnswerInv
  <1>1. /\ UNCHANGED <<send_queue, receive_queue, stick, line, worker, frame, main, wild>>
        /\ ~wild
    BY DEF EnqueueWakeUp, WaitStuck, WaitEmpty, WaitSleep, WaitSpurious, Finish, Searching,
           sendVars, recvVars, stickVars, workerVars, mainVars
  <1>2. ASSUME NEW d \in Clients
        PROVE  /\ pc'[d] = "push" <=> pc[d] = "push"
               /\ pc'[d] \in {"idle", "got"} <=> pc[d] \in {"idle", "got"}
               /\ pc[d] \notin {"idle", "got"} => call'[d] = call[d]
    <2>1. CASE Finish(c)
      BY <1>0, <2>1 DEF Finish, TypeOK
    <2>2. CASE \/ EnqueueWakeUp(c) \/ WaitStuck(c) \/ WaitEmpty(c) \/ WaitSleep(c)
               \/ WaitSpurious(c)
      BY <1>0, <2>2 DEF EnqueueWakeUp, WaitStuck, WaitEmpty, WaitSleep, WaitSpurious,
                        Searching, TypeOK
    <2> QED
      BY <2>1, <2>2
  <1>3. SameFlow
    BY <1>1, <1>2 DEF SameFlow, Carrying
  <1> QED
    BY <1>1, <1>3, QuietKept DEF Quiet, StartsQuiet

(* The worker: the steps that carry no frame...                            *)
LEMMA QuietWorkerKept ==
    ASSUME Known, Quiet, NothingTaken' => NothingTaken,
           \/ WorkerStart \/ WorkerCheck \/ SelectInput \/ SelectWakeUp \/ SelectTimeout
           \/ ReadUnconnected \/ WorkerExit
           \/ WorkerPop /\ send_queue = <<>>
    PROVE  Quiet'
  <1>0. TypeOK /\ ThreadOrder /\ IsFiniteSet(stick)
    BY DEF Known, CopiesInv, AnswerInv
  <1>1. ~ReadUnconnected
    <2>1. SUFFICES ASSUME ReadUnconnected PROVE FALSE
      OBVIOUS
    <2>2. worker = "read" /\ tty_status = "disconnected"
      BY <2>1 DEF ReadUnconnected
    <2>3. main = "starting"
      BY <1>0, <2>2 DEF ThreadOrder, Running, TypeOK
    <2> QED
      BY <2>2, <2>3 DEF Quiet, StartsQuiet
  <1>2. /\ UNCHANGED <<send_queue, receive_queue, stick, line, main, wild, pc, call>>
        /\ ~wild
    BY <1>1 DEF WorkerStart, WorkerCheck, SelectInput, SelectWakeUp, SelectTimeout, WorkerExit,
                WorkerPop, sendVars, recvVars, stickVars, clientVars, mainVars
  <1>3. ~Carrying /\ ~Carrying'
    BY <1>1 DEF WorkerStart, WorkerCheck, SelectInput, SelectWakeUp, SelectTimeout, WorkerExit,
                WorkerPop, NextRound, Carrying
  <1>4. main' = "starting" => worker' # "read"
    <2>1. CASE SelectInput
      <3>1. line # <<>>
        BY <2>1 DEF SelectInput
      <3>2. main # "starting"
        BY <1>0, <3>1, IdleIsEmpty DEF ThreadOrder
      <3> QED
        BY <1>2, <3>2
    <2>2. CASE ~SelectInput
      BY <1>1, <2>2 DEF WorkerStart, WorkerCheck, SelectWakeUp, SelectTimeout, WorkerExit,
                        WorkerPop, NextRound
    <2> QED
      BY <2>1, <2>2
  <1>5. Carrying' = Carrying
    BY <1>3 DEF Carrying
  <1>6. SameFlow
    BY <1>2, <1>3, <1>5 DEF SameFlow
  <1> QED
    BY <1>2, <1>4, <1>6, QuietKept

(* ...and those that do.                                                   *)
LEMMA QuietPop ==
    ASSUME Known, Quiet, NothingTaken' => NothingTaken, WorkerPop, send_queue # <<>>
    PROVE  Quiet'
  <1>0. TypeOK /\ IsFiniteSet(stick)
    BY DEF Known, CopiesInv, AnswerInv
  <1>1. /\ UNCHANGED <<receive_queue, stick, line, main, wild, pc, call>> /\ ~wild
        /\ frame' = Head(send_queue).contents /\ send_queue' = QueuePop(send_queue)
        /\ worker = "pop" /\ worker' = "write"
    BY DEF WorkerPop, recvVars, stickVars, clientVars, mainVars
  <1>2. Pushers' = Pushers /\ Waiting' = Waiting
    BY <1>1 DEF Pushers, Waiting
  <1>3. Accounted'
    <2>1. One(Carrying) = 0 /\ One(Carrying)' = 1
      BY <1>1 DEF Carrying, One
    <2>2. Len(send_queue') = Len(send_queue) - 1
      BY <1>0, <1>1, QueueTypes DEF TypeOK
    <2> QED
      BY <1>0, <1>1, <1>2, <2>1, <2>2, Counts DEF Quiet, Accounted, Outstanding
  <1>4. InFlight' \subseteq InFlight
    <2>1. /\ Frames(send_queue') \subseteq Frames(send_queue)
          /\ Head(send_queue).contents \in Frames(send_queue)
      BY <1>0, <1>1, QueueFrames DEF TypeOK
    <2>2. Frames(receive_queue') = Frames(receive_queue) /\ OnLine' = OnLine
          /\ Carried' = {Head(send_queue).contents}
      BY <1>1 DEF Frames, OnLine, Carried, Carrying
    <2> QED
      BY <1>1, <2>1, <2>2 DEF InFlight
  <1>5. Owned => Owned'
    BY <1>1, <1>2, <1>4 DEF Owned
  <1> QED
    BY <1>1, <1>3, <1>5 DEF Quiet, StartsQuiet, GoodLine, Unlinked

LEMMA QuietWrite ==
    ASSUME Known, Quiet, NothingTaken' => NothingTaken, WorkerWrite
    PROVE  Quiet'
  <1>0. TypeOK /\ IsFiniteSet(stick)
    BY DEF Known, CopiesInv, AnswerInv
  <1>1. /\ UNCHANGED <<send_queue, receive_queue, line, main, wild, pc, call>> /\ ~wild
        /\ stick' \in {stick, stick \cup {frame}}
        /\ worker = "write" /\ worker' \notin {"write", "deliver", "read"}
    BY DEF WorkerWrite, NextRound, sendVars, recvVars, clientVars, mainVars
  <1>2. Pushers' = Pushers /\ Waiting' = Waiting
    BY <1>1 DEF Pushers, Waiting
  <1>3. Accounted'
    <2>1. One(Carrying) = 1 /\ One(Carrying)' = 0
      BY <1>1 DEF Carrying, One
    <2>2. /\ Cardinality(stick \cup {frame}) \in Nat
          /\ Cardinality(stick \cup {frame}) <= Cardinality(stick) + 1
      <3>1. /\ Cardinality(stick) \in Nat
            /\ Cardinality(stick \cup {frame}) =
                 IF frame \in stick THEN Cardinality(stick) ELSE Cardinality(stick) + 1
        BY <1>0, FS_AddElement, FS_CardinalityType
      <3> QED
        BY <3>1
    <2>3. Cardinality(stick') \in Nat /\ Cardinality(stick') <= Cardinality(stick) + 1
      <3>1. CASE stick' = stick
        BY <1>0, <3>1, Counts
      <3>2. CASE stick' = stick \cup {frame}
        BY <2>2, <3>2
      <3> QED
        BY <1>1, <3>1, <3>2
    <2>4. PICK p, s, o, k, l, q, w \in Nat : Sizes(p, s, o, k, l, q, w)
      BY <1>0, SizesExist
    <2>5. p + s + o + k + l + q <= w
      BY <2>4, AccountedIs DEF Quiet
    <2>6. PICK n \in Nat : n = Cardinality(stick') /\ n <= k + 1 /\ o = 1
      BY <2>1, <2>3, <2>4 DEF Sizes
    <2>7. Sizes(p, s, 0, n, l, q, w)'
      BY <1>1, <1>2, <2>1, <2>4, <2>6 DEF Sizes
    <2>8. p + s + 0 + n + l + q <= w
      BY <2>5, <2>6
    <2> QED
      BY <2>7, <2>8, AccountedIsNext
  <1>4. InFlight' \subseteq InFlight
    <2>1. /\ Frames(send_queue') = Frames(send_queue) /\ OnLine' = OnLine
          /\ Frames(receive_queue') = Frames(receive_queue)
          /\ Carried' = {} /\ Carried = {frame}
      BY <1>1 DEF Frames, OnLine, Carried, Carrying
    <2> QED
      BY <1>1, <2>1 DEF InFlight
  <1>5. Owned => Owned'
    BY <1>1, <1>2, <1>4 DEF Owned
  <1> QED
    BY <1>1, <1>3, <1>5 DEF Quiet, StartsQuiet, GoodLine, Unlinked

LEMMA QuietRead ==
    ASSUME Known, Quiet, NothingTaken' => NothingTaken, ReadPacket
    PROVE  Quiet'
  <1>0. TypeOK /\ IsFiniteSet(stick)
    BY DEF Known, CopiesInv, AnswerInv
  <1>1. /\ UNCHANGED <<send_queue, receive_queue, stick, main, wild, pc, call>> /\ ~wild
        /\ line # <<>> /\ line' = Tail(line)
        /\ worker = "read" /\ worker' = "deliver"
    BY DEF ReadPacket, sendVars, recvVars, clientVars, mainVars
  <1>2. Pushers' = Pushers /\ Waiting' = Waiting
    BY <1>1 DEF Pushers, Waiting
  <1>3. /\ line \in Seq(Packet) /\ Len(line) \in Nat /\ Len(line) > 0
        /\ DOMAIN line = 1..Len(line) /\ Len(line') = Len(line) - 1
        /\ Head(line) = line[1]
    BY <1>0, <1>1, HeadTailProperties, LenProperties, EmptySeq DEF TypeOK
  <1>4. frame' = Head(line).frame /\ frame' \in OnLine
    <2>1. Head(line).kind = "good"
      BY <1>3 DEF Quiet, GoodLine
    <2> QED
      BY <1>3, <2>1 DEF ReadPacket, OnLine
  <1>5. \A k \in DOMAIN line' : \E m \in DOMAIN line : line'[k] = line[m]
    BY <1>1, <1>3, TailElements
  <1>6. Accounted'
    <2>1. One(Carrying) = 0 /\ One(Carrying)' = 1
      BY <1>1 DEF Carrying, One
    <2> QED
      BY <1>0, <1>1, <1>2, <1>3, <2>1, Counts DEF Quiet, Accounted, Outstanding
  <1>7. InFlight' \subseteq InFlight
    <2>1. /\ Frames(send_queue') = Frames(send_queue)
          /\ Frames(receive_queue') = Frames(receive_queue)
          /\ Carried' = {frame'}
      BY <1>1 DEF Frames, Carried, Carrying
    <2>2. OnLine' \subseteq OnLine
      BY <1>5 DEF OnLine
    <2> QED
      BY <1>1, <1>4, <2>1, <2>2 DEF InFlight
  <1>8. Owned => Owned'
    BY <1>1, <1>2, <1>7 DEF Owned
  <1>9. GoodLine'
    BY <1>5 DEF Quiet, GoodLine
  <1> QED
    BY <1>1, <1>6, <1>8, <1>9 DEF Quiet, StartsQuiet, Unlinked

(* With one client at most one frame is under way: it meets an empty queue.*)
LEMMA QuietDeliver ==
    ASSUME Known, Quiet, NothingTaken' => NothingTaken, WorkerDeliver
    PROVE  Quiet'
  <1>0. TypeOK /\ IsFiniteSet(stick)
    BY DEF Known, CopiesInv, AnswerInv
  <1>1. /\ UNCHANGED <<send_queue, stick, line, main, wild, call>> /\ ~wild
        /\ receive_queue' = QueuePush(receive_queue, frame) /\ frame \in Frame
        /\ receive_queue \in Seq(Item(Frame))
        /\ worker = "deliver" /\ worker' \notin {"write", "deliver", "read"}
    BY <1>0 DEF WorkerDeliver, NextRound, sendVars, stickVars, mainVars, TypeOK
  <1>2. Pushers' = Pushers /\ Waiting' = Waiting
    <2>1. \A c \in Clients : pc'[c] = pc[c] \/ (pc[c] = "asleep" /\ pc'[c] = "woken")
      BY <1>0 DEF WorkerDeliver, Signal, TypeOK
    <2> QED
      BY <2>1 DEF Pushers, Waiting
  <1>3. One(Carrying) = 1 /\ One(Carrying)' = 0
    BY <1>1 DEF Carrying, One
  <1>4. Accounted'
    <2>1. Len(receive_queue') = Len(receive_queue) + 1
      BY <1>1, QueueTypes
    <2>2. PICK p, s, o, k, l, q, w \in Nat : Sizes(p, s, o, k, l, q, w)
      BY <1>0, SizesExist
    <2>3. p + s + o + k + l + q <= w
      BY <2>2, AccountedIs DEF Quiet
    <2>4. o = 1
      BY <1>3, <2>2 DEF Sizes
    <2>5. Sizes(p, s, 0, k, l, q + 1, w)'
      BY <1>1, <1>2, <1>3, <2>1, <2>2 DEF Sizes
    <2>6. p + s + 0 + k + l + (q + 1) <= w
      BY <2>3, <2>4
    <2> QED
      BY <2>5, <2>6, AccountedIsNext
  <1>5. InFlight' \subseteq InFlight
    <2>1. Frames(receive_queue') = Frames(receive_queue) \cup {frame}
      BY <1>1, QueueFrames
    <2>2. /\ Frames(send_queue') = Frames(send_queue) /\ OnLine' = OnLine
          /\ Carried' = {} /\ Carried = {frame}
      BY <1>1 DEF Frames, OnLine, Carried, Carrying
    <2> QED
      BY <1>1, <2>1, <2>2 DEF InFlight
  <1>6. Owned => Owned'
    BY <1>1, <1>2, <1>5 DEF Owned
  <1>7. ASSUME Cardinality(Clients) <= 1, Unlinked
        PROVE  Unlinked'
    <2>1. Len(receive_queue) = 0
      BY <1>0, <1>3, <1>7, Counts DEF Quiet, Accounted, Outstanding
    <2>2. receive_queue = <<>>
      BY <1>1, <2>1, EmptySeq
    <2> DEFINE item == [contents |-> frame, linked |-> FALSE]
    <2>3. receive_queue' = Append(receive_queue, item) /\ item \in Item(Frame) /\ ~item.linked
      BY <1>1, <2>2 DEF QueuePush, Item
    <2> HIDE DEF item
    <2>4. \A k \in DOMAIN receive_queue' :
             receive_queue'[k] = item \/ \E m \in DOMAIN receive_queue :
                                             receive_queue'[k] = receive_queue[m]
      BY <1>1, <2>3, AppendElements
    <2> QED
      BY <1>7, <2>3, <2>4 DEF Unlinked
  <1> QED
    BY <1>1, <1>4, <1>6, <1>7 DEF Quiet, StartsQuiet, GoodLine

(* The stick answers; it sends nothing else and nothing is damaged.        *)
LEMMA QuietStick ==
    ASSUME Known, Quiet, Undisturbed', NothingTaken' => NothingTaken, TypeOK', StickStep
    PROVE  Quiet'
  <1>0. TypeOK /\ IsFiniteSet(stick) /\ notices \in Nat /\ noise \in Nat
        /\ notices' = 0 /\ noise' = 0
    BY DEF Known, CopiesInv, AnswerInv, TypeOK, Undisturbed
  <1>1. PICK r \in stick : StickAnswer(r)
    <2>1. ~ \E s \in Sequences8 : StickNotice(s)
      <3>1. \A s \in Sequences8 : StickNotice(s) => notices' = notices + 1
        BY DEF StickNotice
      <3> QED
        BY <1>0, <3>1
    <2>2. ~ \E kind \in {"damaged", "cut"} : LineNoise(kind)
      <3>1. \A kind \in {"damaged", "cut"} : LineNoise(kind) => noise' = noise + 1
        BY DEF LineNoise
      <3> QED
        BY <1>0, <3>1
    <2>3. ~LineResume
      <3>1. line # <<>> => Len(line) \in DOMAIN line
        BY <1>0, EmptySeq, LenProperties DEF TypeOK
      <3> QED
        BY <3>1 DEF LineResume, Quiet, GoodLine
    <2>4. ~LineSplit
      <3>1. LineSplit => noise' = noise + 1
        BY DEF LineSplit
      <3> QED
        BY <1>0, <3>1
    <2> QED
      BY <2>1, <2>2, <2>3, <2>4 DEF StickStep
  <1> DEFINE item == [kind |-> "good", frame |-> r]
  <1>2. /\ UNCHANGED <<send_queue, receive_queue, main, wild, pc, call, worker, frame>> /\ ~wild
        /\ stick' = stick \ {r} /\ r \in Frame
        /\ line' \in {line, Append(line, item)} /\ Arrives(r)
    BY <1>0, <1>1 DEF StickAnswer, Arrives, sendVars, recvVars, workerVars, clientVars,
                      mainVars, TypeOK
  <1>3. item \in Packet /\ item.kind = "good" /\ line \in Seq(Packet)
    BY <1>0, <1>2 DEF Packet, TypeOK
  <1> HIDE DEF item
  <1>4. Pushers' = Pushers /\ Waiting' = Waiting /\ One(Carrying)' = One(Carrying)
    BY <1>2 DEF Pushers, Waiting, Carrying
  <1>5. Len(line') \in Nat /\ Len(line') <= Len(line) + 1
    BY <1>2, <1>3, AppendProperties, LenProperties
  <1>6. Accounted'
    <2>1. Cardinality(stick') = Cardinality(stick) - 1
      BY <1>0, <1>2, FS_RemoveElement
    <2>2. PICK p, s, o, k, l, q, w \in Nat : Sizes(p, s, o, k, l, q, w)
      BY <1>0, SizesExist
    <2>3. p + s + o + k + l + q <= w
      BY <2>2, AccountedIs DEF Quiet
    <2>4. PICK n \in Nat : n = Len(line') /\ n <= l + 1
      BY <1>5, <2>2 DEF Sizes
    <2>5. Sizes(p, s, o, k - 1, n, q, w)'
      BY <1>2, <1>4, <2>1, <2>2, <2>4 DEF Sizes
    <2>6. p + s + o + (k - 1) + n + q <= w
      <3>1. (k - 1) + n <= k + l
        BY <2>4
      <3> QED
        BY <2>3, <3>1
    <2> QED
      BY <2>5, <2>6, AccountedIsNext
  <1>7. InFlight' \subseteq InFlight
    <2>1. OnLine' \subseteq OnLine \cup {r}
      BY <1>0, <1>2, LineFrames
    <2>2. /\ Frames(send_queue') = Frames(send_queue)
          /\ Frames(receive_queue') = Frames(receive_queue)
          /\ Carried' = Carried
      BY <1>2 DEF Frames, Carried, Carrying
    <2> QED
      BY <1>1, <1>2, <2>1, <2>2 DEF InFlight
  <1>8. Owned => Owned'
    BY <1>2, <1>4, <1>7 DEF Owned
  <1>9. GoodLine'
    BY <1>2, <1>3, AppendElements DEF Quiet, GoodLine
  <1> QED
    BY <1>2, <1>6, <1>8, <1>9 DEF Quiet, StartsQuiet, Unlinked

-----------------------------------------------------------------------------
LEMMA QuietNext ==
    ASSUME Known, BusyInv, [Next]_vars, Undisturbed'
    PROVE  Quiet'
  <1>1. /\ Known' /\ TypeOK /\ TypeOK' /\ Undisturbed /\ Quiet
        /\ (NothingTaken' => NothingTaken)
    BY KnownNext, UndisturbedBefore DEF Known, CopiesInv, AnswerInv, BusyInv
  <1>2. CASE UNCHANGED vars
    <2>1. /\ UNCHANGED <<send_queue, receive_queue, stick, line, main, wild, pc, call,
                         worker, frame, issued>>
      BY <1>2 DEF vars, sendVars, recvVars, workerVars, clientVars, mainVars, stickVars, seqVars
    <2>2. /\ Pushers' = Pushers /\ Waiting' = Waiting /\ Carrying' = Carrying
          /\ InFlight' = InFlight
      BY <2>1 DEF Pushers, Waiting, Carrying, InFlight, Carried, Frames, OnLine
    <2>3. Owned => Owned'
      BY <2>1, <2>2 DEF Owned
    <2>4. Accounted'
      BY <1>1, <2>1, <2>2 DEF Quiet, Accounted, Outstanding
    <2> QED
      BY <1>1, <2>1, <2>3, <2>4 DEF Quiet, StartsQuiet, GoodLine, Unlinked
  <1>3. CASE ConnectOpen \/ ConnectFail \/ CloseRequest \/ MainStep \/ Restart
    BY <1>1, <1>3, QuietMain
  <1>4. ASSUME NEW c \in Clients, NEW command \in Commands, NEW want \in Wanted(command),
               EnqueueTakeSequence(c, command, want)
        PROVE  Quiet'
    <2>1. ~wild'
      BY <1>4 DEF EnqueueTakeSequence, recvVars
    <2> QED
      BY <1>1, <1>4, <2>1, QuietEnqueue
  <1>5. ASSUME NEW c \in Clients, ClientStep(c) \/ WaitSpurious(c)
        PROVE  Quiet'
    <2>1. CASE EnqueuePush(c)
      <3>1. ~wild'
        BY <2>1 DEF EnqueuePush, recvVars
      <3> QED
        BY <1>1, <2>1, <3>1, QuietPush
    <2>2. CASE WaitFound(c)
      BY <1>1, <2>2, QuietFound
    <2>3. CASE \/ EnqueueWakeUp(c) \/ WaitStuck(c) \/ WaitEmpty(c) \/ WaitSleep(c)
               \/ WaitSpurious(c) \/ Finish(c)
      BY <1>1, <2>3, QuietClient
    <2> QED
      BY <1>5, <2>1, <2>2, <2>3 DEF ClientStep
  <1>6. CASE WorkerStep
    BY <1>1, <1>6, QuietWorkerKept, QuietPop, QuietWrite, QuietRead, QuietDeliver DEF WorkerStep
  <1>7. CASE StickStep
    BY <1>1, <1>7, QuietStick
  <1> QED
    BY <1>2, <1>3, <1>4, <1>5, <1>6, <1>7 DEF Next

(* The holder of mutex_receive_queue spins on; the head stays what it is.  *)
LEMMA LockNext == Known /\ LockInv /\ [Next]_vars => LockInv'
  <1> SUFFICES ASSUME Known, LockInv, [Next]_vars PROVE LockInv'
    OBVIOUS
  <1>0. TypeOK /\ receive_queue \in Seq(Item(Frame)) /\ "none" \notin Clients
    BY DeviceAssumption DEF Known, CopiesInv, AnswerInv, TypeOK
  <1>1. CASE UNCHANGED <<receive_lock, receive_queue, pc, call>>
    BY <1>1 DEF LockInv, Matches
  <1>2. CASE ConnectOpen \/ ConnectFail \/ Restart
    <2>1. receive_lock' = "none"
      BY <1>2 DEF ConnectOpen, ConnectFail, ConnectReset, Restart, LockInv
    <2> QED
      BY <2>1 DEF LockInv
  <1>3. CASE CloseRequest \/ MainStep
    BY <1>1, <1>3 DEF CloseRequest, MainStep, ConnectReturn, ClosePollDone, CloseJoin,
                      recvVars, clientVars
  <1>4. ASSUME NEW c \in Clients,
               \/ \E command \in Commands : \E want \in Wanted(command) :
                      EnqueueTakeSequence(c, command, want)
               \/ EnqueuePush(c) \/ EnqueueWakeUp(c) \/ WaitEmpty(c) \/ WaitSleep(c)
               \/ WaitSpurious(c) \/ Finish(c)
        PROVE  LockInv'
    <2>1. /\ UNCHANGED <<receive_lock, receive_queue>> /\ pc[c] # "spin"
          /\ \A d \in Clients : d # c => pc'[d] = pc[d] /\ call'[d] = call[d]
      BY <1>0, <1>4 DEF EnqueueTakeSequence, EnqueuePush, EnqueueWakeUp, WaitEmpty, WaitSleep,
                        WaitSpurious, Finish, Searching, recvVars, TypeOK
    <2> QED
      BY <2>1 DEF LockInv, Matches
  <1>5. ASSUME NEW c \in Clients, WaitFound(c)
        PROVE  LockInv'
    BY <1>5 DEF WaitFound, Searching, LockInv
  <1>6. ASSUME NEW c \in Clients, WaitStuck(c)
        PROVE  LockInv'
    BY <1>0, <1>6 DEF WaitStuck, LockInv, Matches, TypeOK
  <1>7. CASE WorkerDeliver
    BY <1>7 DEF WorkerDeliver, LockInv
  <1>8. CASE WorkerStep /\ ~WorkerDeliver
    BY <1>1, <1>8 DEF WorkerStep, WorkerStart, WorkerCheck, SelectInput, SelectWakeUp,
                      SelectTimeout, ReadUnconnected, ReadPacket, WorkerPop, WorkerWrite,
                      WorkerExit, recvVars, clientVars
  <1>9. CASE StickStep
    BY <1>1, <1>9 DEF StickStep, StickAnswer, StickNotice, LineNoise, LineSplit,
                      LineResume, recvVars, clientVars
  <1>10. CASE UNCHANGED vars
    BY <1>1, <1>10 DEF vars, recvVars, clientVars
  <1> QED
    BY <1>2, <1>3, <1>4, <1>5, <1>6, <1>7, <1>8, <1>9, <1>10 DEF Next, ClientStep

LEMMA WantNext == Known /\ WantInv /\ [Next]_vars => WantInv'
  <1> SUFFICES ASSUME Known, WantInv, [Next]_vars PROVE WantInv'
    OBVIOUS
  <1>0. TypeOK
    BY DEF Known, CopiesInv, AnswerInv
  <1>1. CASE \A c \in Clients : pc'[c] # "idle" => pc[c] # "idle" /\ call'[c] = call[c]
    BY <1>1 DEF WantInv
  <1>2. ASSUME NEW c \in Clients, NEW command \in Commands, NEW want \in Wanted(command),
               EnqueueTakeSequence(c, command, want)
        PROVE  WantInv'
    <2>1. /\ pc' = [pc EXCEPT ![c] = "push"]
          /\ call' = [call EXCEPT ![c] = [id |-> issued + 1, command |-> command,
                                          seq |-> sequence_number, want |-> want]]
      BY <1>2 DEF EnqueueTakeSequence
    <2>2. want \in {command, COMMAND_ANY}
      BY DEF Wanted
    <2>3. call'[c].want = want /\ call'[c].command = command
      BY <1>0, <2>1 DEF TypeOK
    <2>4. \A d \in Clients : d # c => pc'[d] = pc[d] /\ call'[d] = call[d]
      BY <1>0, <2>1 DEF TypeOK
    <2> QED
      BY <2>2, <2>3, <2>4 DEF WantInv
  <1>3. ASSUME NEW c \in Clients, ClientStep(c) \/ WaitSpurious(c)
        PROVE  WantInv'
    BY <1>0, <1>1, <1>3 DEF ClientStep, EnqueuePush, EnqueueWakeUp, WaitFound, WaitStuck,
                            WaitEmpty, WaitSleep, WaitSpurious, Finish, Searching, TypeOK
  <1>4. CASE ConnectOpen \/ ConnectFail \/ CloseRequest \/ MainStep \/ Restart
    BY <1>1, <1>4 DEF ConnectOpen, ConnectFail, ConnectReset, CloseRequest, MainStep,
                      ConnectReturn, ClosePollDone, CloseJoin, Restart, clientVars
  <1>5. CASE WorkerStep
    BY <1>0, <1>1, <1>5 DEF WorkerStep, WorkerStart, WorkerCheck, SelectInput, SelectWakeUp,
                      SelectTimeout, ReadUnconnected, ReadPacket, WorkerDeliver, WorkerPop,
                      WorkerWrite, WorkerExit, Signal, clientVars, TypeOK
  <1>6. CASE StickStep \/ UNCHANGED vars
    BY <1>1, <1>6 DEF StickStep, StickAnswer, StickNotice, LineNoise, LineSplit,
                      LineResume, vars, clientVars
  <1> QED
    BY <1>2, <1>3, <1>4, <1>5, <1>6 DEF Next

LEMMA BusyInit == Init => BusyInv
  <1> SUFFICES ASSUME Init PROVE BusyInv
    OBVIOUS
  <1>1. Pushers = {} /\ Waiting = {} /\ InFlight = {}
    BY EmptySeq DEF Init, Pushers, Waiting, InFlight, Carried, Carrying, Frames, OnLine
  <1>2. Accounted
    BY <1>1, EmptySeq, FS_EmptySet DEF Init, Accounted, Outstanding, One, Carrying
  <1> QED
    BY <1>1, <1>2, EmptySeq DEF Init, BusyInv, LockInv, WantInv, Quiet, StartsQuiet, GoodLine,
                                Owned, Unlinked

LEMMA BusyMeans == Known /\ BusyInv => OneAtATimeIsSafe
  <1> SUFFICES ASSUME Known, BusyInv, Undisturbed
               PROVE  /\ Len(receive_queue) <= Cardinality(Busy)
                      /\ receive_lock # "none" /\ NothingTaken => Cardinality(Busy) > 1
                      /\ wild => Cardinality(Clients) > 1
    BY DEF OneAtATimeIsSafe
  <1>0. TypeOK /\ IsFiniteSet(stick) /\ Quiet
    BY DEF Known, CopiesInv, AnswerInv, BusyInv
  <1>1. Len(receive_queue) <= Cardinality(Busy)
    BY <1>0, Counts DEF Quiet, Accounted, Outstanding
  <1>2. ASSUME receive_lock # "none", NothingTaken
        PROVE  Cardinality(Busy) > 1
    <2> DEFINE c == receive_lock
    <2>1. /\ c \in Clients /\ pc[c] = "spin" /\ receive_queue # <<>>
          /\ ~Matches(Head(receive_queue).contents, call[c])
      BY <1>2 DEF BusyInv, LockInv
    <2>2. Head(receive_queue).contents \in InFlight
      BY <1>0, <2>1, QueueFrames DEF InFlight, TypeOK
    <2>3. PICK d \in Waiting : Head(receive_queue).contents = Request(call[d])
      BY <1>0, <1>2, <2>2 DEF Quiet, Owned
    <2> HIDE DEF c
    <2>4. c # d
      <3>1. call[c].want \in {call[c].command, COMMAND_ANY}
        BY <2>1 DEF BusyInv, WantInv
      <3> QED
        BY <2>1, <2>3, <3>1 DEF Matches, Request
    <2>5. {c, d} \in SUBSET Busy /\ Busy \in SUBSET Clients
      BY <2>1, <2>3 DEF Busy, Waiting
    <2>6. Cardinality({c, d}) = 2
      <3>1. IsFiniteSet({c}) /\ Cardinality({c}) = 1 /\ {c, d} = {c} \cup {d} /\ d \notin {c}
        BY <2>4, FS_Singleton
      <3> QED
        BY <3>1, FS_AddElement
    <2>7. IsFiniteSet(Busy)
      BY <2>5, SetCounts, DeviceAssumption
    <2>8. Cardinality({c, d}) <= Cardinality(Busy) /\ Cardinality(Busy) \in Nat
      BY <2>5, <2>7, SetCounts
    <2> QED
      BY <2>6, <2>8
  <1>3. ASSUME wild PROVE Cardinality(Clients) > 1
    <2>1. ~(Cardinality(Clients) <= 1)
      BY <1>0, <1>3 DEF Quiet
    <2>2. Cardinality(Clients) \in Nat
      BY <1>0, Counts
    <2> QED
      BY <2>1, <2>2
  <1> QED
    BY <1>1, <1>2, <1>3

(* A program that waits for each answer before its next request meets no   *)
(* second frame in the receive queue, no search that spins and no item     *)
(* freed too early, for any number of threads and of requests.             *)
THEOREM OneAtATime == Spec => []OneAtATimeIsSafe
  <1>1. Init => Known /\ BusyInv
    BY CopiesInit, OrderInit, BusyInit DEF Known
  <1>2. Known /\ BusyInv /\ [Next]_vars => (Known /\ BusyInv)'
    BY KnownNext, QuietNext, LockNext, WantNext DEF BusyInv
  <1> QED
    BY <1>1, <1>2, BusyMeans, PTL DEF Spec
=============================================================================
