------------------------ MODULE ConbeeDevice_proofs ------------------------
(***************************************************************************)
(* Proofs about ConbeeDevice, for every number of clients, commands and    *)
(* sequence numbers and every value of the bounds.                         *)
(***************************************************************************)
EXTENDS ConbeeDevice, SequenceTheorems, FiniteSetTheorems, TLAPS

(* What the queue operators keep: a queue of items of S stays one.         *)
LEMMA QueueTypes ==
    ASSUME NEW S, NEW q \in Seq(Item(S))
    PROVE  /\ \A x \in S : /\ QueuePush(q, x) \in Seq(Item(S))
                           /\ Len(QueuePush(q, x)) = Len(q) + 1
           /\ q # <<>> => /\ QueuePop(q) \in Seq(Item(S))
                          /\ QueueDeleteHead(q) \in Seq(Item(S))
                          /\ Len(q) > 0
                          /\ Len(QueuePop(q)) = Len(q) - 1
                          /\ Head(q).contents \in S
                          /\ DeleteIsStale(q) \in BOOLEAN
  <1>1. ASSUME NEW x \in S
        PROVE  /\ QueuePush(q, x) \in Seq(Item(S))
               /\ Len(QueuePush(q, x)) = Len(q) + 1
    <2>1. [contents |-> x, linked |-> q # <<>>] \in Item(S)
      BY DEF Item
    <2> QED
      BY <2>1, AppendProperties DEF QueuePush
  <1>2. ASSUME q # <<>>
        PROVE  /\ QueuePop(q) \in Seq(Item(S))
               /\ QueueDeleteHead(q) \in Seq(Item(S))
               /\ Len(q) > 0
               /\ Len(QueuePop(q)) = Len(q) - 1
               /\ Head(q) \in Item(S)
    BY <1>2, HeadTailProperties, EmptySeq, LenProperties DEF QueuePop, QueueDeleteHead
  <1>3. ASSUME q # <<>>
        PROVE  /\ Head(q).contents \in S
               /\ DeleteIsStale(q) \in BOOLEAN
    BY <1>2, <1>3 DEF Item, DeleteIsStale
  <1> QED
    BY <1>1, <1>2, <1>3

(* The blank frame, the empty call and the next sequence number are well   *)
(* typed.                                                                  *)
LEMMA ValueTypes ==
    /\ 0 \in Sequences8
    /\ BlankFrame \in Frame
    /\ NoCall \in Call
    /\ \A s \in Sequences8 : NextSequence(s) \in Sequences8
    /\ \A k \in Call : Request(k) \in Frame
  <1>1. SeqMod \in Nat /\ SeqMod > 0
    BY DeviceAssumption
  <1>2. 0 \in Sequences8
    BY <1>1 DEF Sequences8
  <1>3. \A s \in Sequences8 : NextSequence(s) \in Sequences8
    BY <1>1 DEF Sequences8, NextSequence
  <1>4. COMMAND_NONE \in AllCommands
    BY DEF AllCommands
  <1>5. BlankFrame \in Frame /\ NoCall \in Call
    BY <1>2, <1>4 DEF BlankFrame, NoCall, Frame, Call
  <1>6. \A k \in Call : Request(k) \in Frame
    BY DEF Call, Frame, Request
  <1> QED
    BY <1>2, <1>3, <1>5, <1>6

(* What the line may become.                                               *)
LEMMA LineTypes ==
    ASSUME line \in Seq(Packet)
    PROVE  /\ line # <<>> => /\ Head(line) \in Packet
                             /\ Tail(line) \in Seq(Packet)
                             /\ \A kind \in {"good", "damaged", "cut"} :
                                  LastAs(kind) \in Seq(Packet)
           /\ \A f \in Frame :
                  Append(line, [kind |-> "good", frame |-> f]) \in Seq(Packet)
  <1>1. ASSUME line # <<>>
        PROVE  /\ Head(line) \in Packet
               /\ Tail(line) \in Seq(Packet)
    BY <1>1, HeadTailProperties
  <1>2. ASSUME line # <<>>, NEW kind \in {"good", "damaged", "cut"}
        PROVE  LastAs(kind) \in Seq(Packet)
    <2> DEFINE n == Len(line)
               p == [kind |-> kind, frame |-> line[n].frame]
    <2>1. n \in 1..Len(line)
      BY <1>2, EmptySeq, LenProperties
    <2>2. p \in Packet
      BY <2>1, ElementOfSeq DEF Packet
    <2>3. [line EXCEPT ![n] = p] \in Seq(Packet)
      BY <2>1, <2>2, ExceptSeq
    <2> QED
      BY <2>3 DEF LastAs
  <1>3. ASSUME NEW f \in Frame
        PROVE  Append(line, [kind |-> "good", frame |-> f]) \in Seq(Packet)
    <2>1. [kind |-> "good", frame |-> f] \in Packet
      BY DEF Packet
    <2> QED
      BY <2>1, AppendProperties
  <1> QED
    BY <1>1, <1>2, <1>3

-----------------------------------------------------------------------------
(* Type correctness, one step per action.                                  *)
LEMMA TypeInit == Init => TypeOK
  <1> SUFFICES ASSUME Init PROVE TypeOK
    OBVIOUS
  <1>1. base \in 0..issued /\ issued \in 0..MaxRequests /\ pipe_send_queue \in 0..PipeCapacity
    BY DeviceAssumption DEF Init
  <1>2. /\ send_queue \in Seq(Item(Frame)) /\ receive_queue \in Seq(Item(Frame))
        /\ line \in Seq(Packet)
    BY EmptySeq DEF Init
  <1> QED
    BY <1>1, <1>2, ValueTypes DEF Init, TypeOK

LEMMA TypeMain ==
    ASSUME TypeOK,
           ConnectOpen \/ ConnectFail \/ CloseRequest \/ MainStep \/ Restart
    PROVE  TypeOK'
  <1> USE DEF TypeOK, mainVars, workerVars, sendVars, recvVars, clientVars, seqVars, stickVars
  <1>0. /\ <<>> \in Seq(Item(Frame)) /\ <<>> \in Seq(Packet)
        /\ issued \in 0..issued
        /\ PipeCapacity \in Nat
    BY EmptySeq, DeviceAssumption
  <1>1. CASE ConnectOpen
    BY <1>0, <1>1, ValueTypes DEF ConnectOpen, ConnectReset
  <1>2. CASE ConnectFail
    BY <1>0, <1>2, ValueTypes DEF ConnectFail, ConnectReset
  <1>3. CASE CloseRequest
    BY <1>3 DEF CloseRequest
  <1>4. CASE ConnectReturn
    BY <1>4 DEF ConnectReturn
  <1>5. CASE ClosePollDone
    BY <1>5 DEF ClosePollDone
  <1>6. CASE CloseJoin
    BY <1>0, <1>6 DEF CloseJoin, DropLine
  <1>7. CASE Restart
    BY <1>0, <1>7, ValueTypes DEF Restart, DropLine
  <1> QED
    BY <1>1, <1>2, <1>3, <1>4, <1>5, <1>6, <1>7 DEF MainStep

LEMMA TypeClient ==
    ASSUME TypeOK,
           NEW c \in Clients,
           \/ ClientStep(c)
           \/ WaitSpurious(c)
           \/ \E command \in Commands : \E want \in Wanted(command) :
                  EnqueueTakeSequence(c, command, want)
    PROVE  TypeOK'
  <1> USE DEF TypeOK, mainVars, workerVars, sendVars, recvVars, clientVars, seqVars, stickVars
  <1>1. ASSUME NEW command \in Commands, NEW want \in Wanted(command),
               EnqueueTakeSequence(c, command, want)
        PROVE  TypeOK'
    <2>1. want \in AllCommands /\ command \in AllCommands
      BY DEF Wanted, AllCommands
    <2>2. issued' \in 0..MaxRequests /\ base' \in 0..issued'
      BY <1>1, DeviceAssumption DEF EnqueueTakeSequence
    <2>3. sequence_number' \in Sequences8
      BY <1>1, ValueTypes DEF EnqueueTakeSequence
    <2>4. [id |-> issued + 1, command |-> command, seq |-> sequence_number,
           want |-> want] \in Call
      BY <2>1 DEF Call
    <2>5. call' \in [Clients -> Call]
      BY <1>1, <2>4 DEF EnqueueTakeSequence
    <2> QED
      BY <1>1, <2>2, <2>3, <2>5 DEF EnqueueTakeSequence
  <1>2. CASE EnqueuePush(c)
    <2>1. Request(call[c]) \in Frame
      BY ValueTypes
    <2>2. send_queue' \in Seq(Item(Frame))
      BY <1>2, <2>1, QueueTypes DEF EnqueuePush
    <2> QED
      BY <1>2, <2>2 DEF EnqueuePush
  <1>3. CASE EnqueueWakeUp(c)
    BY <1>3, DeviceAssumption DEF EnqueueWakeUp
  <1>4. CASE WaitFound(c)
    <2>1. /\ receive_queue # <<>> /\ receive_queue' = QueueDeleteHead(receive_queue)
          /\ got' = [got EXCEPT ![c] = Head(receive_queue).contents]
          /\ pc' = [pc EXCEPT ![c] = "got"] /\ wild' = DeleteIsStale(receive_queue)
      BY <1>4 DEF WaitFound
    <2>2. /\ QueueDeleteHead(receive_queue) \in Seq(Item(Frame))
          /\ Head(receive_queue).contents \in Frame
          /\ DeleteIsStale(receive_queue) \in BOOLEAN
      <3>1. receive_queue \in Seq(Item(Frame))
        OBVIOUS
      <3> HIDE DEF TypeOK
      <3> QED
        BY <2>1, <3>1, QueueTypes
    <2>3. /\ receive_queue' \in Seq(Item(Frame)) /\ got' \in [Clients -> Frame]
          /\ pc' \in [Clients -> {"idle", "push", "wake", "search", "unlocked", "asleep",
                                  "woken", "spin", "got"}]
      BY <2>1, <2>2
    <2>4. wild' \in BOOLEAN
      <3> HIDE DEF TypeOK
      <3> QED
        BY <2>1, <2>2
    <2> QED
      BY <1>4, <2>3, <2>4 DEF WaitFound
  <1>5. CASE WaitStuck(c)
    BY <1>5 DEF WaitStuck, Searching
  <1>6. CASE WaitEmpty(c)
    BY <1>6 DEF WaitEmpty, Searching
  <1>7. CASE WaitSleep(c)
    BY <1>7 DEF WaitSleep
  <1>8. CASE WaitSpurious(c)
    BY <1>8 DEF WaitSpurious
  <1>9. CASE Finish(c)
    BY <1>9, ValueTypes DEF Finish
  <1> QED
    BY <1>1, <1>2, <1>3, <1>4, <1>5, <1>6, <1>7, <1>8, <1>9 DEF ClientStep

LEMMA TypeWorker ==
    ASSUME TypeOK, WorkerStep
    PROVE  TypeOK'
  <1> USE DEF TypeOK, mainVars, workerVars, sendVars, recvVars, clientVars, seqVars, stickVars
  <1>1. CASE WorkerStart
    BY <1>1 DEF WorkerStart
  <1>2. CASE WorkerCheck
    BY <1>2 DEF WorkerCheck
  <1>3. CASE SelectInput
    BY <1>3, ValueTypes DEF SelectInput
  <1>4. CASE SelectWakeUp
    BY <1>4, DeviceAssumption DEF SelectWakeUp, OneWakeUp
  <1>5. CASE SelectTimeout
    BY <1>5 DEF SelectTimeout, NextRound
  <1>6. CASE ReadUnconnected
    BY <1>6 DEF ReadUnconnected
  <1>7. CASE ReadPacket
    <2>1. Head(line).frame \in Frame /\ Tail(line) \in Seq(Packet)
      BY <1>7, LineTypes DEF ReadPacket, Packet
    <2> QED
      BY <1>7, <2>1 DEF ReadPacket
  <1>8. CASE WorkerDeliver
    <2>1. pc' \in [Clients -> {"idle", "push", "wake", "search", "unlocked", "asleep",
                               "woken", "spin", "got"}]
      BY <1>8 DEF WorkerDeliver, Signal
    <2> QED
      BY <1>8, <2>1, QueueTypes, ValueTypes DEF WorkerDeliver, NextRound
  <1>9. CASE WorkerPop
    BY <1>9, QueueTypes DEF WorkerPop, NextRound
  <1>10. CASE WorkerWrite
    BY <1>10, ValueTypes DEF WorkerWrite, NextRound
  <1>11. CASE WorkerExit
    BY <1>11 DEF WorkerExit
  <1> QED
    BY <1>1, <1>2, <1>3, <1>4, <1>5, <1>6, <1>7, <1>8, <1>9, <1>10, <1>11 DEF WorkerStep

LEMMA TypeStick ==
    ASSUME TypeOK, StickStep
    PROVE  TypeOK'
  <1> USE DEF TypeOK, mainVars, workerVars, sendVars, recvVars, clientVars, seqVars, stickVars
  <1>1. ASSUME NEW r \in stick, StickAnswer(r) PROVE TypeOK'
    BY <1>1, LineTypes DEF StickAnswer, Arrives
  <1>2. ASSUME NEW s \in Sequences8, StickNotice(s) PROVE TypeOK'
    <2>1. [id |-> 0, command |-> COMMAND_DEVICE_STATE_CHANGED, seq |-> s] \in Frame
      BY DEF Frame, AllCommands
    <2> QED
      BY <1>2, <2>1, LineTypes DEF StickNotice, Arrives
  <1>3. ASSUME NEW kind \in {"damaged", "cut"}, LineNoise(kind) PROVE TypeOK'
    <2>1. line' \in Seq(Packet)
      BY <1>3, LineTypes DEF LineNoise, LastBecomes
    <2> QED
      BY <1>3, <2>1 DEF LineNoise
  <1>4. CASE LineResume
    BY <1>4, LineTypes DEF LineResume, LastBecomes
  <1>5. CASE LineSplit
    <2>1. line' \in Seq(Packet)
      <3>1. LastAs("damaged") \in Seq(Packet)
        BY <1>5, LineTypes DEF LineSplit
      <3>2. [kind |-> "damaged", frame |-> BlankFrame] \in Packet
        BY ValueTypes DEF Packet
      <3> QED
        BY <1>5, <3>1, <3>2, AppendProperties DEF LineSplit
    <2> QED
      BY <1>5, <2>1 DEF LineSplit
  <1> QED
    BY <1>1, <1>2, <1>3, <1>4, <1>5 DEF StickStep

LEMMA TypeNext == TypeOK /\ [Next]_vars => TypeOK'
  <1> SUFFICES ASSUME TypeOK, [Next]_vars PROVE TypeOK'
    OBVIOUS
  <1>1. CASE UNCHANGED vars
    BY <1>1 DEF vars, TypeOK, mainVars, workerVars, sendVars, recvVars, clientVars,
                seqVars, stickVars
  <1> QED
    BY <1>1, TypeMain, TypeClient, TypeWorker, TypeStick DEF Next

(* Every state the device can reach is well typed.                         *)
THEOREM TypeCorrect == Spec => []TypeOK
  <1> QED
    BY TypeInit, TypeNext, PTL DEF Spec

-----------------------------------------------------------------------------
(* The order of connecting, starting and joining.  FdOutlivesWorker and    *)
(* WriteWhenConnected are not inductive: the first needs that the worker   *)
(* only runs between ConnectOpen and CloseJoin, the second that nothing is *)
(* queued for writing before tty_status is set.                            *)
ThreadOrder ==
    /\ main \in {"starting", "connected", "stopping", "joining"} => fd = "open"
    /\ main \in {"connected", "stopping", "joining"} => tty_status = "connected"
    /\ main \in {"unconnected", "closed"} => ~Running
    /\ main \in {"unconnected", "starting"} => \A c \in Clients : pc[c] = "idle"
    /\ main = "starting" => /\ pipe_send_queue = 0
                            /\ worker \notin {"pop", "write"}

LEMMA OrderInit == Init => ThreadOrder
  BY DEF Init, ThreadOrder, Running

LEMMA OrderNext == TypeOK /\ ThreadOrder /\ [Next]_vars => ThreadOrder'
  <1> SUFFICES ASSUME TypeOK, ThreadOrder, [Next]_vars PROVE ThreadOrder'
    OBVIOUS
  <1> USE DEF ThreadOrder, Running
  <1>1. CASE UNCHANGED vars
    BY <1>1 DEF vars, mainVars, workerVars, sendVars, clientVars
  <1>2. CASE ConnectOpen \/ ConnectFail \/ CloseRequest \/ MainStep \/ Restart
    BY <1>2 DEF ConnectOpen, ConnectFail, ConnectReset, CloseRequest, MainStep,
                ConnectReturn, ClosePollDone, CloseJoin, Restart,
                workerVars, sendVars, clientVars
  <1>3. ASSUME NEW c \in Clients,
               \/ ClientStep(c)
               \/ WaitSpurious(c)
               \/ \E command \in Commands : \E want \in Wanted(command) :
                      EnqueueTakeSequence(c, command, want)
        PROVE  ThreadOrder'
    <2>1. ~(main \in {"unconnected", "starting"})
      BY <1>3 DEF ClientStep, EnqueueTakeSequence, EnqueuePush, EnqueueWakeUp,
                  WaitFound, WaitStuck, WaitEmpty, WaitSleep, WaitSpurious, Finish,
                  Searching
    <2>2. UNCHANGED <<main, fd, tty_status, worker>>
      BY <1>3 DEF ClientStep, EnqueueTakeSequence, EnqueuePush, EnqueueWakeUp,
                  WaitFound, WaitStuck, WaitEmpty, WaitSleep, WaitSpurious, Finish,
                  mainVars, workerVars
    <2> QED
      BY <2>1, <2>2
  <1>4. CASE WorkerStep
    <2>1. /\ UNCHANGED <<main, fd, tty_status>>
          /\ Running
      BY <1>4 DEF WorkerStep, WorkerStart, WorkerCheck, SelectInput, SelectWakeUp,
                  SelectTimeout, ReadUnconnected, ReadPacket, WorkerDeliver, WorkerPop,
                  WorkerWrite, WorkerExit, mainVars
    <2>2. main = "starting" => /\ pipe_send_queue' = 0
                               /\ worker' \notin {"pop", "write"}
                               /\ \A c \in Clients : pc'[c] = "idle"
      BY <1>4 DEF TypeOK, WorkerStep, WorkerStart, WorkerCheck, SelectInput,
                  SelectWakeUp, SelectTimeout, ReadUnconnected, ReadPacket,
                  WorkerDeliver, WorkerPop, WorkerWrite, WorkerExit, NextRound, Signal,
                  sendVars, clientVars
    <2> QED
      BY <2>1, <2>2
  <1>5. CASE StickStep
    BY <1>5 DEF StickStep, StickAnswer, StickNotice, LineNoise, LineSplit, LineResume,
                mainVars, workerVars, sendVars, clientVars
  <1> QED
    BY <1>1, <1>2, <1>3, <1>4, <1>5 DEF Next

(* The tty stays open under the worker and is connected when it writes,    *)
(* for every number of clients and every interleaving.                     *)
THEOREM TtyOutlivesWorker == Spec => [](FdOutlivesWorker /\ WriteWhenConnected)
  <1>1. TypeOK /\ ThreadOrder => FdOutlivesWorker /\ WriteWhenConnected
    BY DEF TypeOK, ThreadOrder, Running, FdOutlivesWorker, WriteWhenConnected
  <1>2. Spec => [](TypeOK /\ ThreadOrder)
    BY TypeInit, TypeNext, OrderInit, OrderNext, PTL DEF Spec
  <1> QED
    BY <1>1, <1>2, PTL

(* A write to the tty meets a connected device: the half of the theorem    *)
(* before that is about the worker's writes.                               *)
THEOREM WritesWhenConnected == Spec => []WriteWhenConnected
  BY TtyOutlivesWorker, PTL

-----------------------------------------------------------------------------
(* One wake-up per queued frame.  TokensAccountForFrames is inductive once *)
(* the variables are typed and the clients idle while the device connects. *)
LEMMA WakersFinite == IsFiniteSet(Wakers) /\ Cardinality(Wakers) \in Nat
  BY DeviceAssumption, FS_Subset, FS_CardinalityType DEF Wakers

(* A step that leaves the counts alone keeps the equation.                 *)
LEMMA TokensKept ==
    ASSUME TypeOK, TokensAccountForFrames,
           UNCHANGED <<send_queue, pipe_send_queue>>,
           \A c \in Clients : pc'[c] = "wake" <=> pc[c] = "wake",
           Running' => Running /\ (worker' = "pop" <=> worker = "pop")
    PROVE  TokensAccountForFrames'
  <1>1. Wakers' = Wakers
    BY DEF Wakers
  <1> QED
    BY <1>1 DEF TokensAccountForFrames

LEMMA TokensMain ==
    ASSUME TypeOK, ThreadOrder, TokensAccountForFrames,
           ConnectOpen \/ ConnectFail \/ CloseRequest \/ MainStep \/ Restart
    PROVE  TokensAccountForFrames'
  <1>1. CASE ConnectOpen
    <2>1. Wakers' = {}
      BY <1>1 DEF ConnectOpen, ConnectReset, Wakers, clientVars
    <2>2. send_queue' = <<>> /\ pipe_send_queue' = 0 /\ worker' = "start"
      BY <1>1 DEF ConnectOpen, ConnectReset
    <2> QED
      BY <2>1, <2>2, FS_EmptySet, EmptySeq DEF TokensAccountForFrames
  <1>2. CASE ConnectFail
    BY <1>2 DEF ConnectFail, ConnectReset, ThreadOrder, TokensAccountForFrames, Running,
                workerVars
  <1>3. CASE CloseRequest \/ MainStep
    BY <1>3, TokensKept DEF CloseRequest, MainStep, ConnectReturn, ClosePollDone, CloseJoin,
                Running, workerVars, sendVars, clientVars
  <1>4. CASE Restart
    BY <1>4 DEF Restart, TokensAccountForFrames, Running
  <1> QED
    BY <1>1, <1>2, <1>3, <1>4

LEMMA TokensClient ==
    ASSUME TypeOK, TokensAccountForFrames,
           NEW c \in Clients,
           \/ ClientStep(c)
           \/ WaitSpurious(c)
           \/ \E command \in Commands : \E want \in Wanted(command) :
                  EnqueueTakeSequence(c, command, want)
    PROVE  TokensAccountForFrames'
  <1>1. CASE EnqueuePush(c)
    <2>1. Wakers' = Wakers \cup {c} /\ c \notin Wakers
      BY <1>1 DEF EnqueuePush, Wakers, TypeOK
    <2>2. Cardinality(Wakers') = Cardinality(Wakers) + 1
      BY <2>1, WakersFinite, FS_AddElement
    <2>3. Len(send_queue') = Len(send_queue) + 1
      <3>1. Request(call[c]) \in Frame
        BY ValueTypes DEF TypeOK
      <3>2. Len(QueuePush(send_queue, Request(call[c]))) = Len(send_queue) + 1
        <4>1. send_queue \in Seq(Item(Frame))
          BY DEF TypeOK
        <4> QED
          BY <3>1, <4>1, QueueTypes
      <3> QED
        BY <1>1, <3>2 DEF EnqueuePush
    <2>4. UNCHANGED <<pipe_send_queue, worker>>
      BY <1>1 DEF EnqueuePush, workerVars
    <2>5. pipe_send_queue \in Nat /\ Cardinality(Wakers) \in Nat /\ Len(send_queue) \in Nat
      BY WakersFinite, LenProperties, DeviceAssumption DEF TypeOK
    <2> QED
      BY <2>2, <2>3, <2>4, <2>5 DEF TokensAccountForFrames, Running
  <1>2. CASE EnqueueWakeUp(c)
    <2>1. Wakers' = Wakers \ {c} /\ c \in Wakers
      BY <1>2 DEF EnqueueWakeUp, Wakers, TypeOK
    <2>2. Cardinality(Wakers') = Cardinality(Wakers) - 1
      BY <2>1, WakersFinite, FS_RemoveElement
    <2>3. pipe_send_queue' = pipe_send_queue + 1 /\ UNCHANGED <<send_queue, worker>>
      BY <1>2 DEF EnqueueWakeUp, workerVars
    <2>4. pipe_send_queue \in Nat /\ Cardinality(Wakers) \in Nat
      BY WakersFinite, DeviceAssumption DEF TypeOK
    <2> QED
      BY <2>2, <2>3, <2>4 DEF TokensAccountForFrames, Running
  <1>3. ASSUME NEW command \in Commands, NEW want \in Wanted(command),
               EnqueueTakeSequence(c, command, want)
        PROVE  TokensAccountForFrames'
    BY <1>3, TokensKept DEF EnqueueTakeSequence, TypeOK, Running, workerVars, sendVars
  <1>4. CASE \/ WaitFound(c) \/ WaitStuck(c) \/ WaitEmpty(c) \/ WaitSleep(c)
             \/ Finish(c) \/ WaitSpurious(c)
    BY <1>4, TokensKept DEF WaitFound, WaitStuck, WaitEmpty, WaitSleep, Finish, WaitSpurious,
                Searching, TypeOK, Running, workerVars, sendVars
  <1> QED
    BY <1>1, <1>2, <1>3, <1>4 DEF ClientStep

LEMMA TokensWorker ==
    ASSUME TypeOK, TokensAccountForFrames, WorkerStep
    PROVE  TokensAccountForFrames'
  <1>0. pipe_send_queue \in Nat /\ Cardinality(Wakers) \in Nat /\ Len(send_queue) \in Nat
    BY WakersFinite, LenProperties, DeviceAssumption DEF TypeOK
  <1>1. CASE SelectWakeUp
    <2>1. Wakers' = Wakers /\ UNCHANGED send_queue
      BY <1>1 DEF SelectWakeUp, Wakers, clientVars
    <2>2. /\ worker = "select" /\ worker' = "pop"
          /\ pipe_send_queue' = pipe_send_queue - 1
      BY <1>1 DEF SelectWakeUp, OneWakeUp
    <2> QED
      BY <1>0, <2>1, <2>2 DEF TokensAccountForFrames, Running
  <1>2. CASE WorkerPop
    <2>1. Wakers' = Wakers /\ UNCHANGED pipe_send_queue
      BY <1>2 DEF WorkerPop, Wakers, clientVars
    <2>2. Len(send_queue) = pipe_send_queue + Cardinality(Wakers) + 1
      BY <1>2 DEF WorkerPop, TokensAccountForFrames, Running
    <2>3. send_queue # <<>>
      BY <1>0, <2>2, EmptySeq
    <2>4. worker' = "write" /\ Len(send_queue') = Len(send_queue) - 1
      BY <1>2, <2>3, QueueTypes DEF WorkerPop, TypeOK
    <2> QED
      BY <1>0, <2>1, <2>2, <2>4 DEF TokensAccountForFrames
  <1>3. CASE \/ WorkerStart \/ WorkerCheck \/ SelectInput \/ SelectTimeout
             \/ ReadUnconnected \/ ReadPacket \/ WorkerDeliver \/ WorkerWrite \/ WorkerExit
    <2>1. UNCHANGED <<send_queue, pipe_send_queue>>
      BY <1>3 DEF WorkerStart, WorkerCheck, SelectInput, SelectTimeout, ReadUnconnected,
                  ReadPacket, WorkerDeliver, WorkerWrite, WorkerExit, sendVars
    <2>2. \A c \in Clients : pc'[c] = "wake" <=> pc[c] = "wake"
      BY <1>3 DEF WorkerStart, WorkerCheck, SelectInput, SelectTimeout, ReadUnconnected,
                  ReadPacket, WorkerDeliver, WorkerWrite, WorkerExit, Signal, clientVars,
                  TypeOK
    <2>3. Running /\ worker # "pop" /\ worker' # "pop"
      BY <1>3 DEF WorkerStart, WorkerCheck, SelectInput, SelectTimeout, ReadUnconnected,
                  ReadPacket, WorkerDeliver, WorkerWrite, WorkerExit, NextRound, Running
    <2> QED
      BY <2>1, <2>2, <2>3, TokensKept
  <1> QED
    BY <1>1, <1>2, <1>3 DEF WorkerStep

LEMMA TokensNext ==
    TypeOK /\ ThreadOrder /\ TokensAccountForFrames /\ [Next]_vars => TokensAccountForFrames'
  <1> SUFFICES ASSUME TypeOK, ThreadOrder, TokensAccountForFrames, [Next]_vars
               PROVE  TokensAccountForFrames'
    OBVIOUS
  <1>1. CASE UNCHANGED vars
    BY <1>1, TokensKept DEF vars, sendVars, clientVars, workerVars, Running
  <1>2. CASE StickStep
    BY <1>2, TokensKept DEF StickStep, StickAnswer, StickNotice, LineNoise, LineSplit, LineResume,
                sendVars, clientVars, workerVars, Running
  <1> QED
    BY <1>1, <1>2, TokensMain, TokensClient, TokensWorker DEF Next

(* Whatever the order in which clients push and write to the pipe, a       *)
(* running worker never holds a wake-up for which there is no frame, and   *)
(* no frame is queued without a wake-up that will fetch it.                *)
THEOREM OneWakeUpPerFrame == Spec => []TokensAccountForFrames
  <1>1. Init => TokensAccountForFrames
    BY DEF Init, TokensAccountForFrames, Running
  <1>2. TypeOK /\ ThreadOrder /\ TokensAccountForFrames /\ [Next]_vars
          => (TypeOK /\ ThreadOrder /\ TokensAccountForFrames)'
    BY TypeNext, OrderNext, TokensNext
  <1> QED
    BY <1>1, <1>2, TypeInit, OrderInit, PTL DEF Spec
=============================================================================
