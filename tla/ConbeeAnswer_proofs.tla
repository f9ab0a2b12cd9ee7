------------------------ MODULE ConbeeAnswer_proofs ------------------------
(***************************************************************************)
(* Proof that a client gets the answer to its own request (OwnAnswer), for *)
(* every number of clients and requests.  The invariant follows each frame *)
(* through every place it can be in: its sequence number is its place      *)
(* among the requests of this connection.                                  *)
(***************************************************************************)
EXTENDS ConbeeDevice_proofs

Frames(q) == {q[i].contents : i \in DOMAIN q}
OnLine == {line[i].frame : i \in DOMAIN line}
Given == {got[c] : c \in Clients}

Everywhere == Frames(send_queue) \cup Frames(receive_queue) \cup {frame} \cup stick
                \cup OnLine \cup Given

(* Up to 2^8 requests of a connection, the n-th carries n - 1.  Frames the *)
(* stick sends on its own and blank frames carry no command of a request.  *)
InSession == issued - base <= SeqMod
Traced(f) == /\ f.id \in 0..issued
             /\ f.id = 0 => f.command \notin Commands
             /\ f.id > base /\ InSession => f.seq = f.id - base - 1

FramesTraced == \A f \in Everywhere : Traced(f)
CallsTraced == \A c \in Clients :
                   pc[c] # "idle" => /\ call[c].id \in (base + 1)..issued
                                     /\ call[c].want \in Commands \cup {COMMAND_ANY}
                                     /\ Traced(Request(call[c]))
NextTraced == issued - base < SeqMod => sequence_number = issued - base
GotMatches == \A c \in Clients : pc[c] = "got" => Matches(got[c], call[c])

AnswerInv == TypeOK /\ FramesTraced /\ CallsTraced /\ NextTraced /\ GotMatches

-----------------------------------------------------------------------------
(* What the queue operators do to the frames in a queue.                   *)
LEMMA QueueFrames ==
    ASSUME NEW S, NEW q \in Seq(Item(S))
    PROVE  /\ \A x \in S : Frames(QueuePush(q, x)) = Frames(q) \cup {x}
           /\ q # <<>> => /\ Head(q).contents \in Frames(q)
                          /\ Frames(QueuePop(q)) \subseteq Frames(q)
                          /\ Frames(QueueDeleteHead(q)) \subseteq Frames(q)
  <1>1. ASSUME NEW x \in S
        PROVE  Frames(QueuePush(q, x)) = Frames(q) \cup {x}
    <2> DEFINE item == [contents |-> x, linked |-> q # <<>>]
    <2>1. item \in Item(S)
      BY DEF Item
    <2>2. /\ DOMAIN QueuePush(q, x) = 1..Len(q) + 1
          /\ \A i \in 1..Len(q) : QueuePush(q, x)[i] = q[i]
          /\ QueuePush(q, x)[Len(q) + 1] = item
      BY <2>1, AppendProperties, LenProperties DEF QueuePush
    <2>3. DOMAIN q = 1..Len(q) /\ Len(q) \in Nat
      BY LenProperties
    <2>4. 1..Len(q) + 1 = 1..Len(q) \cup {Len(q) + 1}
      BY <2>3
    <2>5. item.contents = x
      OBVIOUS
    <2> HIDE DEF item
    <2> QED
      BY <2>2, <2>3, <2>4, <2>5 DEF Frames
  <1>2. ASSUME q # <<>>
        PROVE  /\ Head(q).contents \in Frames(q)
               /\ Frames(Tail(q)) \subseteq Frames(q)
    <2>1. DOMAIN q = 1..Len(q) /\ Len(q) \in Nat /\ Len(q) > 0
      BY <1>2, LenProperties, EmptySeq
    <2>2. Head(q) = q[1] /\ 1 \in DOMAIN q
      BY <1>2, <2>1, HeadTailProperties
    <2>3. /\ DOMAIN Tail(q) = 1..Len(q) - 1
          /\ \A i \in 1..Len(q) - 1 : Tail(q)[i] = q[i + 1]
      BY <1>2, <2>1, HeadTailProperties, LenProperties
    <2>4. \A i \in 1..Len(q) - 1 : i + 1 \in DOMAIN q
      BY <2>1
    <2> QED
      BY <2>2, <2>3, <2>4 DEF Frames
  <1> QED
    BY <1>1, <1>2 DEF QueuePop, QueueDeleteHead

(* What every place holds is a frame.                                      *)
LEMMA EverywhereFrames == TypeOK => Everywhere \subseteq Frame
  <1> SUFFICES ASSUME TypeOK PROVE Everywhere \subseteq Frame
    OBVIOUS
  <1>1. ASSUME NEW q \in Seq(Item(Frame)) PROVE Frames(q) \subseteq Frame
    <2>1. \A i \in DOMAIN q : q[i] \in Item(Frame)
      BY LenProperties, ElementOfSeq
    <2> QED
      BY <2>1 DEF Frames, Item
  <1>2. OnLine \subseteq Frame
    <2>1. \A i \in DOMAIN line : line[i] \in Packet
      BY LenProperties, ElementOfSeq DEF TypeOK
    <2> QED
      BY <2>1 DEF OnLine, Packet
  <1>3. Given \subseteq Frame
    BY DEF Given, TypeOK
  <1>4. Frames(send_queue) \subseteq Frame /\ Frames(receive_queue) \subseteq Frame
    BY <1>1 DEF TypeOK
  <1> QED
    BY <1>2, <1>3, <1>4 DEF Everywhere, TypeOK

LEMMA BlankTraced == TypeOK => Traced(BlankFrame)
  BY DeviceAssumption DEF TypeOK, Traced, BlankFrame

(* A traced frame stays traced, also when a request is numbered and when   *)
(* a new connection starts at the last number handed out.                  *)
LEMMA TracedKept ==
    ASSUME TypeOK, TypeOK',
           \/ UNCHANGED <<issued, base>>
           \/ issued' = issued + 1 /\ base' = base
           \/ issued' = issued /\ base' = issued,
           NEW f \in Frame, Traced(f)
    PROVE  Traced(f)'
  <1>1. issued \in Nat /\ base \in Nat /\ issued' \in Nat /\ base' \in Nat /\ f.id \in Nat
        /\ base <= issued /\ SeqMod \in Nat
    BY DeviceAssumption DEF TypeOK, Frame
  <1>2. CASE UNCHANGED <<issued, base>>
    BY <1>2 DEF Traced, InSession
  <1>3. CASE issued' = issued + 1 /\ base' = base
    BY <1>1, <1>3 DEF Traced, InSession
  <1>4. CASE issued' = issued /\ base' = issued
    BY <1>1, <1>4 DEF Traced, InSession
  <1> QED
    BY <1>2, <1>3, <1>4

(* A step whose frames all come from somewhere keeps the invariant, if it  *)
(* does not number a request and starts no client on a call.               *)
LEMMA FramesKept ==
    ASSUME AnswerInv, TypeOK', UNCHANGED <<issued, base, sequence_number>>,
           \A f \in Everywhere' : f \in Everywhere \/ Traced(f),
           \A c \in Clients : pc'[c] # "idle" => pc[c] # "idle" /\ call'[c] = call[c],
           \A c \in Clients : pc'[c] = "got" => \/ Matches(got'[c], call[c])
                                                \/ pc[c] = "got" /\ got'[c] = got[c]
    PROVE  AnswerInv'
  <1>1. \A f : Traced(f) => Traced(f)'
    BY DEF Traced, InSession
  <1>2. FramesTraced'
    BY <1>1 DEF FramesTraced, AnswerInv
  <1>3. CallsTraced'
    <2>1. ASSUME NEW c \in Clients, pc'[c] # "idle"
          PROVE  /\ call'[c] = call[c]
                 /\ call[c].id \in (base + 1)..issued
                 /\ call[c].want \in Commands \cup {COMMAND_ANY}
                 /\ Traced(Request(call[c]))'
      <3>1. call'[c] = call[c] /\ pc[c] # "idle"
        BY <2>1
      <3>2. Traced(Request(call[c]))
        BY <3>1 DEF CallsTraced, AnswerInv
      <3>3. Traced(Request(call'[c]))
        BY <3>1, <3>2
      <3>4. Traced(Request(call[c]))'
        BY <3>3 DEF Traced, InSession
      <3> QED
        BY <3>1, <3>4 DEF CallsTraced, AnswerInv
    <2> QED
      BY <2>1 DEF CallsTraced
  <1>4. NextTraced'
    BY DEF NextTraced, AnswerInv
  <1>5. GotMatches'
    BY DEF GotMatches, AnswerInv
  <1> QED
    BY <1>2, <1>3, <1>4, <1>5 DEF AnswerInv

-----------------------------------------------------------------------------
(* One lemma per group of actions.                                         *)
LEMMA AnswerMain ==
    ASSUME AnswerInv, TypeOK',
           ConnectOpen \/ ConnectFail \/ CloseRequest \/ MainStep \/ Restart
    PROVE  AnswerInv'
  <1>1. CASE ConnectOpen \/ ConnectFail
    <2>1. /\ issued' = issued /\ base' = issued /\ sequence_number' = 0
          /\ UNCHANGED <<stick, line, got, pc>>
          /\ send_queue' = <<>> /\ receive_queue' = <<>>
          /\ frame' \in {frame, BlankFrame}
          /\ \A c \in Clients : pc[c] = "idle"
      BY <1>1 DEF ConnectOpen, ConnectFail, ConnectReset, workerVars, clientVars, stickVars
    <2>2. Everywhere' \subseteq Everywhere \cup {BlankFrame}
      BY <2>1, EmptySeq DEF Everywhere, Frames, OnLine, Given
    <2>3. \A f \in Everywhere \cup {BlankFrame} : f \in Frame /\ Traced(f)
      BY EverywhereFrames, BlankTraced, ValueTypes DEF AnswerInv, FramesTraced
    <2>4. FramesTraced'
      BY <2>1, <2>2, <2>3, TracedKept DEF FramesTraced, AnswerInv
    <2>5. NextTraced'
      BY <2>1 DEF NextTraced, AnswerInv, TypeOK
    <2> QED
      BY <2>1, <2>4, <2>5 DEF AnswerInv, CallsTraced, GotMatches
  <1>2. CASE CloseRequest \/ MainStep
    <2>1. /\ UNCHANGED <<issued, base, sequence_number, stick, got, pc, call, send_queue,
                         receive_queue, frame>>
          /\ line' = line \/ line' = <<>>
      BY <1>2 DEF CloseRequest, MainStep, ConnectReturn, ClosePollDone, CloseJoin, DropLine,
                  workerVars, clientVars, sendVars, recvVars, seqVars, stickVars
    <2>2. Everywhere' \subseteq Everywhere
      BY <2>1, EmptySeq DEF Everywhere, Frames, OnLine, Given
    <2> QED
      BY <2>1, <2>2, FramesKept
  <1>3. CASE Restart
    <2>1. /\ issued' = issued /\ base' = issued /\ sequence_number' = 0
          /\ stick' = stick /\ frame' = BlankFrame
          /\ send_queue' = <<>> /\ receive_queue' = <<>> /\ line' = <<>>
          /\ \A c \in Clients : pc'[c] = "idle" /\ got'[c] = BlankFrame
      BY <1>3 DEF Restart, DropLine
    <2>2. Everywhere' \subseteq Everywhere \cup {BlankFrame}
      BY <2>1, EmptySeq DEF Everywhere, Frames, OnLine, Given
    <2>3. \A f \in Everywhere \cup {BlankFrame} : f \in Frame /\ Traced(f)
      BY EverywhereFrames, BlankTraced, ValueTypes DEF AnswerInv, FramesTraced
    <2>4. FramesTraced'
      BY <2>1, <2>2, <2>3, TracedKept DEF FramesTraced, AnswerInv
    <2>5. NextTraced'
      BY <2>1 DEF NextTraced, AnswerInv, TypeOK
    <2> QED
      BY <2>1, <2>4, <2>5 DEF AnswerInv, CallsTraced, GotMatches
  <1> QED
    BY <1>1, <1>2, <1>3

(* The step that numbers a request.                                        *)
LEMMA AnswerEnqueue ==
    ASSUME AnswerInv, TypeOK',
           NEW c \in Clients, NEW command \in Commands, NEW want \in Wanted(command),
           EnqueueTakeSequence(c, command, want)
    PROVE  AnswerInv'
  <1> DEFINE k == [id |-> issued + 1, command |-> command, seq |-> sequence_number,
                   want |-> want]
  <1>1. /\ issued' = issued + 1 /\ base' = base
        /\ sequence_number' = NextSequence(sequence_number)
        /\ call' = [call EXCEPT ![c] = k]
        /\ pc' = [pc EXCEPT ![c] = "push"]
        /\ UNCHANGED <<send_queue, receive_queue, frame, stick, line, got>>
    BY DEF EnqueueTakeSequence, mainVars, workerVars, sendVars, recvVars, stickVars
  <1>2. /\ issued \in Nat /\ base \in Nat /\ base <= issued
        /\ SeqMod \in Nat /\ SeqMod > 0 /\ sequence_number \in Nat
    BY DeviceAssumption DEF AnswerInv, TypeOK, Sequences8
  <1>3. FramesTraced'
    <2>1. Everywhere' = Everywhere
      BY <1>1 DEF Everywhere, Frames, OnLine, Given
    <2> QED
      BY <1>1, <2>1, TracedKept, EverywhereFrames DEF FramesTraced, AnswerInv
  <1>4. NextTraced'
    <2>1. ASSUME issued + 1 - base < SeqMod
          PROVE  NextSequence(sequence_number) = issued + 1 - base
      <3>1. sequence_number = issued - base
        BY <1>2, <2>1 DEF NextTraced, AnswerInv
      <3>2. sequence_number + 1 < SeqMod
        BY <1>2, <2>1, <3>1
      <3>3. (sequence_number + 1) % SeqMod = sequence_number + 1
        BY <1>2, <3>2
      <3> QED
        BY <1>2, <3>1, <3>3 DEF NextSequence
    <2> QED
      BY <1>1, <1>2, <2>1 DEF NextTraced
  <1>5. ASSUME NEW d \in Clients, pc'[d] # "idle"
        PROVE  /\ call'[d].id \in (base' + 1)..issued'
               /\ call'[d].want \in Commands \cup {COMMAND_ANY}
               /\ Traced(Request(call[d]))'
    <2>1. CASE d = c
      <3>1. call'[d] = k
        BY <1>1, <2>1 DEF AnswerInv, TypeOK
      <3>2. InSession' => sequence_number = issued + 1 - base - 1
        BY <1>1, <1>2 DEF InSession, NextTraced, AnswerInv
      <3>3. \A f : f.id = issued + 1 /\ f.seq = sequence_number => Traced(f)'
        BY <1>1, <1>2, <3>2 DEF Traced
      <3>4. /\ Request(call'[d]).id = issued + 1
            /\ Request(call'[d]).seq = sequence_number
        BY <3>1 DEF Request
      <3>5. Traced(Request(call[d]))'
        BY <3>3, <3>4
      <3> QED
        BY <1>1, <1>2, <3>1, <3>5 DEF Wanted
    <2>2. CASE d # c
      <3>1. call'[d] = call[d] /\ pc[d] # "idle"
        BY <1>1, <1>5, <2>2 DEF AnswerInv, TypeOK
      <3>2. /\ call[d].id \in (base + 1)..issued
            /\ call[d].want \in Commands \cup {COMMAND_ANY}
            /\ Traced(Request(call[d]))
        BY <3>1 DEF AnswerInv, CallsTraced
      <3>3. Request(call[d]) \in Frame
        BY ValueTypes DEF AnswerInv, TypeOK
      <3>4. \A f \in Frame : Traced(f) => Traced(f)'
        BY <1>1, TracedKept DEF AnswerInv
      <3>5. Traced(Request(call[d]))'
        BY <3>1, <3>2, <3>3, <3>4
      <3> QED
        BY <1>1, <1>2, <3>1, <3>2, <3>5
    <2> QED
      BY <2>1, <2>2
  <1>6. GotMatches'
    BY <1>1 DEF GotMatches, AnswerInv, TypeOK
  <1> QED
    BY <1>3, <1>4, <1>5, <1>6 DEF AnswerInv, CallsTraced

LEMMA AnswerClient ==
    ASSUME AnswerInv, TypeOK', NEW c \in Clients, ClientStep(c) \/ WaitSpurious(c)
    PROVE  AnswerInv'
  <1>0. TypeOK
    BY DEF AnswerInv
  <1>1. CASE EnqueuePush(c)
    <2>1. /\ UNCHANGED <<issued, base, sequence_number, call, got, receive_queue, frame,
                         stick, line>>
          /\ send_queue' = QueuePush(send_queue, Request(call[c]))
          /\ pc[c] = "push" /\ pc' = [pc EXCEPT ![c] = "wake"]
      BY <1>1 DEF EnqueuePush, mainVars, workerVars, recvVars, seqVars, stickVars
    <2>2. Request(call[c]) \in Frame
      BY <1>0, ValueTypes DEF TypeOK
    <2>3. Frames(send_queue') = Frames(send_queue) \cup {Request(call[c])}
      BY <1>0, <2>1, <2>2, QueueFrames DEF TypeOK
    <2>4. Everywhere' \subseteq Everywhere \cup {Request(call[c])}
      BY <2>1, <2>3 DEF Everywhere, Frames, OnLine, Given
    <2>5. Traced(Request(call[c]))
      BY <2>1 DEF AnswerInv, CallsTraced
    <2> QED
      BY <1>0, <2>1, <2>4, <2>5, FramesKept DEF TypeOK
  <1>2. CASE WaitFound(c)
    <2> DEFINE g == Head(receive_queue).contents
    <2>1. /\ UNCHANGED <<issued, base, sequence_number, call, send_queue, frame, stick, line>>
          /\ receive_queue # <<>> /\ receive_queue' = QueueDeleteHead(receive_queue)
          /\ got' = [got EXCEPT ![c] = g] /\ Matches(g, call[c])
          /\ pc[c] # "idle" /\ pc' = [pc EXCEPT ![c] = "got"]
      BY <1>2 DEF WaitFound, Searching, mainVars, workerVars, sendVars, seqVars, stickVars
    <2>2. g \in Frames(receive_queue) /\ Frames(receive_queue') \subseteq Frames(receive_queue)
      BY <1>0, <2>1, QueueFrames DEF TypeOK
    <2> HIDE DEF g
    <2>3. Given' \subseteq Given \cup {g}
      BY <1>0, <2>1 DEF Given, TypeOK
    <2>4. Everywhere' \subseteq Everywhere
      BY <2>1, <2>2, <2>3 DEF Everywhere, Frames, OnLine
    <2> QED
      BY <1>0, <2>1, <2>4, FramesKept DEF TypeOK
  <1>3. CASE Finish(c)
    <2>1. /\ UNCHANGED <<issued, base, sequence_number, send_queue, receive_queue, frame,
                         stick, line>>
          /\ got' = [got EXCEPT ![c] = BlankFrame]
          /\ call' = [call EXCEPT ![c] = NoCall]
          /\ pc' = [pc EXCEPT ![c] = "idle"]
      BY <1>3 DEF Finish, mainVars, workerVars, sendVars, recvVars, seqVars, stickVars
    <2>2. Given' \subseteq Given \cup {BlankFrame}
      BY <1>0, <2>1 DEF Given, TypeOK
    <2>3. Everywhere' \subseteq Everywhere \cup {BlankFrame}
      BY <2>1, <2>2 DEF Everywhere, Frames, OnLine
    <2> QED
      BY <1>0, <2>1, <2>3, BlankTraced, FramesKept DEF TypeOK
  <1>4. CASE \/ EnqueueWakeUp(c) \/ WaitStuck(c) \/ WaitEmpty(c) \/ WaitSleep(c)
             \/ WaitSpurious(c)
    <2>1. UNCHANGED <<issued, base, sequence_number, call, got, send_queue, receive_queue,
                      frame, stick, line>>
      BY <1>4 DEF EnqueueWakeUp, WaitStuck, WaitEmpty, WaitSleep, WaitSpurious, mainVars,
                  workerVars, sendVars, recvVars, seqVars, stickVars
    <2>2. \A d \in Clients : /\ pc'[d] # "idle" => pc[d] # "idle"
                             /\ pc'[d] = "got" => pc[d] = "got"
      BY <1>0, <1>4 DEF EnqueueWakeUp, WaitStuck, WaitEmpty, WaitSleep, WaitSpurious,
                        Searching, TypeOK
    <2>3. Everywhere' = Everywhere
      BY <2>1 DEF Everywhere, Frames, OnLine, Given
    <2> QED
      BY <2>1, <2>2, <2>3, FramesKept
  <1> QED
    BY <1>1, <1>2, <1>3, <1>4 DEF ClientStep

LEMMA AnswerWorker ==
    ASSUME AnswerInv, TypeOK', WorkerStep
    PROVE  AnswerInv'
  <1>0. TypeOK
    BY DEF AnswerInv
  <1>1. UNCHANGED <<issued, base, sequence_number, call, got>>
    BY DEF WorkerStep, WorkerStart, WorkerCheck, SelectInput, SelectWakeUp, SelectTimeout,
           ReadUnconnected, ReadPacket, WorkerDeliver, WorkerPop, WorkerWrite, WorkerExit,
           mainVars, clientVars, seqVars
  <1>2. \A d \in Clients : /\ pc'[d] # "idle" => pc[d] # "idle"
                           /\ pc'[d] = "got" => pc[d] = "got"
    BY <1>0 DEF WorkerStep, WorkerStart, WorkerCheck, SelectInput, SelectWakeUp,
                SelectTimeout, ReadUnconnected, ReadPacket, WorkerDeliver, WorkerPop,
                WorkerWrite, WorkerExit, Signal, clientVars, TypeOK
  <1>3. Everywhere' \subseteq Everywhere \cup {BlankFrame}
    <2>1. CASE ReadPacket
      <3>1. /\ line # <<>> /\ line' = Tail(line)
            /\ frame' \in {frame, Head(line).frame}
            /\ UNCHANGED <<send_queue, receive_queue, stick, got>>
        BY <2>1 DEF ReadPacket, sendVars, recvVars, clientVars
      <3>2. Head(line).frame \in OnLine /\ OnLine' \subseteq OnLine
        <4>0. line \in Seq(Packet)
          BY <1>0 DEF TypeOK
        <4>1. DOMAIN line = 1..Len(line) /\ Len(line) \in Nat /\ Len(line) > 0
          BY <3>1, <4>0, LenProperties, EmptySeq
        <4>2. Head(line) = line[1] /\ 1 \in DOMAIN line
          BY <3>1, <4>0, <4>1, HeadTailProperties
        <4>3. /\ DOMAIN Tail(line) = 1..Len(line) - 1
              /\ \A i \in 1..Len(line) - 1 : Tail(line)[i] = line[i + 1]
          BY <3>1, <4>0, <4>1, HeadTailProperties, LenProperties
        <4>4. \A i \in 1..Len(line) - 1 : i + 1 \in DOMAIN line
          BY <4>1
        <4> QED
          BY <3>1, <4>2, <4>3, <4>4 DEF OnLine
      <3> QED
        BY <3>1, <3>2 DEF Everywhere, Frames, Given
    <2>2. CASE WorkerDeliver
      <3>1. /\ receive_queue' = QueuePush(receive_queue, frame) /\ frame' = BlankFrame
            /\ UNCHANGED <<send_queue, stick, line, got>>
        BY <2>2 DEF WorkerDeliver, sendVars, stickVars
      <3>2. Frames(receive_queue') = Frames(receive_queue) \cup {frame}
        <4>1. frame \in Frame /\ receive_queue \in Seq(Item(Frame))
          BY <1>0 DEF TypeOK
        <4> QED
          BY <3>1, <4>1, QueueFrames
      <3> QED
        BY <3>1, <3>2 DEF Everywhere, Frames, OnLine, Given
    <2>3. CASE WorkerPop
      <3>1. CASE send_queue = <<>>
        BY <2>3, <3>1 DEF WorkerPop, Everywhere, Frames, OnLine, Given, recvVars, clientVars,
                          stickVars
      <3>2. CASE send_queue # <<>>
        <4>1. /\ frame' = Head(send_queue).contents /\ send_queue' = QueuePop(send_queue)
              /\ UNCHANGED <<receive_queue, stick, line, got>>
          BY <2>3, <3>2 DEF WorkerPop, recvVars, clientVars, stickVars
        <4>2. /\ Head(send_queue).contents \in Frames(send_queue)
              /\ Frames(send_queue') \subseteq Frames(send_queue)
          BY <1>0, <3>2, <4>1, QueueFrames DEF TypeOK
        <4> QED
          BY <4>1, <4>2 DEF Everywhere, Frames, OnLine, Given
      <3> QED
        BY <3>1, <3>2
    <2>4. CASE WorkerWrite
      BY <2>4 DEF WorkerWrite, Everywhere, Frames, OnLine, Given, sendVars, recvVars,
                  clientVars
    <2>5. CASE SelectInput
      BY <2>5 DEF SelectInput, Everywhere, Frames, OnLine, Given, sendVars, recvVars,
                  clientVars, stickVars
    <2>6. CASE \/ WorkerStart \/ WorkerCheck \/ SelectWakeUp \/ SelectTimeout
               \/ ReadUnconnected \/ WorkerExit
      <3>1. UNCHANGED <<send_queue, receive_queue, frame, stick, line, got>>
        BY <2>6 DEF WorkerStart, WorkerCheck, SelectWakeUp, SelectTimeout, ReadUnconnected,
                    WorkerExit, sendVars, recvVars, clientVars, stickVars
      <3> QED
        BY <3>1 DEF Everywhere, Frames, OnLine, Given
    <2> QED
      BY <2>1, <2>2, <2>3, <2>4, <2>5, <2>6 DEF WorkerStep
  <1>4. \A f \in Everywhere' : f \in Everywhere \/ Traced(f)
    BY <1>0, <1>3, BlankTraced
  <1> QED
    BY <1>1, <1>2, <1>4, FramesKept

(* What the stick and the line do to the frames under way.                 *)
LEMMA LineFrames ==
    ASSUME TypeOK
    PROVE  /\ \A f \in Frame : Arrives(f) => OnLine' \subseteq OnLine \cup {f}
           /\ \A kind \in {"good", "damaged", "cut"} :
                  line # <<>> /\ LastBecomes(kind) => OnLine' \subseteq OnLine
           /\ LineSplit => OnLine' \subseteq OnLine \cup {BlankFrame}
  <1>1. line \in Seq(Packet) /\ DOMAIN line = 1..Len(line) /\ Len(line) \in Nat
    BY LenProperties DEF TypeOK
  <1>2. ASSUME NEW f \in Frame, Arrives(f)
        PROVE  OnLine' \subseteq OnLine \cup {f}
    <2> DEFINE p == [kind |-> "good", frame |-> f]
    <2>1. CASE line' = line
      BY <2>1 DEF OnLine
    <2>2. CASE line' = Append(line, p)
      <3>1. p \in Packet /\ p.frame = f
        BY DEF Packet
      <3> HIDE DEF p
      <3>2. /\ DOMAIN line' = 1..Len(line) + 1
            /\ \A i \in 1..Len(line) : line'[i] = line[i]
            /\ line'[Len(line) + 1] = p
        BY <1>1, <2>2, <3>1, AppendProperties, LenProperties
      <3>3. 1..Len(line) + 1 = 1..Len(line) \cup {Len(line) + 1}
        BY <1>1
      <3> QED
        BY <1>1, <3>1, <3>2, <3>3 DEF OnLine
    <2> QED
      BY <1>2, <2>1, <2>2 DEF Arrives
  <1>3. ASSUME NEW kind \in {"good", "damaged", "cut"}, line # <<>>, LastBecomes(kind)
        PROVE  OnLine' \subseteq OnLine
    <2>1. DOMAIN line' = DOMAIN line
      BY <1>3 DEF LastBecomes, LastAs
    <2>2. \A i \in DOMAIN line : line'[i].frame = line[i].frame
      BY <1>3 DEF LastBecomes, LastAs
    <2> QED
      BY <2>1, <2>2 DEF OnLine
  <1>4. ASSUME LineSplit PROVE OnLine' \subseteq OnLine \cup {BlankFrame}
    <2> DEFINE p == [kind |-> "damaged", frame |-> BlankFrame]
    <2>1. PICK b : b = LastAs("damaged")
      OBVIOUS
    <2>2. /\ b \in Seq(Packet) /\ DOMAIN b = DOMAIN line
          /\ \A i \in DOMAIN line : b[i].frame = line[i].frame
      <3>1. b \in Seq(Packet)
        BY <1>1, <1>4, <2>1, LineTypes DEF LineSplit
      <3> QED
        BY <2>1, <3>1 DEF LastAs
    <2>3. p \in Packet /\ p.frame = BlankFrame
      BY ValueTypes DEF Packet
    <2>4. line' = Append(b, p)
      BY <1>4, <2>1 DEF LineSplit
    <2> HIDE DEF p
    <2>5. Len(b) = Len(line)
      BY <1>1, <2>2, LenProperties
    <2>6. /\ DOMAIN line' = 1..Len(line) + 1
          /\ \A i \in 1..Len(line) : line'[i] = b[i]
          /\ line'[Len(line) + 1] = p
      BY <2>2, <2>3, <2>4, <2>5, AppendProperties, LenProperties
    <2>7. 1..Len(line) + 1 = 1..Len(line) \cup {Len(line) + 1}
      BY <1>1
    <2> QED
      BY <1>1, <2>2, <2>3, <2>6, <2>7 DEF OnLine
  <1> QED
    BY <1>2, <1>3, <1>4

LEMMA AnswerStick ==
    ASSUME AnswerInv, TypeOK', StickStep
    PROVE  AnswerInv'
  <1>0. TypeOK
    BY DEF AnswerInv
  <1>1. UNCHANGED <<issued, base, sequence_number, call, got, pc, send_queue, receive_queue,
                    frame>>
    BY DEF StickStep, StickAnswer, StickNotice, LineNoise, LineSplit, LineResume, mainVars, workerVars,
           sendVars, recvVars, clientVars, seqVars
  <1>2. \A f \in Everywhere' : f \in Everywhere \/ Traced(f)
    <2>1. ASSUME NEW r \in stick, StickAnswer(r)
          PROVE  Everywhere' \subseteq Everywhere
      <3>1. OnLine' \subseteq OnLine \cup {r} /\ stick' \subseteq stick
        BY <1>0, <2>1, LineFrames DEF StickAnswer, TypeOK
      <3> QED
        BY <1>1, <3>1 DEF Everywhere, Frames, Given
    <2>2. ASSUME NEW s \in Sequences8, StickNotice(s)
          PROVE  \A f \in Everywhere' : f \in Everywhere \/ Traced(f)
      <3> DEFINE n == [id |-> 0, command |-> COMMAND_DEVICE_STATE_CHANGED, seq |-> s]
      <3>1. n \in Frame
        BY DEF Frame, AllCommands
      <3>2. Traced(n)
        BY <1>0, DeviceAssumption DEF Traced, TypeOK
      <3>3. Arrives(n) /\ UNCHANGED stick
        BY <2>2 DEF StickNotice
      <3> HIDE DEF n
      <3>4. OnLine' \subseteq OnLine \cup {n}
        BY <1>0, <3>1, <3>3, LineFrames
      <3> QED
        BY <1>1, <3>2, <3>3, <3>4 DEF Everywhere, Frames, Given
    <2>3. CASE LineResume \/ \E kind \in {"damaged", "cut"} : LineNoise(kind)
      <3>1. OnLine' \subseteq OnLine /\ UNCHANGED stick
        BY <1>0, <2>3, LineFrames DEF LineResume, LineNoise
      <3> QED
        BY <1>1, <3>1 DEF Everywhere, Frames, Given
    <2>4. CASE LineSplit
      <3>1. OnLine' \subseteq OnLine \cup {BlankFrame} /\ UNCHANGED stick
        BY <1>0, <2>4, LineFrames DEF LineSplit
      <3>2. Traced(BlankFrame)
        BY <1>0, BlankTraced
      <3> QED
        BY <1>1, <3>1, <3>2 DEF Everywhere, Frames, Given
    <2> QED
      BY <2>1, <2>2, <2>3, <2>4 DEF StickStep
  <1> QED
    BY <1>1, <1>2, FramesKept

-----------------------------------------------------------------------------
LEMMA AnswerInit == Init => AnswerInv
  <1> SUFFICES ASSUME Init PROVE AnswerInv
    OBVIOUS
  <1>1. TypeOK
    BY TypeInit
  <1>2. Everywhere \subseteq {BlankFrame}
    BY EmptySeq DEF Init, Everywhere, Frames, OnLine, Given
  <1>3. FramesTraced
    BY <1>1, <1>2, BlankTraced DEF FramesTraced
  <1>4. CallsTraced /\ NextTraced /\ GotMatches
    BY DEF Init, CallsTraced, NextTraced, GotMatches
  <1> QED
    BY <1>1, <1>3, <1>4 DEF AnswerInv

LEMMA AnswerNext == AnswerInv /\ [Next]_vars => AnswerInv'
  <1> SUFFICES ASSUME AnswerInv, [Next]_vars PROVE AnswerInv'
    OBVIOUS
  <1>1. TypeOK'
    BY TypeNext DEF AnswerInv
  <1>2. CASE UNCHANGED vars
    <2>1. UNCHANGED <<issued, base, sequence_number, call, got, pc, send_queue,
                      receive_queue, frame, stick, line>>
      BY <1>2 DEF vars, mainVars, workerVars, sendVars, recvVars, clientVars, seqVars,
                  stickVars
    <2>2. Everywhere' = Everywhere
      BY <2>1 DEF Everywhere, Frames, OnLine, Given
    <2> QED
      BY <1>1, <2>1, <2>2, FramesKept
  <1> QED
    BY <1>1, <1>2, AnswerMain, AnswerEnqueue, AnswerClient, AnswerWorker, AnswerStick DEF Next

(* Up to SeqMod requests of a connection, no client that names its command *)
(* is handed the answer to another request of that connection, a report of *)
(* the stick or a blank frame.                                             *)
THEOREM EachClientItsAnswer == Spec => []OwnAnswer
  <1>1. AnswerInv => OwnAnswer
    <2> SUFFICES ASSUME AnswerInv, NEW c \in Clients, pc[c] = "got",
                        call[c].want # COMMAND_ANY, issued - base <= SeqMod
                 PROVE  got[c].id = call[c].id \/ got[c].id \in 1..base
      BY DEF OwnAnswer
    <2> DEFINE g == got[c]
    <2>1. /\ g.command = call[c].want /\ g.seq = call[c].seq
          /\ call[c].want \in Commands
      BY DEF AnswerInv, GotMatches, CallsTraced, Matches
    <2>2. Traced(g)
      BY DEF AnswerInv, FramesTraced, Everywhere, Given
    <2>3. Traced(Request(call[c])) /\ call[c].id \in (base + 1)..issued
      BY DEF AnswerInv, CallsTraced
    <2>4. call[c].seq = call[c].id - base - 1
      BY <2>3 DEF Traced, InSession, Request, AnswerInv, TypeOK
    <2>5. g.id \in 0..issued /\ g.id # 0 /\ (g.id > base => g.seq = g.id - base - 1)
      BY <2>1, <2>2 DEF Traced, InSession
    <2>6. base \in Nat /\ issued \in Nat
      BY DeviceAssumption DEF AnswerInv, TypeOK
    <2> QED
      BY <2>1, <2>3, <2>4, <2>5, <2>6
  <1> QED
    BY <1>1, AnswerInit, AnswerNext, PTL DEF Spec

-----------------------------------------------------------------------------
(* Requests to be written belong to this connection.  OnlyOwnConnection is *)
(* inductive together with the same of the send queue, the calls traced    *)
(* above and a worker that does not run while the device is connected.     *)
QueuedInSession ==
    /\ \A f \in Frames(send_queue) : f.id > base
    /\ OnlyOwnConnection

LEMMA SessionNext ==
    AnswerInv /\ ThreadOrder /\ QueuedInSession /\ [Next]_vars => QueuedInSession'
  <1> SUFFICES ASSUME AnswerInv, ThreadOrder, QueuedInSession, [Next]_vars
               PROVE  QueuedInSession'
    OBVIOUS
  <1> USE DEF QueuedInSession, OnlyOwnConnection
  <1>0. TypeOK
    BY DEF AnswerInv
  <1>1. CASE ConnectOpen \/ ConnectFail \/ Restart
    <2>1. send_queue' = <<>> /\ worker' # "write"
      BY <1>1 DEF ConnectOpen, ConnectFail, ConnectReset, Restart, ThreadOrder, Running,
                  workerVars
    <2> QED
      BY <2>1, EmptySeq DEF Frames
  <1>2. CASE UNCHANGED <<send_queue, base, worker, frame>>
    BY <1>2 DEF Frames
  <1>3. ASSUME NEW c \in Clients, EnqueuePush(c)
        PROVE  QueuedInSession'
    <2>1. call[c].id \in (base + 1)..issued
      BY <1>3 DEF EnqueuePush, AnswerInv, CallsTraced
    <2>2. base \in Nat /\ issued \in Nat
      BY <1>0, DeviceAssumption DEF TypeOK
    <2>3. Request(call[c]).id > base
      BY <2>1, <2>2 DEF Request
    <2>4. Request(call[c]) \in Frame
      BY <1>0, ValueTypes DEF TypeOK
    <2>5. Frames(send_queue') = Frames(send_queue) \cup {Request(call[c])}
      BY <1>0, <1>3, <2>4, QueueFrames DEF TypeOK, EnqueuePush
    <2>6. UNCHANGED <<base, worker, frame>>
      BY <1>3 DEF EnqueuePush, mainVars, workerVars
    <2> QED
      BY <2>3, <2>5, <2>6
  <1>4. CASE WorkerPop
    <2>1. UNCHANGED base
      BY <1>4 DEF WorkerPop, mainVars
    <2>2. CASE send_queue = <<>>
      <3>1. send_queue' = <<>> /\ worker' # "write"
        BY <1>4, <2>2 DEF WorkerPop, NextRound
      <3> QED
        BY <3>1, EmptySeq DEF Frames
    <2>3. CASE send_queue # <<>>
      <3>1. /\ Head(send_queue).contents \in Frames(send_queue)
            /\ Frames(QueuePop(send_queue)) \subseteq Frames(send_queue)
        BY <1>0, <2>3, QueueFrames DEF TypeOK
      <3>2. send_queue' = QueuePop(send_queue) /\ frame' = Head(send_queue).contents
        BY <1>4, <2>3 DEF WorkerPop
      <3> QED
        BY <2>1, <3>1, <3>2
    <2> QED
      BY <2>2, <2>3
  <1>5. CASE WorkerStep /\ ~WorkerPop
    <2>1. /\ UNCHANGED <<send_queue, base>>
          /\ worker' # "write"
      BY <1>5 DEF WorkerStep, WorkerStart, WorkerCheck, SelectInput, SelectWakeUp,
                  SelectTimeout, ReadUnconnected, ReadPacket, WorkerDeliver, WorkerWrite,
                  WorkerExit, NextRound, mainVars, sendVars
    <2> QED
      BY <2>1 DEF Frames
  <1>6. CASE CloseRequest \/ MainStep
    BY <1>2, <1>6 DEF CloseRequest, MainStep, ConnectReturn, ClosePollDone, CloseJoin,
                      sendVars, workerVars
  <1>7. ASSUME NEW c \in Clients, NEW command \in Commands, NEW want \in Wanted(command),
               EnqueueTakeSequence(c, command, want)
        PROVE  QueuedInSession'
    BY <1>2, <1>7 DEF EnqueueTakeSequence, sendVars, mainVars, workerVars
  <1>8. ASSUME NEW c \in Clients, WaitSpurious(c) \/ ClientStep(c), ~EnqueuePush(c)
        PROVE  QueuedInSession'
    BY <1>2, <1>8 DEF ClientStep, EnqueueWakeUp, WaitFound, WaitStuck, WaitEmpty, WaitSleep,
                      WaitSpurious, Finish, sendVars, mainVars, workerVars
  <1>9. CASE StickStep
    BY <1>2, <1>9 DEF StickStep, StickAnswer, StickNotice, LineNoise, LineSplit,
                      LineResume, sendVars, mainVars, workerVars
  <1>10. CASE UNCHANGED vars
    BY <1>2, <1>10 DEF vars, sendVars, mainVars, workerVars
  <1> QED
    BY <1>1, <1>3, <1>4, <1>5, <1>6, <1>7, <1>8, <1>9, <1>10 DEF Next

(* A request queued on a closed device is written by no later connection:  *)
(* conbee_connect drops what it finds in the send queue.                   *)
THEOREM NoRequestOfAnotherConnection == Spec => []OnlyOwnConnection
  <1>1. Init => QueuedInSession
    BY EmptySeq DEF Init, QueuedInSession, OnlyOwnConnection, Frames
  <1> QED
    BY <1>1, SessionNext, AnswerInit, AnswerNext, OrderInit, OrderNext, PTL
       DEF Spec, QueuedInSession, AnswerInv
=============================================================================
