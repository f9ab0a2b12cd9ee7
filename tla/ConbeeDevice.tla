---------------------------- MODULE ConbeeDevice ----------------------------
(***************************************************************************)
(* One struct conbee_device and everything that runs on it: the            *)
(* application threads that enqueue a request and wait for its answer,     *)
(* the thread that connects and closes, the worker thread of               *)
(* conbee-send-receive.c, and, as the environment, the stick.              *)
(*                                                                         *)
(* mutex_worker, mutex_sequence_number, mutex_send_queue and               *)
(* mutex_send_pipe guard sections that never wait inside for another       *)
(* thread, so each such section is one step.  mutex_receive_queue is a     *)
(* variable, because a search that meets a frame it does not want never    *)
(* releases it.                                                            *)
(***************************************************************************)
EXTENDS Integers, FiniteSets, QueueOps

CONSTANTS
    Clients,                      \* application threads
    Commands,                     \* command codes of requests
    COMMAND_ANY,                  \* accepted by conbee_wait_for_frame only
    COMMAND_DEVICE_STATE_CHANGED, \* sent by the stick on its own
    COMMAND_NONE,                 \* 0, the command of conbee_init_frame
    WaitForAny,                   \* may a client wait with COMMAND_ANY?
    SeqMod,                       \* 2^8: values of the uint8_t sequence_number
    PipeCapacity,                 \* wake-ups the pipe holds (64 KiB of 2 bytes)
    MaxRequests,                  \* bound on requests, over all connections
    MaxConnects,                  \* bound on calls of conbee_connect
    MaxNotices,                   \* bound on frames the stick sends on its own
    MaxNoise,                     \* bound on packets damaged or cut short
    MaxSpurious,                  \* bound on spurious wake-ups
    MaxBacklog                    \* bound on receive_queue before tty_status is set

AllCommands == Commands \cup {COMMAND_ANY, COMMAND_DEVICE_STATE_CHANGED, COMMAND_NONE}

ASSUME DeviceAssumption ==
    /\ IsFiniteSet(Clients)
    /\ Commands \cap {COMMAND_ANY, COMMAND_DEVICE_STATE_CHANGED, COMMAND_NONE} = {}
    /\ COMMAND_ANY # COMMAND_DEVICE_STATE_CHANGED
    /\ COMMAND_ANY # COMMAND_NONE
    /\ COMMAND_DEVICE_STATE_CHANGED # COMMAND_NONE
    /\ WaitForAny \in BOOLEAN
    /\ SeqMod \in Nat \ {0}
    /\ PipeCapacity \in Nat \ {0}
    /\ MaxRequests \in Nat /\ MaxConnects \in Nat /\ MaxNotices \in Nat
    /\ MaxNoise \in Nat /\ MaxSpurious \in Nat /\ MaxBacklog \in Nat
    /\ "none" \notin Clients

VARIABLES
    main,            \* the connecting and closing thread
    tty_status,      \* TTY_CONNECTED or not
    fd,              \* the tty is open
    worker_stop,
    worker_running,
    sequence_number,
    send_queue,
    pipe_send_queue, \* wake-ups in the pipe
    receive_queue,
    receive_lock,    \* holder of mutex_receive_queue between steps, or "none"
    wild,            \* a freed queue item has been accessed
    pc,              \* program counter of each client
    call,            \* what each client sent and waits for
    got,             \* the frame conbee_wait_for_frame gave each client
    worker,          \* program counter of the worker
    stop,            \* its local variable stop
    frame,           \* its local variable frame
    stick,           \* requests the stick has and has not answered
    line,            \* packets from the stick the tty has not delivered
    issued,          \* history: number of sequence numbers handed out
    base,            \* history: issued when the device was connected
    connects, notices, noise, spurious  \* counted for the bounds only

mainVars   == <<main, tty_status, fd, worker_stop, connects, base>>
workerVars == <<worker, stop, frame, worker_running>>
sendVars   == <<send_queue, pipe_send_queue>>
recvVars   == <<receive_queue, receive_lock, wild>>
clientVars == <<pc, call, got>>
seqVars    == <<sequence_number, issued>>
stickVars  == <<stick, line, notices, noise>>

vars == <<mainVars, workerVars, sendVars, recvVars, clientVars, seqVars, stickVars, spurious>>

-----------------------------------------------------------------------------
(* Frames.  id is history: the number of the request a frame is or         *)
(* answers, 0 for a frame that belongs to no request.                      *)

Sequences8 == 0..(SeqMod - 1)

Frame == [id : Nat, command : AllCommands, seq : Sequences8]

(* conbee_init_frame *)
BlankFrame == [id |-> 0, command |-> COMMAND_NONE, seq |-> 0]

(* What the tty delivers: a packet whose checksum is right, one whose      *)
(* checksum is wrong, or bytes after which the closing END never comes.    *)
Packet == [kind : {"good", "damaged", "cut"}, frame : Frame]

(* What a client enqueued and what it then waits for.                      *)
Call == [id : Nat, command : AllCommands, seq : Sequences8, want : AllCommands]

NoCall == [id |-> 0, command |-> COMMAND_NONE, seq |-> 0, want |-> COMMAND_NONE]

Request(k) == [id |-> k.id, command |-> k.command, seq |-> k.seq]

(* Faulty variants of the definitions below.                               *)
SaturatingSequence(s) == s + 1
SameSequence(s)       == s
MatchesSequence(f, k) == f.seq = k.seq
MatchesCommand(f, k)  == f.command = k.want \/ k.want = COMMAND_ANY

(* dev->sequence_number++ on a uint8_t *)
NextSequence(s) == (s + 1) % SeqMod

(* The test conbee_wait_for_frame makes on a queued frame.                 *)
Matches(f, k) == /\ \/ k.want = COMMAND_ANY
                    \/ f.command = k.want
                 /\ f.seq = k.seq

-----------------------------------------------------------------------------
Init ==
    /\ main = "unconnected" /\ tty_status = "disconnected" /\ fd = "closed"
    /\ worker_stop = 0 /\ connects = 0 /\ base = 0
    /\ worker = "none" /\ stop = 0 /\ frame = BlankFrame /\ worker_running = 0
    /\ send_queue = <<>> /\ pipe_send_queue = 0
    /\ receive_queue = <<>> /\ receive_lock = "none" /\ wild = FALSE
    /\ pc = [c \in Clients |-> "idle"]
    /\ call = [c \in Clients |-> NoCall]
    /\ got = [c \in Clients |-> BlankFrame]
    /\ sequence_number = 0 /\ issued = 0
    /\ stick = {} /\ line = <<>> /\ notices = 0 /\ noise = 0
    /\ spurious = 0

-----------------------------------------------------------------------------
(* conbee_connect and conbee_close, called by one thread of the            *)
(* application.  conbee_connect on a device in use is a misuse of the API: *)
(* it happens only while no client is inside the library.                  *)

(* Faulty variant of the next definition: the send queue is not emptied.   *)
ConnectKeepsQueue ==
    /\ ~wild /\ main \in {"unconnected", "closed"}
    /\ \A c \in Clients : pc[c] = "idle"
    /\ connects < MaxConnects
    /\ connects' = connects + 1
    /\ tty_status' = "disconnected"
    /\ receive_queue' = <<>>
    /\ sequence_number' = 0
    /\ base' = issued
    /\ UNCHANGED <<send_queue, receive_lock, wild, clientVars, issued, stickVars, spurious>>

(* The part common to a call that succeeds and one whose pipe() fails.     *)
ConnectReset ==
    /\ ~wild /\ main \in {"unconnected", "closed"}
    /\ \A c \in Clients : pc[c] = "idle"
    /\ connects < MaxConnects
    /\ connects' = connects + 1
    /\ tty_status' = "disconnected"
    /\ send_queue' = <<>>
    /\ receive_queue' = <<>>
    /\ sequence_number' = 0
    /\ base' = issued
    /\ UNCHANGED <<receive_lock, wild, clientVars, issued, stickVars, spurious>>

(* conbee_connect up to pthread_create.                                    *)
ConnectOpen ==
    /\ ConnectReset
    /\ main' = "starting"
    /\ fd' = "open"
    /\ pipe_send_queue' = 0
    /\ worker_running' = 0 /\ worker_stop' = 0
    /\ worker' = "start" /\ stop' = 0 /\ frame' = BlankFrame

(* pipe() fails: the tty is closed again and the old pipe, if there was    *)
(* one, stays.  The failures before that one leave the modelled state as   *)
(* it was, disconnected and with no tty open.                              *)
ConnectFail ==
    /\ ConnectReset
    /\ UNCHANGED <<main, fd, worker_stop, pipe_send_queue, workerVars>>

ConnectReturn ==
    /\ ~wild /\ main = "starting"
    /\ main' = "connected"
    /\ tty_status' = "connected"
    /\ UNCHANGED <<fd, worker_stop, connects, base, workerVars, sendVars, recvVars,
                   clientVars, seqVars, stickVars, spurious>>

(* Faulty variants of the next action.                                     *)
CloseDisconnectsFirst ==
    /\ ~wild /\ main = "connected"
    /\ main' = "stopping"
    /\ worker_stop' = 1
    /\ tty_status' = "disconnected"
    /\ UNCHANGED <<fd, connects, base, workerVars, sendVars, recvVars,
                   clientVars, seqVars, stickVars, spurious>>
CloseWithoutRequest ==
    /\ ~wild /\ main = "connected"
    /\ main' = "stopping"
    /\ UNCHANGED <<worker_stop, tty_status, fd, connects, base, workerVars, sendVars,
                   recvVars, clientVars, seqVars, stickVars, spurious>>

CloseRequest ==
    /\ ~wild /\ main = "connected"
    /\ main' = "stopping"
    /\ worker_stop' = 1
    /\ UNCHANGED <<tty_status, fd, connects, base, workerVars, sendVars, recvVars,
                   clientVars, seqVars, stickVars, spurious>>

(* The polling loop of conbee_close ends.                                  *)
ClosePollDone ==
    /\ ~wild /\ main = "stopping"
    /\ worker_running = 0
    /\ main' = "joining"
    /\ UNCHANGED <<tty_status, fd, worker_stop, connects, base, workerVars, sendVars,
                   recvVars, clientVars, seqVars, stickVars, spurious>>

(* What a closed tty does to bytes nobody has read.                        *)
DropLine == line' = <<>>

(* Faulty variant: no pthread_join, the polling loop alone is trusted.     *)
CloseWithoutJoin ==
    /\ ~wild /\ main = "joining"
    /\ main' = "closed"
    /\ fd' = "closed"
    /\ tty_status' = "disconnected"
    /\ DropLine
    /\ UNCHANGED <<worker_stop, connects, base, workerVars, sendVars, recvVars,
                   clientVars, seqVars, stick, notices, noise, spurious>>

(* pthread_join, close(fd).  Clients look at neither fd nor tty_status.    *)
CloseJoin ==
    /\ ~wild /\ main = "joining"
    /\ worker = "done"
    /\ main' = "closed"
    /\ fd' = "closed"
    /\ tty_status' = "disconnected"
    /\ DropLine
    /\ UNCHANGED <<worker_stop, connects, base, workerVars, sendVars, recvVars,
                   clientVars, seqVars, stick, notices, noise, spurious>>

(* The process is killed, at any point, and started again: what it held is *)
(* lost, what the stick has stays.  Of use only if it can connect again.   *)
Restart ==
    /\ ~wild /\ main # "unconnected"
    /\ connects < MaxConnects
    /\ main' = "unconnected" /\ tty_status' = "disconnected" /\ fd' = "closed"
    /\ worker_stop' = 0 /\ base' = issued
    /\ worker' = "none" /\ stop' = 0 /\ frame' = BlankFrame /\ worker_running' = 0
    /\ send_queue' = <<>> /\ pipe_send_queue' = 0
    /\ receive_queue' = <<>> /\ receive_lock' = "none"
    /\ pc' = [c \in Clients |-> "idle"]
    /\ call' = [c \in Clients |-> NoCall]
    /\ got' = [c \in Clients |-> BlankFrame]
    /\ sequence_number' = 0
    /\ DropLine
    /\ UNCHANGED <<wild, issued, connects, stick, notices, noise, spurious>>

-----------------------------------------------------------------------------
(* conbee_enqueue_frame and conbee_wait_for_frame, called one after the    *)
(* other by each client as every function of conbee-functions.c does.      *)
(* Neither looks at tty_status.                                            *)

EnqueueTakeSequence(c, command, want) ==
    /\ ~wild /\ pc[c] = "idle"
    /\ main \notin {"unconnected", "starting"}
    /\ issued < MaxRequests
    /\ issued' = issued + 1
    /\ call' = [call EXCEPT ![c] = [id |-> issued + 1, command |-> command,
                                    seq |-> sequence_number, want |-> want]]
    /\ sequence_number' = NextSequence(sequence_number)
    /\ pc' = [pc EXCEPT ![c] = "push"]
    /\ UNCHANGED <<got, mainVars, workerVars, sendVars, recvVars, stickVars, spurious>>

EnqueuePush(c) ==
    /\ ~wild /\ pc[c] = "push"
    /\ send_queue' = QueuePush(send_queue, Request(call[c]))
    /\ pc' = [pc EXCEPT ![c] = "wake"]
    /\ UNCHANGED <<pipe_send_queue, call, got, mainVars, workerVars, recvVars, seqVars,
                   stickVars, spurious>>

(* Faulty variant: the write to the pipe is left out.                      *)
EnqueueNoWakeUp(c) ==
    /\ ~wild /\ pc[c] = "wake"
    /\ pc' = [pc EXCEPT ![c] = "search"]
    /\ UNCHANGED <<sendVars, call, got, mainVars, workerVars, recvVars, seqVars,
                   stickVars, spurious>>

(* The write to the pipe waits while the pipe is full.                     *)
EnqueueWakeUp(c) ==
    /\ ~wild /\ pc[c] = "wake"
    /\ pipe_send_queue < PipeCapacity
    /\ pipe_send_queue' = pipe_send_queue + 1
    /\ pc' = [pc EXCEPT ![c] = "search"]
    /\ UNCHANGED <<send_queue, call, got, mainVars, workerVars, recvVars, seqVars,
                   stickVars, spurious>>

(* The client holds mutex_receive_queue and is at the head of the queue.   *)
Searching(c) == /\ ~wild /\ pc[c] \in {"search", "woken"}
                /\ receive_lock = "none"

(* Faulty variant: the frame is handed out and stays in the queue.         *)
WaitFoundKeeps(c) ==
    /\ Searching(c)
    /\ receive_queue # <<>>
    /\ Matches(Head(receive_queue).contents, call[c])
    /\ got' = [got EXCEPT ![c] = Head(receive_queue).contents]
    /\ pc' = [pc EXCEPT ![c] = "got"]
    /\ UNCHANGED <<receive_queue, receive_lock, wild, call, mainVars, workerVars, sendVars,
                   seqVars, stickVars, spurious>>

WaitFound(c) ==
    /\ Searching(c)
    /\ receive_queue # <<>>
    /\ Matches(Head(receive_queue).contents, call[c])
    /\ got' = [got EXCEPT ![c] = Head(receive_queue).contents]
    /\ wild' = DeleteIsStale(receive_queue)
    /\ receive_queue' = QueueDeleteHead(receive_queue)
    /\ pc' = [pc EXCEPT ![c] = "got"]
    /\ UNCHANGED <<receive_lock, call, mainVars, workerVars, sendVars, seqVars, stickVars,
                   spurious>>

(* The head is another frame: the inner loop has no step to the next item, *)
(* so the client goes round it for ever and keeps the mutex.               *)
WaitStuck(c) ==
    /\ Searching(c)
    /\ receive_queue # <<>>
    /\ ~Matches(Head(receive_queue).contents, call[c])
    /\ receive_lock' = c
    /\ pc' = [pc EXCEPT ![c] = "spin"]
    /\ UNCHANGED <<receive_queue, wild, call, got, mainVars, workerVars, sendVars, seqVars,
                   stickVars, spurious>>

(* Nothing queued: the mutex is released...                                *)
WaitEmpty(c) ==
    /\ Searching(c)
    /\ receive_queue = <<>>
    /\ pc' = [pc EXCEPT ![c] = "unlocked"]
    /\ UNCHANGED <<call, got, mainVars, workerVars, sendVars, recvVars, seqVars, stickVars,
                   spurious>>

(* ...taken again and given to pthread_cond_wait without a second look.    *)
WaitSleep(c) ==
    /\ ~wild /\ pc[c] = "unlocked"
    /\ receive_lock = "none"
    /\ pc' = [pc EXCEPT ![c] = "asleep"]
    /\ UNCHANGED <<call, got, mainVars, workerVars, sendVars, recvVars, seqVars, stickVars,
                   spurious>>

(* pthread_cond_wait may return without a signal.                          *)
WaitSpurious(c) ==
    /\ ~wild /\ pc[c] = "asleep"
    /\ spurious < MaxSpurious
    /\ spurious' = spurious + 1
    /\ pc' = [pc EXCEPT ![c] = "woken"]
    /\ UNCHANGED <<call, got, mainVars, workerVars, sendVars, recvVars, seqVars, stickVars>>

(* The caller is done with the answer.                                     *)
Finish(c) ==
    /\ ~wild /\ pc[c] = "got"
    /\ pc' = [pc EXCEPT ![c] = "idle"]
    /\ call' = [call EXCEPT ![c] = NoCall]
    /\ got' = [got EXCEPT ![c] = BlankFrame]
    /\ UNCHANGED <<mainVars, workerVars, sendVars, recvVars, seqVars, stickVars, spurious>>

-----------------------------------------------------------------------------
(* conbee_send_receive, the worker.                                        *)

NextRound == worker' = IF stop = 1 THEN "exit" ELSE "check"

WorkerStart ==
    /\ ~wild /\ worker = "start"
    /\ worker_running' = 1
    /\ worker' = "check"
    /\ UNCHANGED <<stop, frame, mainVars, sendVars, recvVars, clientVars, seqVars, stickVars,
                   spurious>>

(* Having seen worker_stop the worker still goes through one more select.  *)
WorkerCheck ==
    /\ ~wild /\ worker = "check"
    /\ stop' = worker_stop
    /\ worker' = "select"
    /\ UNCHANGED <<frame, worker_running, mainVars, sendVars, recvVars, clientVars, seqVars,
                   stickVars, spurious>>

(* The tty is looked at first.                                             *)
SelectInput ==
    /\ ~wild /\ worker = "select"
    /\ line # <<>>
    /\ frame' = BlankFrame
    /\ worker' = "read"
    /\ UNCHANGED <<stop, worker_running, mainVars, sendVars, recvVars, clientVars, seqVars,
                   stickVars, spurious>>

(* Faulty variant of the next definition: the pipe is emptied.             *)
AllWakeUps(n) == 0

(* read(pipe, buf, 2): one wake-up.                                        *)
OneWakeUp(n) == n - 1

SelectWakeUp ==
    /\ ~wild /\ worker = "select"
    /\ line = <<>>
    /\ pipe_send_queue > 0
    /\ pipe_send_queue' = OneWakeUp(pipe_send_queue)
    /\ worker' = "pop"
    /\ UNCHANGED <<stop, frame, worker_running, send_queue, mainVars, recvVars, clientVars,
                   seqVars, stickVars, spurious>>

SelectTimeout ==
    /\ ~wild /\ worker = "select"
    /\ line = <<>>
    /\ pipe_send_queue = 0
    /\ NextRound
    /\ UNCHANGED <<stop, frame, worker_running, mainVars, sendVars, recvVars, clientVars,
                   seqVars, stickVars, spurious>>

(* conbee_read_frame before tty_status is set: -2, nothing is read, and    *)
(* the blank frame is queued all the same.                                 *)
ReadUnconnected ==
    /\ ~wild /\ worker = "read"
    /\ tty_status = "disconnected"
    /\ Len(receive_queue) < MaxBacklog
    /\ worker' = "deliver"
    /\ UNCHANGED <<stop, frame, worker_running, mainVars, sendVars, recvVars, clientVars,
                   seqVars, stickVars, spurious>>

(* conbee_read_frame: a packet with a wrong checksum leaves the frame      *)
(* blank.  A packet cut short keeps the worker reading.                    *)
ReadPacket ==
    /\ ~wild /\ worker = "read"
    /\ tty_status = "connected"
    /\ line # <<>>
    /\ Head(line).kind # "cut"
    /\ frame' = IF Head(line).kind = "good" THEN Head(line).frame ELSE frame
    /\ line' = Tail(line)
    /\ worker' = "deliver"
    /\ UNCHANGED <<stop, worker_running, mainVars, sendVars, recvVars, clientVars, seqVars,
                   stick, notices, noise, spurious>>

(* pthread_cond_signal wakes one of the sleepers.                          *)
Signal ==
    \/ \E c \in Clients : /\ pc[c] = "asleep"
                          /\ pc' = [pc EXCEPT ![c] = "woken"]
    \/ /\ \A c \in Clients : pc[c] # "asleep"
       /\ UNCHANGED pc

WorkerDeliver ==
    /\ ~wild /\ worker = "deliver"
    /\ receive_lock = "none"
    /\ receive_queue' = QueuePush(receive_queue, frame)
    /\ Signal
    /\ frame' = BlankFrame
    /\ NextRound
    /\ UNCHANGED <<stop, worker_running, receive_lock, wild, call, got, mainVars, sendVars,
                   seqVars, stickVars, spurious>>

(* Faulty variant: the frame written stays in the queue.                   *)
WorkerPeek ==
    /\ ~wild /\ worker = "pop"
    /\ IF send_queue = <<>>
       THEN NextRound /\ UNCHANGED frame
       ELSE frame' = Head(send_queue).contents /\ worker' = "write"
    /\ UNCHANGED <<stop, worker_running, sendVars, mainVars, recvVars, clientVars, seqVars,
                   stickVars, spurious>>

WorkerPop ==
    /\ ~wild /\ worker = "pop"
    /\ IF send_queue = <<>>
       THEN /\ NextRound
            /\ UNCHANGED <<send_queue, frame>>
       ELSE /\ frame' = Head(send_queue).contents
            /\ send_queue' = QueuePop(send_queue)
            /\ worker' = "write"
    /\ UNCHANGED <<stop, worker_running, pipe_send_queue, mainVars, recvVars, clientVars,
                   seqVars, stickVars, spurious>>

(* conbee_write_frame, then conbee_free_frame whatever the first returned. *)
WorkerWrite ==
    /\ ~wild /\ worker = "write"
    /\ stick' = IF tty_status = "connected" THEN stick \cup {frame} ELSE stick
    /\ frame' = BlankFrame
    /\ NextRound
    /\ UNCHANGED <<stop, worker_running, line, notices, noise, mainVars, sendVars, recvVars,
                   clientVars, seqVars, spurious>>

WorkerExit ==
    /\ ~wild /\ worker = "exit"
    /\ worker_running' = 0
    /\ worker' = "done"
    /\ UNCHANGED <<stop, frame, mainVars, sendVars, recvVars, clientVars, seqVars, stickVars,
                   spurious>>

-----------------------------------------------------------------------------
(* The stick and the serial line, as far as the library relies on them: an *)
(* answer repeats the command and the sequence number of its request; the  *)
(* stick reports changes on its own under sequence numbers of its own.     *)

LineWhole == \A i \in DOMAIN line : line[i].kind # "cut"

(* Bytes that arrive while the tty is closed are lost.                     *)
Arrives(f) == line' = IF fd = "open" THEN Append(line, [kind |-> "good", frame |-> f])
                                     ELSE line

StickAnswer(r) ==
    /\ ~wild /\ LineWhole
    /\ stick' = stick \ {r}
    /\ Arrives(r)
    /\ UNCHANGED <<notices, noise, mainVars, workerVars, sendVars, recvVars, clientVars,
                   seqVars, spurious>>

StickNotice(s) ==
    /\ ~wild /\ LineWhole
    /\ notices < MaxNotices
    /\ notices' = notices + 1
    /\ Arrives([id |-> 0, command |-> COMMAND_DEVICE_STATE_CHANGED, seq |-> s])
    /\ UNCHANGED <<stick, noise, mainVars, workerVars, sendVars, recvVars, clientVars,
                   seqVars, spurious>>

LastAs(kind) == [line EXCEPT ![Len(line)] = [kind |-> kind, frame |-> @.frame]]
LastBecomes(kind) == line' = LastAs(kind)

(* The last packet is damaged, or its end does not come (yet).             *)
LineNoise(kind) ==
    /\ ~wild /\ noise < MaxNoise
    /\ line # <<>>
    /\ line[Len(line)].kind = "good"
    /\ noise' = noise + 1
    /\ LastBecomes(kind)
    /\ UNCHANGED <<stick, notices, mainVars, workerVars, sendVars, recvVars, clientVars,
                   seqVars, spurious>>

(* A byte of the last packet is changed into an END: it comes as two, each *)
(* with a checksum that is not its own.                                    *)
LineSplit ==
    /\ ~wild /\ noise < MaxNoise
    /\ line # <<>>
    /\ line[Len(line)].kind \in {"good", "damaged"}
    /\ noise' = noise + 1
    /\ line' = Append(LastAs("damaged"), [kind |-> "damaged", frame |-> BlankFrame])
    /\ UNCHANGED <<stick, notices, mainVars, workerVars, sendVars, recvVars, clientVars,
                   seqVars, spurious>>

(* The end of a packet cut short comes after all.                          *)
LineResume ==
    /\ ~wild /\ line # <<>>
    /\ line[Len(line)].kind = "cut"
    /\ LastBecomes("good")
    /\ UNCHANGED <<stick, notices, noise, mainVars, workerVars, sendVars, recvVars,
                   clientVars, seqVars, spurious>>

-----------------------------------------------------------------------------
Wanted(command) == IF WaitForAny THEN {command, COMMAND_ANY} ELSE {command}

MainStep == ConnectReturn \/ ClosePollDone \/ CloseJoin

ClientStep(c) == \/ EnqueuePush(c) \/ EnqueueWakeUp(c)
                 \/ WaitFound(c) \/ WaitStuck(c) \/ WaitEmpty(c) \/ WaitSleep(c)
                 \/ Finish(c)

WorkerStep == \/ WorkerStart \/ WorkerCheck
              \/ SelectInput \/ SelectWakeUp \/ SelectTimeout
              \/ ReadUnconnected \/ ReadPacket \/ WorkerDeliver
              \/ WorkerPop \/ WorkerWrite \/ WorkerExit

StickStep == \/ \E r \in stick : StickAnswer(r)
             \/ \E s \in Sequences8 : StickNotice(s)
             \/ \E kind \in {"damaged", "cut"} : LineNoise(kind)
             \/ LineSplit
             \/ LineResume

Next ==
    \/ ConnectOpen \/ ConnectFail \/ CloseRequest \/ MainStep \/ Restart
    \/ \E c \in Clients : \/ \E command \in Commands : \E want \in Wanted(command) :
                                EnqueueTakeSequence(c, command, want)
                          \/ WaitSpurious(c)
                          \/ ClientStep(c)
    \/ WorkerStep
    \/ StickStep

Spec == Init /\ [][Next]_vars

(* Every thread of the process is scheduled.  Nothing forces a client to   *)
(* start a call, the application to connect or close, or the stick to act. *)
Fairness == /\ WF_vars(MainStep)
            /\ WF_vars(WorkerStep)
            /\ \A c \in Clients : WF_vars(ClientStep(c))

FairSpec == Spec /\ Fairness
-----------------------------------------------------------------------------
(* Every variable keeps its type: the sequence number its eight bits, the  *)
(* pipe its capacity, the queues and the line hold frames and nothing else.*)
TypeOK ==
    /\ main \in {"unconnected", "starting", "connected", "stopping", "joining", "closed"}
    /\ tty_status \in {"disconnected", "connected"} /\ fd \in {"open", "closed"}
    /\ worker_stop \in {0, 1} /\ worker_running \in {0, 1} /\ stop \in {0, 1}
    /\ worker \in {"none", "start", "check", "select", "read", "deliver", "pop",
                    "write", "exit", "done"}
    /\ pc \in [Clients -> {"idle", "push", "wake", "search", "unlocked", "asleep",
                            "woken", "spin", "got"}]
    /\ receive_lock \in Clients \cup {"none"} /\ wild \in BOOLEAN
    /\ sequence_number \in Sequences8 /\ pipe_send_queue \in 0..PipeCapacity
    /\ send_queue \in Seq(Item(Frame)) /\ receive_queue \in Seq(Item(Frame))
    /\ line \in Seq(Packet) /\ stick \subseteq Frame /\ frame \in Frame
    /\ call \in [Clients -> Call] /\ got \in [Clients -> Frame]
    /\ issued \in 0..MaxRequests /\ base \in 0..issued
    /\ connects \in Nat /\ notices \in Nat /\ noise \in Nat /\ spurious \in Nat

(* While the worker runs, every frame in the send queue has exactly one    *)
(* wake-up that will fetch it: in the pipe, about to be written by the     *)
(* client that queued the frame, or just read by the worker.  The push and *)
(* the write to the pipe are under different mutexes, and two clients may  *)
(* overtake each other between them; still no frame is left behind without *)
(* a wake-up and no wake-up finds the queue empty.                         *)
Running == worker \notin {"none", "done"}
Wakers == {c \in Clients : pc[c] = "wake"}
TokensAccountForFrames ==
    Running =>
        Len(send_queue) = pipe_send_queue + Cardinality(Wakers)
                            + (IF worker = "pop" THEN 1 ELSE 0)

(* A request exists once: in its client's hands, in the send queue, with   *)
(* the worker, at the stick; and from there on its answer exists once: on  *)
(* the line, with the worker, in the receive queue or with one client.  No *)
(* request is sent twice and no answer is handed to two waiters.           *)
Indices(q, i) == {k \in DOMAIN q : q[k].contents.id = i}
Copies(i) ==
      Cardinality({c \in Clients : pc[c] = "push" /\ call[c].id = i})
    + Cardinality(Indices(send_queue, i))
    + (IF frame.id = i THEN 1 ELSE 0)
    + Cardinality({r \in stick : r.id = i})
    + Cardinality({k \in DOMAIN line : line[k].frame.id = i})
    + Cardinality(Indices(receive_queue, i))
    + Cardinality({c \in Clients : got[c].id = i})
AtMostOneCopy == \A i \in 1..issued : Copies(i) <= 1

(* A client that waits for its own command gets the answer to its own      *)
(* request and to no other, however requests, answers and reports of the   *)
(* stick interleave, as long as the eight bits of sequence_number have not *)
(* been used up since the device was connected.  The exception is an       *)
(* answer to a request of an earlier connection (number at most base):     *)
(* conbee_connect starts the sequence numbers from 0 again, and the stick  *)
(* may still owe answers to a process that was killed.                     *)
OwnAnswer ==
    \A c \in Clients :
        /\ pc[c] = "got"
        /\ call[c].want # COMMAND_ANY
        /\ issued - base <= SeqMod
        => \/ got[c].id = call[c].id
           \/ got[c].id \in 1..base

(* The tty stays open as long as the worker may use it: conbee_close       *)
(* closes it after the worker has ended, also when the polling loop saw    *)
(* worker_running still 0 because the worker had not started yet.          *)
FdOutlivesWorker == Running => fd = "open"

(* The result of conbee_write_frame is thrown away and the frame freed     *)
(* ("TODO: check retval"), so a write to a disconnected device would lose  *)
(* the request without a trace.  It never happens: clients get in after    *)
(* tty_status is set, and it is reset after the worker has ended.          *)
WriteWhenConnected == worker = "write" => tty_status = "connected"

(* On an undisturbed first connection, with a stick that sends nothing on  *)
(* its own, a second frame in the receive queue, whose deletion would      *)
(* write through the first, needs two threads inside the library, and so   *)
(* does a search that spins with mutex_receive_queue locked: a program     *)
(* that waits for each answer before its next request meets neither.  With *)
(* several threads the search is safe only as long as the eight bits of    *)
(* sequence_number last: after that COMMAND_ANY can take another thread's  *)
(* answer, and leave that thread alone with an answer that does not match. *)
Busy == {c \in Clients : pc[c] # "idle"}
Undisturbed == notices = 0 /\ noise = 0 /\ base = 0
NothingTaken == issued <= SeqMod \/ Cardinality(Clients) = 1
OneAtATimeIsSafe ==
    Undisturbed =>
        /\ Len(receive_queue) <= Cardinality(Busy)
        /\ receive_lock # "none" /\ NothingTaken => Cardinality(Busy) > 1
        /\ wild => Cardinality(Clients) > 1

(* A frame enqueued on a closed device stays in the send queue, and its    *)
(* caller may even get out again, with the blank frame of a damaged        *)
(* packet.  No connection writes it: the tty is only given requests that   *)
(* were made since the device was connected.                               *)
OnlyOwnConnection == worker = "write" => frame.id > base

(* The program is stuck or undefined: a client spins with the mutex, freed *)
(* memory was accessed, or the packet being read has no end.               *)
Stalled == \/ receive_lock # "none"
           \/ wild
           \/ line # <<>> /\ Head(line).kind = "cut"

(* conbee_close returns, unless the process is killed or stuck for good.   *)
CloseReturns == [](main = "stopping" =>
                      <>(main \in {"closed", "unconnected"}) \/ <>[]Stalled)

(* A frame that conbee_enqueue_frame has queued on a connected device is   *)
(* written to the tty, unless the application closes the device or the     *)
(* program is stuck for good.                                              *)
Queued(i) == Indices(send_queue, i) # {}
EnqueuedIsWritten ==
    \A i \in 1..MaxRequests :
        [](Queued(i) => \/ <>(~Queued(i))
                        \/ <>(main \notin {"starting", "connected"})
                        \/ <>[]Stalled)


(* What a request has come to, as module RequestService sees it; the       *)
(* device implements that module: no request is sent or answered again, in *)
(* no order of threads, answers, losses, restarts and connections.         *)
Exists(i) ==
    \/ \E c \in Clients : pc[c] = "push" /\ call[c].id = i
    \/ frame.id = i
    \/ \E f \in stick : f.id = i
    \/ \E k \in DOMAIN line : line[k].frame.id = i
    \/ Indices(send_queue, i) \cup Indices(receive_queue, i) # {}
ServiceState ==
    [k \in 1..MaxRequests |->
       IF k > issued THEN "unused"
       ELSE IF \E c \in Clients : got[c].id = k THEN "answered"
       ELSE IF Exists(k) THEN "pending"
       ELSE "over"]
Service == INSTANCE RequestService WITH state <- ServiceState
ImplementsRequestService == Service!Spec

-----------------------------------------------------------------------------
(* What the documentation says and the code does not do.                   *)

(* conbee.c:1024 "lock reception queue and search for message": a search   *)
(* that ends without finding the frame means the frame is not queued.      *)
SearchFindsFrame ==
    \A c \in Clients : pc[c] = "spin" =>
        \A k \in DOMAIN receive_queue : ~Matches(receive_queue[k].contents, call[c])

(* conbee.c:1005 "wait for the reception of a specific frame": once the    *)
(* frame has been received, the wait ends, unless the program is stuck or  *)
(* the device is closed.                                                   *)
Received(c) == \E k \in DOMAIN receive_queue : Matches(receive_queue[k].contents, call[c])
ReceivedFrameIsReturned ==
    \A c \in Clients : (pc[c] = "asleep" /\ Received(c))
                         ~> (pc[c] = "got" \/ Stalled \/ main # "connected")

(* conbee.c:305 "the conbee_device to read the frame from, make sure it is *)
(* already connected": conbee_read_frame is called on a connected device.  *)
ReadsConnectedDevice == worker = "read" => tty_status = "connected"

(* conbee.c:975 "-2 - conbee device is not connected": on a disconnected   *)
(* device conbee_enqueue_frame gives back an error and queues nothing.     *)
EnqueueRefusedWhenDisconnected ==
    [][\A c \in Clients : EnqueuePush(c) => tty_status = "connected"]_vars

(* conbee.c:1016 "-2 - conbee device is not connected": a call of          *)
(* conbee_wait_for_frame on a closed device returns.                       *)
WaitReturnsWhenDisconnected ==
    \A c \in Clients :
        (pc[c] = "search" /\ main = "closed") ~> (pc[c] = "idle" \/ Stalled)
=============================================================================
